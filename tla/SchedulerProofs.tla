--------------------------- MODULE SchedulerProofs ---------------------------
(***************************************************************************)
(* Proofs about Scheduler, for any table, any crons, any releases and any  *)
(* interleaving of the tick with edits and restarts.                       *)
(***************************************************************************)
EXTENDS Scheduler, TLAPS

-----------------------------------------------------------------------------
(* The inductive invariant. *)

\* The clock never runs behind a tick, nor a tick behind the jobs it created.
Numbered ==
  /\ at <= now
  /\ \A j \in jobs : j.n <= serial /\ j.boot <= boot /\ (j.due # None => j.at <= at)

\* An instant later than every tick of this boot that fired schedule i.
Ahead(i, t) ==
  \A j \in jobs : j.schedule = i /\ j.boot = boot /\ j.due # None => t > j.at

\* What the tick loaded is one row per schedule, and what it is about to fire
\* is due and was not fired before.
LeftFires ==
  /\ \A r, s \in left : r.id = s.id => r = s
  /\ step \in {"fire", "advance"} =>
       \A s \in left : s.row.next # None /\ s.row.next <= at /\ Ahead(s.id, s.row.next)

\* Between its two commits it holds the row it fired.
CurFired == step = "advance" => cur \in Loaded /\ cur.row.next # None /\ cur.row.next <= at

\* Every row waits for a firing that no job of this boot was for, except the
\* one whose advance is still to be committed.
RowsAhead ==
  \A i \in Ids :
    Exists(i) /\ rows[i].next # None /\ ~(step = "advance" /\ cur.id = i)
    => Ahead(i, rows[i].next)

IInv == TypeOK /\ Numbered /\ LeftFires /\ CurFired /\ RowsAhead /\ OwedOnce
-----------------------------------------------------------------------------
(* What the operators on rows return. *)

\* A merge of rows is a row.
LEMMA SavedIsRow ==
  ASSUME NEW stored \in Row, NEW loaded \in Row, NEW changed \in Row
  PROVE  Saved(stored, loaded, changed) \in Row
BY DEF Saved, Newer, Row

\* Its next_run_at is the stored one, or one that was changed.
LEMMA SavedNext ==
  ASSUME NEW stored, NEW loaded, NEW changed
  PROVE  /\ Saved(stored, loaded, changed).next \in {stored.next, changed.next}
         /\ changed.next # loaded.next => Saved(stored, loaded, changed).next = changed.next
         /\ changed.next = loaded.next => Saved(stored, loaded, changed).next = stored.next
BY DEF Saved, Newer

\* Advancing a row at t gives a row that waits for later than t, or not at all.
LEMMA AdvancedIsLater ==
  ASSUME NEW b \in Build, NEW r \in Row, NEW t \in 0..MaxTime
  PROVE  /\ AdvancedBy(b, r, t) \in Row
         /\ \/ AdvancedBy(b, r, t).next = None
            \/ AdvancedBy(b, r, t).next \in Nat /\ AdvancedBy(b, r, t).next > t
BY NextFireAssumption, NumbersAssumption DEF AdvancedBy, Disabled, Row, Build

\* So is a disabled row.
LEMMA DisabledIsRow ==
  ASSUME NEW r \in Row
  PROVE  Disabled(r) \in Row /\ Disabled(r).next = None
BY DEF Disabled, Row

\* A PATCH asks for a row, and moves its next_run_at only into the future.
LEMMA PatchedIsLater ==
  ASSUME TypeOK, NEW p \in patches
  PROVE  /\ Patched(p) \in Row
         /\ \/ Patched(p).next \in {None, p.row.next}
            \/ Patched(p).next \in Nat /\ Patched(p).next > now
<1>1. p.row \in Row /\ p.body \in Bodies /\ now \in 0..MaxTime
  BY DEF TypeOK, Request
<1>2. Asked(p) \in Row /\ Asked(p).next = p.row.next
  <2> DEFINE cron == IF "cron" \in DOMAIN p.body THEN p.body.cron ELSE p.row.cron
             kind == IF "kind" \in DOMAIN p.body THEN p.body.kind ELSE p.row.kind
             params == IF "params" \in DOMAIN p.body THEN p.body.params ELSE p.row.params
             enabled == IF "enabled" \in DOMAIN p.body THEN p.body.enabled ELSE p.row.enabled
  <2>1. cron \in Crons /\ kind \in Kinds /\ params \in Params /\ enabled \in BOOLEAN
    BY <1>1, BodiesAssumption DEF Row
  <2>2. Asked(p) = [p.row EXCEPT !.cron = cron, !.kind = kind, !.params = params, !.enabled = enabled]
    BY DEF Asked
  <2> HIDE DEF cron, kind, params, enabled
  <2> QED
    BY <1>1, <2>1, <2>2 DEF Row
<1> DEFINE r == Asked(p)
<1>3. [r EXCEPT !.next = None] \in Row /\ [r EXCEPT !.next = None].next = None
  BY <1>2 DEF Row
<1>4. /\ [r EXCEPT !.next = NextFire(r.cron, now)] \in Row
      /\ [r EXCEPT !.next = NextFire(r.cron, now)].next = NextFire(r.cron, now)
      /\ NextFire(r.cron, now) \in Nat /\ NextFire(r.cron, now) > now
  BY <1>1, <1>2, NextFireAssumption DEF Row
<1>5. Patched(p) \in {r, [r EXCEPT !.next = None], [r EXCEPT !.next = NextFire(r.cron, now)]}
  BY DEF Patched
<1> HIDE DEF r
<1> QED
  BY <1>1, <1>2, <1>3, <1>4, <1>5 DEF r

\* A draft becomes a row that fires later than now, or not at all.
LEMMA PrimedIsLater ==
  ASSUME TypeOK, NEW d \in Drafts
  PROVE  /\ Primed(d) \in Row
         /\ \/ Primed(d).next = None
            \/ Primed(d).next \in Nat /\ Primed(d).next > now
BY DraftsAssumption, NextFireAssumption DEF Primed, Row, TypeOK
-----------------------------------------------------------------------------
\* Nothing is fired before the first boot.
LEMMA InitInv == Init => IInv
BY NumbersAssumption
   DEF Init, IInv, TypeOK, Numbered, LeftFires, CurFired, RowsAhead, Exists, OwedOnce
-----------------------------------------------------------------------------
(* The steps of the tick. *)

\* Committing a row: every row that may be fired again waits for later.
LEMMA SettleInv ==
  ASSUME IInv, NEW s \in Loaded, NEW changed \in Row,
         step \in {"fire", "advance"},
         step = "advance" => s = cur,
         s.row.next # None, s.row.next <= at,
         changed.next = None \/ (changed.next \in Nat /\ changed.next > at),
         Settle(s, changed),
         UNCHANGED <<now, build, jobs, serial, boot, at, patches, edits>>
  PROVE  IInv'
<1> USE DEF IInv
<1>1. CASE Exists(s.id)
  <2>1. /\ rows' = [rows EXCEPT ![s.id] = Saved(rows[s.id], s.row, changed)]
        /\ step' = "fire" /\ left' = left \ {s} /\ cur' = None
    BY <1>1 DEF Settle, Save
  <2>2. s.id \in Ids /\ s.row \in Row /\ rows \in [Ids -> Row \cup {None}] /\ rows[s.id] \in Row
    BY <1>1 DEF Loaded, TypeOK, Exists
  <2>3. Saved(rows[s.id], s.row, changed) \in Row
    BY <2>2, SavedIsRow
  <2>4. Saved(rows[s.id], s.row, changed).next = changed.next
    BY <2>2, SavedNext, NumbersAssumption DEF TypeOK, Row
  <2>5. TypeOK'
    BY <2>1, <2>2, <2>3 DEF TypeOK
  <2>6. Numbered' /\ OwedOnce' /\ CurFired'
    BY <2>1 DEF Numbered, OwedOnce, CurFired
  <2>7. LeftFires'
    BY <2>1 DEF LeftFires, Ahead
  <2>8. RowsAhead'
    <3> SUFFICES ASSUME NEW i \in Ids, Exists(i)', rows'[i].next # None,
                        NEW j \in jobs, j.schedule = i, j.boot = boot, j.due # None
                 PROVE  rows'[i].next > j.at
      BY <2>1 DEF RowsAhead, Ahead
    <3>1. CASE i = s.id
      <4>1. rows'[i].next = changed.next
        BY <2>1, <2>2, <2>4, <3>1
      <4>2. j.at <= at /\ j.at \in Nat /\ at \in Nat
        BY DEF Numbered, TypeOK, JobRow
      <4> QED
        BY <4>1, <4>2
    <3>2. CASE i # s.id
      <4>1. rows'[i] = rows[i] /\ ~(step = "advance" /\ cur.id = i)
        BY <2>1, <2>2, <3>2
      <4> QED
        BY <4>1 DEF RowsAhead, Ahead, Exists
    <3> QED
      BY <3>1, <3>2
  <2> QED
    BY <2>5, <2>6, <2>7, <2>8
<1>2. CASE ~Exists(s.id)
  <2>1. rows' = rows /\ step' = "sleep" /\ left' = {} /\ cur' = None
    BY <1>2 DEF Settle, Abort
  <2>2. TypeOK' /\ Numbered' /\ OwedOnce' /\ CurFired' /\ LeftFires'
    BY <2>1 DEF TypeOK, Numbered, OwedOnce, CurFired, LeftFires
  <2>3. RowsAhead'
    BY <1>2, <2>1 DEF RowsAhead, Ahead, Exists
  <2> QED
    BY <2>2, <2>3
<1> QED
  BY <1>1, <1>2

\* Giving the tick up leaves the rows as they are.
LEMMA AbortInv ==
  ASSUME IInv, step # "advance", Abort,
         UNCHANGED <<now, build, table, boot, at, patches, edits>>
  PROVE  IInv'
<1> USE DEF IInv, Abort, table
<1>1. TypeOK' /\ Numbered' /\ OwedOnce' /\ CurFired' /\ LeftFires'
  BY DEF TypeOK, Numbered, OwedOnce, CurFired, LeftFires
<1>2. RowsAhead'
  BY DEF RowsAhead, Ahead, Exists
<1> QED
  BY <1>1, <1>2

\* Loading the rows without a firing.
LEMMA BeginInv == IInv /\ Begin => IInv'
<1> SUFFICES ASSUME IInv, Begin PROVE IInv'
  OBVIOUS
<1> USE DEF IInv, Begin, table
<1>1. TypeOK'
  <2>1. left' \subseteq Loaded
    BY DEF Unprimed, Exists, TypeOK, Loaded
  <2> QED
    BY <2>1 DEF TypeOK
<1>2. Numbered'
  BY DEF Numbered, TypeOK, JobRow
<1>3. LeftFires' /\ CurFired' /\ OwedOnce'
  BY DEF LeftFires, CurFired, OwedOnce
<1>4. RowsAhead'
  BY DEF RowsAhead, Ahead, Exists
<1> QED
  BY <1>1, <1>2, <1>3, <1>4

\* Priming: what it sets is later than the tick.
LEMMA PrimeInv == IInv /\ Prime => IInv'
<1> SUFFICES ASSUME IInv, Prime PROVE IInv'
  OBVIOUS
<1> USE DEF IInv
<1>0. step = "prime" /\ UNCHANGED <<now, build, jobs, serial, boot, at, patches, edits>>
  BY DEF Prime
<1>1. CASE \A s \in left : Exists(s.id)
  <2> DEFINE Of(i) == CHOOSE s \in left : s.id = i
             Was(i) == \E s \in left : s.id = i
             Now(i) == IF Was(i) THEN Saved(rows[i], Of(i).row, Advanced(Of(i).row, at))
                                 ELSE rows[i]
  <2>1. rows' = [i \in Ids |-> Now(i)] /\ step' = "select" /\ left' = {} /\ cur' = cur
    BY <1>1 DEF Prime
  <2>2. ASSUME NEW i \in Ids, Was(i)
        PROVE  /\ Exists(i) /\ Now(i) \in Row
               /\ \/ Now(i).next \in {None, rows[i].next}
                  \/ Now(i).next \in Nat /\ Now(i).next > at
    <3>1. Of(i) \in left /\ Of(i).id = i
      BY <2>2
    <3>2. Of(i).row \in Row /\ rows[i] \in Row /\ build \in Build /\ at \in 0..MaxTime
      BY <1>1, <3>1, BuildsAssumption DEF TypeOK, Loaded, Exists
    <3> DEFINE changed == Advanced(Of(i).row, at)
    <3>3. changed \in Row /\ (changed.next = None \/ (changed.next \in Nat /\ changed.next > at))
      BY <3>2, AdvancedIsLater DEF Advanced
    <3>4. Now(i) = Saved(rows[i], Of(i).row, changed)
      BY <2>2
    <3>5. Now(i) \in Row
      BY <3>2, <3>3, <3>4, SavedIsRow
    <3>6. Now(i).next \in {rows[i].next, changed.next}
      BY <3>4, SavedNext
    <3> QED
      BY <1>1, <3>1, <3>3, <3>5, <3>6
  <2> HIDE DEF Now, Was
  <2>3. ASSUME NEW i \in Ids, ~Was(i) PROVE Now(i) = rows[i]
    BY <2>3 DEF Now
  <2>4. TypeOK'
    <3>1. rows' \in [Ids -> Row \cup {None}]
      BY <2>1, <2>2, <2>3 DEF TypeOK
    <3> QED
      BY <1>0, <2>1, <3>1 DEF TypeOK
  <2>5. Numbered' /\ OwedOnce' /\ CurFired' /\ LeftFires'
    BY <1>0, <2>1 DEF Numbered, OwedOnce, CurFired, LeftFires
  <2>6. RowsAhead'
    <3> SUFFICES ASSUME NEW i \in Ids, Exists(i)', rows'[i].next # None,
                        NEW j \in jobs, j.schedule = i, j.boot = boot, j.due # None
                 PROVE  rows'[i].next > j.at
      BY <1>0 DEF RowsAhead, Ahead
    <3>1. rows'[i] = Now(i)
      BY <2>1
    <3>2. CASE Exists(i) /\ rows'[i].next = rows[i].next
      BY <1>0, <3>2 DEF RowsAhead, Ahead
    <3>3. CASE rows'[i].next \in Nat /\ rows'[i].next > at
      <4>1. j.at <= at /\ j.at \in Nat /\ at \in Nat
        BY DEF Numbered, TypeOK, JobRow
      <4> QED
        BY <3>3, <4>1
    <3>4. CASE ~Was(i)
      BY <2>3, <3>1, <3>2, <3>4 DEF Exists
    <3> QED
      BY <2>2, <3>1, <3>2, <3>3, <3>4
  <2> QED
    BY <2>4, <2>5, <2>6
<1>2. CASE ~\A s \in left : Exists(s.id)
  BY <1>0, <1>2, AbortInv DEF Prime, table
<1> QED
  BY <1>1, <1>2

\* Selecting: the rows that are due wait for a firing nothing was fired for.
LEMMA SelectInv == IInv /\ Select => IInv'
<1> SUFFICES ASSUME IInv, Select PROVE IInv'
  OBVIOUS
<1> USE DEF IInv, Select, table
<1>1. ASSUME NEW s \in left'
      PROVE  s \in Loaded /\ s.id \in Due /\ s.row = rows[s.id]
  BY DEF Due, Exists, TypeOK, Loaded
<1>2. TypeOK'
  BY <1>1 DEF TypeOK
<1>3. Numbered' /\ OwedOnce' /\ CurFired'
  BY DEF Numbered, OwedOnce, CurFired
<1>4. LeftFires'
  <2>1. \A r, s \in left' : r.id = s.id => r = s
    OBVIOUS
  <2>2. \A s \in left' : s.row.next # None /\ s.row.next <= at /\ Ahead(s.id, s.row.next)
    BY <1>1 DEF Due, RowsAhead
  <2> QED
    BY <2>1, <2>2 DEF LeftFires, Ahead
<1>5. RowsAhead'
  BY DEF RowsAhead, Ahead, Exists
<1> QED
  BY <1>2, <1>3, <1>4, <1>5

\* Skipping, and disabling a row without a handler.
LEMMA SkipInv == IInv /\ (Skip \/ NoHandler) => IInv'
<1> SUFFICES ASSUME IInv, Skip \/ NoHandler PROVE IInv'
  OBVIOUS
<1>1. PICK s \in left :
        /\ Turn(s) /\ (Settle(s, Advanced(s.row, at)) \/ Settle(s, Disabled(s.row)))
        /\ UNCHANGED <<now, build, jobs, serial, boot, at, patches, edits>>
  BY DEF Skip, NoHandler
<1>2. s \in Loaded /\ s.row \in Row /\ step = "fire" /\ s.row.next # None /\ s.row.next <= at
  BY <1>1 DEF IInv, TypeOK, Turn, LeftFires, Loaded
<1>3. build \in Build /\ at \in 0..MaxTime
  BY BuildsAssumption DEF IInv, TypeOK
<1>4. CASE Settle(s, Advanced(s.row, at))
  <2>1. /\ Advanced(s.row, at) \in Row
        /\ \/ Advanced(s.row, at).next = None
           \/ Advanced(s.row, at).next \in Nat /\ Advanced(s.row, at).next > at
    BY <1>2, <1>3, AdvancedIsLater DEF Advanced
  <2> QED
    BY <1>1, <1>2, <1>4, <2>1, SettleInv
<1>5. CASE Settle(s, Disabled(s.row))
  BY <1>1, <1>2, <1>5, DisabledIsRow, SettleInv
<1> QED
  BY <1>1, <1>4, <1>5

\* The advance that follows the enqueue.
LEMMA AdvanceInv == IInv /\ Advance => IInv'
<1> SUFFICES ASSUME IInv, Advance PROVE IInv'
  OBVIOUS
<1>1. cur \in Loaded /\ cur.row \in Row /\ step = "advance"
      /\ cur.row.next # None /\ cur.row.next <= at
  BY DEF IInv, Advance, CurFired, Loaded
<1>2. build \in Build /\ at \in 0..MaxTime
  BY BuildsAssumption DEF IInv, TypeOK
<1>3. /\ Advanced(cur.row, at) \in Row
      /\ \/ Advanced(cur.row, at).next = None
         \/ Advanced(cur.row, at).next \in Nat /\ Advanced(cur.row, at).next > at
  BY <1>1, <1>2, AdvancedIsLater DEF Advanced
<1> QED
  BY <1>1, <1>3, SettleInv DEF Advance

\* Enqueueing: the new job is for a firing later than every earlier tick's.
LEMMA EnqueueInv == IInv /\ Enqueue => IInv'
<1> SUFFICES ASSUME IInv, Enqueue PROVE IInv'
  OBVIOUS
<1> USE DEF IInv
<1>1. PICK s \in left :
        /\ Turn(s)
        /\ IF Exists(s.id)
           THEN /\ Insert(s.id, s.row.next)
                /\ step' = "advance" /\ cur' = s /\ left' = left \ {s}
           ELSE Abort /\ UNCHANGED <<jobs, serial>>
  BY DEF Enqueue
<1>2. UNCHANGED <<now, build, rows, boot, at, patches, edits>>
  BY DEF Enqueue
<1>3. /\ s \in Loaded /\ s.id \in Ids /\ s.row \in Row /\ step = "fire"
      /\ s.row.next \in Nat /\ s.row.next # None /\ s.row.next <= at /\ Ahead(s.id, s.row.next)
  BY <1>1 DEF TypeOK, Turn, LeftFires, Loaded, Row
<1>4. CASE Exists(s.id)
  <2> DEFINE k == [n |-> serial + 1, schedule |-> s.id, due |-> s.row.next, at |-> at, boot |-> boot]
  <2>1. /\ serial' = serial + 1 /\ jobs' = jobs \cup {k}
        /\ step' = "advance" /\ cur' = s /\ left' = left \ {s}
    BY <1>1, <1>3, <1>4 DEF Insert
  <2>2. k \in JobRow /\ k.n = serial + 1 /\ k.schedule = s.id /\ k.due = s.row.next
        /\ k.at = at /\ k.boot = boot
    BY <1>3 DEF TypeOK, JobRow
  <2> HIDE DEF k
  <2>3. TypeOK'
    BY <1>2, <1>3, <2>1, <2>2 DEF TypeOK
  <2>4. Numbered'
    BY <1>2, <2>1, <2>2 DEF Numbered, TypeOK, JobRow
  <2>5. LeftFires'
    <3>1. \A r \in left' : r \in left /\ r.id # s.id
      BY <2>1 DEF LeftFires
    <3> QED
      BY <1>2, <1>3, <2>1, <2>2, <3>1 DEF LeftFires, Ahead
  <2>6. CurFired'
    BY <1>2, <1>3, <2>1 DEF CurFired
  <2>7. RowsAhead'
    BY <1>2, <1>3, <2>1, <2>2 DEF RowsAhead, Ahead, Exists
  <2>8. OwedOnce'
    <3>1. \A j \in jobs : j.schedule = k.schedule /\ j.boot = k.boot /\ j.due # None
                           => k.due > j.at
      BY <1>3, <2>2 DEF Ahead
    <3> QED
      BY <2>1, <3>1 DEF OwedOnce
  <2> QED
    BY <2>3, <2>4, <2>5, <2>6, <2>7, <2>8
<1>5. CASE ~Exists(s.id)
  BY <1>1, <1>2, <1>3, <1>5, AbortInv DEF table
<1> QED
  BY <1>4, <1>5

\* A row whose target is no number, and the end of a tick, change no row.
LEMMA RaiseEndInv == IInv /\ (Raise \/ End) => IInv'
<1> SUFFICES ASSUME IInv, Raise \/ End PROVE IInv'
  OBVIOUS
<1>1. CASE Raise
  BY <1>1, AbortInv DEF Raise, Turn
<1>2. CASE End
  <2> USE <1>2 DEF IInv, End, table
  <2>1. TypeOK' /\ Numbered' /\ OwedOnce' /\ CurFired' /\ LeftFires'
    BY DEF TypeOK, Numbered, OwedOnce, CurFired, LeftFires
  <2>2. RowsAhead'
    BY DEF RowsAhead, Ahead, Exists
  <2> QED
    BY <2>1, <2>2
<1> QED
  BY <1>1, <1>2
-----------------------------------------------------------------------------
(* The routes, the clock and the process. *)

\* A commit of a route that leaves what waits for the past alone.
LEMMA EditInv ==
  ASSUME IInv, NEW i \in Ids, NEW r \in Row,
         \/ r.next = None
         \/ r.next \in Nat /\ r.next > now
         \/ Exists(i) /\ r.next = rows[i].next,
         rows' = [rows EXCEPT ![i] = r],
         UNCHANGED <<now, build, jobs, serial, boot, tick>>,
         patches' \subseteq patches, edits' \in 0..MaxEdits
  PROVE  IInv'
<1> USE DEF IInv, tick
<1>1. TypeOK'
  BY DEF TypeOK
<1>2. Numbered' /\ OwedOnce' /\ CurFired'
  BY DEF Numbered, OwedOnce, CurFired
<1>3. LeftFires'
  BY DEF LeftFires, Ahead
<1>4. RowsAhead'
  <2> SUFFICES ASSUME NEW k \in Ids, Exists(k)', rows'[k].next # None,
                      ~(step = "advance" /\ cur.id = k),
                      NEW j \in jobs, j.schedule = k, j.boot = boot, j.due # None
               PROVE  rows'[k].next > j.at
    BY DEF RowsAhead, Ahead
  <2>1. rows \in [Ids -> Row \cup {None}] /\ j.at \in Nat /\ at \in Nat /\ now \in Nat
        /\ j.at <= at /\ at <= now
    BY DEF TypeOK, Numbered, JobRow
  <2>2. CASE k # i \/ (Exists(i) /\ r.next = rows[i].next)
    <3>1. Exists(k) /\ rows'[k].next = rows[k].next
      BY <2>1, <2>2 DEF Exists
    <3> QED
      BY <3>1 DEF RowsAhead, Ahead
  <2>3. CASE k = i /\ r.next \in Nat /\ r.next > now
    BY <2>1, <2>3
  <2>4. CASE k = i /\ r.next = None
    BY <2>1, <2>4
  <2> QED
    BY <2>2, <2>3, <2>4
<1> QED
  BY <1>1, <1>2, <1>3, <1>4

\* Creating a schedule.
LEMMA CreateInv == IInv /\ Create => IInv'
<1> SUFFICES ASSUME IInv, Create PROVE IInv'
  OBVIOUS
<1>1. PICK i \in Ids, d \in Drafts : rows' = [rows EXCEPT ![i] = Primed(d)]
  BY DEF Create
<1>2. edits' \in 0..MaxEdits
  BY NumbersAssumption DEF Create, Ask, IInv, TypeOK
<1>3. /\ Primed(d) \in Row
      /\ Primed(d).next = None \/ (Primed(d).next \in Nat /\ Primed(d).next > now)
  BY PrimedIsLater DEF IInv
<1> QED
  BY <1>1, <1>2, <1>3, EditInv DEF Create

\* Loading and saving a PATCH.
LEMMA PatchInv == IInv /\ (PatchLoad \/ PatchSave) => IInv'
<1> SUFFICES ASSUME IInv, PatchLoad \/ PatchSave PROVE IInv'
  OBVIOUS
<1>1. CASE PatchLoad
  <2> USE <1>1 DEF IInv, PatchLoad, table, tick
  <2>1. TypeOK'
    <3>1. patches' \subseteq Request
      BY DEF TypeOK, Exists, Request
    <3>2. edits' \in 0..MaxEdits
      BY NumbersAssumption DEF Ask, TypeOK
    <3> QED
      BY <3>1, <3>2 DEF TypeOK
  <2>2. Numbered' /\ OwedOnce' /\ CurFired' /\ LeftFires'
    BY DEF Numbered, OwedOnce, CurFired, LeftFires, Ahead
  <2>3. RowsAhead'
    BY DEF RowsAhead, Ahead, Exists
  <2> QED
    BY <2>1, <2>2, <2>3
<1>2. CASE PatchSave
  <2>1. PICK p \in patches :
          /\ patches' = patches \ {p}
          /\ IF Exists(p.id) /\ Validated(Asked(p)) THEN Save(p, Patched(p)) ELSE UNCHANGED rows
    BY <1>2 DEF PatchSave
  <2>2. UNCHANGED <<now, build, jobs, serial, boot, tick>> /\ edits' \in 0..MaxEdits
    BY <1>2 DEF PatchSave, IInv, TypeOK
  <2>3. CASE Exists(p.id) /\ Validated(Asked(p))
    <3> DEFINE r == Saved(rows[p.id], p.row, Patched(p))
    <3>1. rows' = [rows EXCEPT ![p.id] = r]
      BY <2>1, <2>3 DEF Save
    <3>2. p.id \in Ids /\ p.row \in Row /\ rows[p.id] \in Row
      BY <2>3 DEF IInv, TypeOK, Request, Exists
    <3>3. /\ Patched(p) \in Row
          /\ \/ Patched(p).next \in {None, p.row.next}
             \/ Patched(p).next \in Nat /\ Patched(p).next > now
      BY PatchedIsLater DEF IInv
    <3>4. r \in Row
      BY <3>2, <3>3, SavedIsRow
    <3>5. \/ r.next = None
          \/ r.next \in Nat /\ r.next > now
          \/ r.next = rows[p.id].next
      BY <3>3, SavedNext
    <3> HIDE DEF r
    <3> QED
      BY <2>1, <2>2, <2>3, <3>1, <3>2, <3>4, <3>5, EditInv
  <2>4. CASE ~(Exists(p.id) /\ Validated(Asked(p)))
    <3> USE <2>1, <2>2, <2>4 DEF IInv, tick
    <3>1. TypeOK'
      BY DEF TypeOK
    <3>2. Numbered' /\ OwedOnce' /\ CurFired' /\ LeftFires'
      BY DEF Numbered, OwedOnce, CurFired, LeftFires, Ahead
    <3>3. RowsAhead'
      BY DEF RowsAhead, Ahead, Exists
    <3> QED
      BY <3>1, <3>2, <3>3
  <2> QED
    BY <2>3, <2>4
<1> QED
  BY <1>1, <1>2

\* Deleting a row unlinks its jobs; what is left is no less ahead.
LEMMA DeleteInv == IInv /\ Delete => IInv'
<1> SUFFICES ASSUME IInv, Delete PROVE IInv'
  OBVIOUS
<1> USE DEF IInv, tick
<1>1. PICK i \in Ids :
        /\ rows' = [rows EXCEPT ![i] = None]
        /\ jobs' = {[j EXCEPT !.schedule = IF @ = i THEN None ELSE @] : j \in jobs}
  BY DEF Delete
<1>2. UNCHANGED <<now, build, serial, boot, tick, patches>> /\ edits' \in 0..MaxEdits
  BY NumbersAssumption DEF Delete, Ask, TypeOK
<1> DEFINE From(k, j) == /\ j.n = k.n /\ j.due = k.due /\ j.at = k.at /\ j.boot = k.boot
                         /\ k.schedule # None => j.schedule = k.schedule
<1>3. ASSUME NEW k \in jobs'
      PROVE  k \in JobRow /\ \E j \in jobs : From(k, j)
  <2>1. PICK j \in jobs : k = [j EXCEPT !.schedule = IF @ = i THEN None ELSE @]
    BY <1>1
  <2>2. j \in JobRow
    BY DEF TypeOK
  <2>3. /\ k \in JobRow /\ j.n = k.n /\ j.due = k.due /\ j.at = k.at /\ j.boot = k.boot
        /\ k.schedule # None => j.schedule = k.schedule
    BY <2>1, <2>2 DEF JobRow
  <2> QED
    BY <2>3
<1>4. TypeOK'
  BY <1>1, <1>2, <1>3 DEF TypeOK
<1>5. Numbered'
  <2> SUFFICES ASSUME NEW k \in jobs'
               PROVE  k.n <= serial' /\ k.boot <= boot' /\ (k.due # None => k.at <= at')
    BY <1>2 DEF Numbered
  <2>1. PICK j \in jobs : From(k, j)
    BY <1>3
  <2> QED
    BY <1>2, <2>1 DEF Numbered
<1>6. ASSUME NEW t, NEW m \in Ids, Ahead(m, t) PROVE Ahead(m, t)'
  <2> SUFFICES ASSUME NEW k \in jobs', k.schedule = m, k.boot = boot, k.due # None
               PROVE  t > k.at
    BY <1>2 DEF Ahead
  <2>1. PICK j \in jobs : From(k, j)
    BY <1>3
  <2>2. m # None
    BY NumbersAssumption, IdsAssumption
  <2> QED
    BY <1>6, <2>1, <2>2 DEF Ahead
<1>7. LeftFires'
  <2>1. \A s \in left : s.id \in Ids
    BY DEF TypeOK, Loaded
  <2> QED
    BY <1>2, <1>6, <2>1 DEF LeftFires, Ahead
<1>8. CurFired'
  BY <1>2 DEF CurFired
<1>9. RowsAhead'
  BY <1>1, <1>2, <1>6 DEF RowsAhead, Ahead, Exists, TypeOK
<1>10. OwedOnce'
  <2> SUFFICES ASSUME NEW j \in jobs', NEW k \in jobs', j.n # k.n, j.schedule = k.schedule,
                      j.boot = k.boot, j.schedule # None, j.due # None, k.due # None
               PROVE  j.due > k.at \/ k.due > j.at
    BY DEF OwedOnce
  <2>1. PICK j0 \in jobs : From(j, j0)
    BY <1>3
  <2>2. PICK k0 \in jobs : From(k, k0)
    BY <1>3
  <2> QED
    BY <2>1, <2>2 DEF OwedOnce
<1> QED
  BY <1>4, <1>5, <1>7, <1>8, <1>9, <1>10

\* An extra run is nobody's firing.
LEMMA RunNowInv == IInv /\ RunNow => IInv'
<1> SUFFICES ASSUME IInv, RunNow PROVE IInv'
  OBVIOUS
<1> USE DEF IInv, tick
<1>1. PICK i \in Ids : Insert(i, None)
  BY DEF RunNow
<1>2. UNCHANGED <<now, build, rows, boot, tick, patches>> /\ edits' \in 0..MaxEdits
  BY NumbersAssumption DEF RunNow, Ask, TypeOK
<1> DEFINE k == [n |-> serial + 1, schedule |-> i, due |-> None, at |-> now, boot |-> boot]
<1>3. serial' = serial + 1 /\ jobs' = jobs \cup {k}
  BY <1>1 DEF Insert
<1>4. k \in JobRow /\ k.due = None /\ k.n = serial + 1 /\ k.boot = boot
  BY DEF TypeOK, JobRow
<1> HIDE DEF k
<1>5. TypeOK'
  BY <1>2, <1>3, <1>4 DEF TypeOK
<1>6. Numbered'
  BY <1>2, <1>3, <1>4 DEF Numbered, TypeOK, JobRow
<1>7. LeftFires' /\ CurFired' /\ OwedOnce'
  BY <1>2, <1>3, <1>4 DEF LeftFires, CurFired, OwedOnce, Ahead
<1>8. RowsAhead'
  BY <1>2, <1>3, <1>4 DEF RowsAhead, Ahead, Exists
<1> QED
  BY <1>5, <1>6, <1>7, <1>8

\* Time only moves away from what was fired.
LEMMA PassInv == IInv /\ Pass => IInv'
<1> SUFFICES ASSUME IInv, Pass PROVE IInv'
  OBVIOUS
<1> USE DEF IInv, Pass, table, tick
<1>1. TypeOK'
  BY NumbersAssumption DEF TypeOK
<1>2. Numbered'
  BY DEF Numbered, TypeOK
<1>3. LeftFires' /\ CurFired' /\ OwedOnce'
  BY DEF LeftFires, CurFired, OwedOnce, Ahead
<1>4. RowsAhead'
  BY DEF RowsAhead, Ahead, Exists
<1> QED
  BY <1>1, <1>2, <1>3, <1>4

\* A boot has fired nothing yet.
LEMMA RestartInv == IInv /\ Restart => IInv'
<1> SUFFICES ASSUME IInv, Restart PROVE IInv'
  OBVIOUS
<1> USE DEF IInv, Restart, Abort
<1>1. TypeOK'
  <2>1. rows' \in [Ids -> Row \cup {None}]
    <3>1. \A i \in Unprimed : rows[i] \in Row
      BY DEF Unprimed, Exists, TypeOK
    <3>2. build' \in Build /\ now \in 0..MaxTime
      BY BuildsAssumption DEF TypeOK
    <3>3. \A i \in Unprimed : AdvancedBy(build', rows[i], now) \in Row
      BY <3>1, <3>2, AdvancedIsLater
    <3> QED
      BY <3>3 DEF TypeOK
  <2>2. boot' \in 0..MaxBoots
    BY NumbersAssumption DEF TypeOK
  <2> QED
    BY <2>1, <2>2 DEF TypeOK
<1>2. Numbered' /\ \A j \in jobs : j.boot # boot'
  BY DEF Numbered, TypeOK, JobRow
<1>3. LeftFires' /\ CurFired' /\ OwedOnce'
  BY DEF LeftFires, CurFired, OwedOnce
<1>4. RowsAhead'
  BY <1>2 DEF RowsAhead, Ahead
<1> QED
  BY <1>1, <1>2, <1>3, <1>4

\* Every step preserves the invariant.
LEMMA StepInv == IInv /\ [Next]_vars => IInv'
<1> SUFFICES ASSUME IInv, [Next]_vars PROVE IInv'
  OBVIOUS
<1>1. CASE Tick
  BY <1>1, BeginInv, PrimeInv, SelectInv, SkipInv, RaiseEndInv, EnqueueInv, AdvanceInv DEF Tick
<1>2. CASE Create \/ PatchLoad \/ PatchSave \/ Delete \/ RunNow
  BY <1>2, CreateInv, PatchInv, DeleteInv, RunNowInv
<1>3. CASE Pass \/ Restart
  BY <1>3, PassInv, RestartInv
<1>4. CASE UNCHANGED vars
  <2> USE <1>4 DEF vars, IInv
  <2>1. TypeOK' /\ Numbered' /\ OwedOnce' /\ CurFired'
    BY DEF TypeOK, Numbered, OwedOnce, CurFired
  <2>2. LeftFires' /\ RowsAhead'
    BY DEF LeftFires, RowsAhead, Ahead, Exists
  <2> QED
    BY <2>1, <2>2
<1> QED
  BY <1>1, <1>2, <1>3, <1>4 DEF Next
-----------------------------------------------------------------------------
(* The theorems. *)

\* Every behaviour of the scheduler and its routes satisfies the invariant.
THEOREM Invariant == Spec => []IInv
BY InitInv, StepInv, PTL DEF Spec

\* Types: a merge of two sessions' writes, a tick given up anywhere and a boot
\* of another release leave well-formed rows and jobs.
THEOREM TypeCorrect == Spec => []TypeOK
<1>1. IInv => TypeOK
  BY DEF IInv
<1> QED
  BY <1>1, Invariant, PTL

\* fire_one and next_fire: a schedule owes one run however many firings it
\* missed, and no tick fires again what a tick of the same boot fired,
\* whatever is edited, deleted or created meanwhile.
THEOREM OwedOnceHolds == Spec => []OwedOnce
<1>1. IInv => OwedOnce
  BY DEF IInv
<1> QED
  BY <1>1, Invariant, PTL
-----------------------------------------------------------------------------
(* Who is switched on. *)

\* A merge is on only if the stored row is, or the writer switched it on.
LEMMA SavedEnabled ==
  ASSUME NEW stored \in Row, NEW loaded \in Row, NEW changed \in Row,
         ~stored.enabled, Saved(stored, loaded, changed).enabled
  PROVE  changed.enabled /\ ~loaded.enabled
BY DEF Saved, Newer, Row

\* The scheduler switches nothing on.
LEMMA AdvancedEnabled ==
  ASSUME NEW b \in Build, NEW r \in Row, NEW t \in 0..MaxTime
  PROVE  /\ AdvancedBy(b, r, t).enabled => r.enabled
         /\ ~Disabled(r).enabled
BY DEF AdvancedBy, Disabled, Row

\* A PATCH of a row that was off switches it on only if its body says so.
LEMMA PatchedEnabled ==
  ASSUME TypeOK, NEW p \in patches, ~p.row.enabled, Patched(p).enabled
  PROVE  "enabled" \in DOMAIN p.body /\ p.body.enabled
<1>1. p.row \in Row
  BY DEF TypeOK, Request
<1>2. Asked(p).enabled = IF "enabled" \in DOMAIN p.body THEN p.body.enabled ELSE p.row.enabled
  BY <1>1 DEF Asked, Row
<1>3. Patched(p).enabled = Asked(p).enabled
  BY <1>1 DEF Patched, Asked, Row
<1> QED
  BY <1>2, <1>3

\* Committing a row the tick loaded switches nothing on.
LEMMA SettleOff ==
  ASSUME TypeOK, NEW s \in Loaded, NEW changed \in Row, changed.enabled => s.row.enabled,
         Settle(s, changed)
  PROVE  OnlyAskedOn
<1> SUFFICES ASSUME NEW i \in Ids, Exists(i), ~rows[i].enabled, rows'[i] # None, rows'[i].enabled
             PROVE  FALSE
  BY DEF OnlyAskedOn
<1>1. s.id \in Ids /\ s.row \in Row /\ rows \in [Ids -> Row \cup {None}] /\ rows[i] \in Row
  BY DEF Loaded, TypeOK, Exists
<1>2. Exists(s.id) /\ rows' = [rows EXCEPT ![s.id] = Saved(rows[s.id], s.row, changed)]
  BY DEF Settle, Save
<1>3. i = s.id /\ Saved(rows[i], s.row, changed).enabled
  BY <1>1, <1>2
<1> QED
  BY <1>1, <1>3, SavedEnabled

\* No step switches on a row that nobody asked for.
LEMMA StepOff == IInv /\ [Next]_vars => [OnlyAskedOn]_vars
<1> SUFFICES ASSUME IInv, Next PROVE OnlyAskedOn
  BY DEF vars, OnlyAskedOn
<1>1. TypeOK /\ build \in Build /\ at \in 0..MaxTime
  BY BuildsAssumption DEF IInv, TypeOK
<1>2. CASE rows' = rows
  BY <1>2 DEF OnlyAskedOn
<1>3. CASE Prime
  <2> SUFFICES ASSUME NEW i \in Ids, Exists(i), ~rows[i].enabled, rows'[i] # None, rows'[i].enabled
               PROVE  FALSE
    BY DEF OnlyAskedOn
  <2> DEFINE s == CHOOSE s \in left : s.id = i
  <2>1. /\ \E r \in left : r.id = i
        /\ rows'[i] = Saved(rows[i], s.row, Advanced(s.row, at))
    BY <1>3 DEF Prime
  <2>2. s \in left
    BY <2>1
  <2> HIDE DEF s
  <2>3. s.row \in Row /\ rows[i] \in Row
    BY <1>1, <2>2 DEF TypeOK, Loaded, Exists
  <2>4. Advanced(s.row, at) \in Row /\ (Advanced(s.row, at).enabled => s.row.enabled)
    BY <1>1, <2>3, AdvancedIsLater, AdvancedEnabled DEF Advanced
  <2> QED
    BY <2>1, <2>3, <2>4, SavedEnabled
<1>4. CASE Skip \/ NoHandler \/ Advance
  <2>1. PICK s \in Loaded : Settle(s, Advanced(s.row, at)) \/ Settle(s, Disabled(s.row))
    BY <1>4 DEF Skip, NoHandler, Advance, IInv, TypeOK, CurFired
  <2>2. s.row \in Row
    BY DEF Loaded
  <2>3. /\ Advanced(s.row, at) \in Row /\ (Advanced(s.row, at).enabled => s.row.enabled)
        /\ Disabled(s.row) \in Row /\ ~Disabled(s.row).enabled
    BY <1>1, <2>2, AdvancedIsLater, AdvancedEnabled, DisabledIsRow DEF Advanced
  <2> QED
    BY <1>1, <2>1, <2>3, SettleOff
<1>5. CASE Create \/ Delete
  <2>1. CASE Create
    <3>1. PICK i \in Ids, d \in Drafts : NewId(i) /\ rows' = [rows EXCEPT ![i] = Primed(d)]
      BY <2>1 DEF Create
    <3>2. ~Exists(i)
      BY <3>1, IdsAssumption DEF NewId
    <3> QED
      BY <1>1, <3>1, <3>2 DEF OnlyAskedOn, TypeOK
  <2>2. CASE Delete
    BY <1>1, <2>2 DEF Delete, OnlyAskedOn, TypeOK
  <2> QED
    BY <1>5, <2>1, <2>2
<1>6. CASE PatchSave
  <2> SUFFICES ASSUME NEW i \in Ids, Exists(i), ~rows[i].enabled, rows'[i] # None, rows'[i].enabled
               PROVE  SwitchedOn(i)
    BY DEF OnlyAskedOn
  <2>1. PICK p \in patches : IF Exists(p.id) /\ Validated(Asked(p)) THEN Save(p, Patched(p)) ELSE UNCHANGED rows
    BY <1>6 DEF PatchSave
  <2>2. p.id \in Ids /\ p.row \in Row /\ rows \in [Ids -> Row \cup {None}] /\ rows[i] \in Row
    BY <1>1 DEF TypeOK, Request, Exists
  <2>3. i = p.id /\ Saved(rows[i], p.row, Patched(p)).enabled
    BY <2>1, <2>2 DEF Save
  <2>4. Patched(p) \in Row
    BY <1>1, PatchedIsLater
  <2>5. Patched(p).enabled /\ ~p.row.enabled
    BY <2>2, <2>3, <2>4, SavedEnabled
  <2> QED
    BY <1>1, <2>3, <2>5, PatchedEnabled DEF SwitchedOn
<1>7. CASE Restart
  <2> SUFFICES ASSUME NEW i \in Ids, Exists(i), ~rows[i].enabled PROVE rows'[i] = rows[i]
    BY DEF OnlyAskedOn
  <2> QED
    BY <1>7 DEF Restart, Unprimed
<1> QED
  BY <1>2, <1>3, <1>4, <1>5, <1>6, <1>7
     DEF Next, Tick, Begin, Select, Raise, Enqueue, End, PatchLoad, RunNow, Pass, table

\* api/schedules.py, _disable: a schedule that is off is switched on by a
\* PATCH that asks for it and by nothing else, whatever was under way.
THEOREM OffStaysOffHolds == Spec => OffStaysOff
BY Invariant, StepOff, PTL DEF Spec, OffStaysOff
-----------------------------------------------------------------------------
(* Across crashes: which firing a job doubles, and what is passed over.    *)

\* An instant that is later than every tick that fired schedule i, or the very
\* firing that such a tick was for.
Behind(i, t) ==
  \A j \in jobs : j.schedule = i /\ j.due # None => t > j.at \/ t = j.due

\* A row of the table waits for the firing the tick loaded it with, or for a
\* later one than the tick's.
Still(s) ==
  Exists(s.id) /\ rows[s.id].next # None =>
    rows[s.id].next = s.row.next \/ rows[s.id].next > at

RowsBehind == \A i \in Ids : Exists(i) /\ rows[i].next # None => Behind(i, rows[i].next)

LeftStill ==
  /\ \A s \in left : Still(s)
  /\ step = "prime" => \A s \in left : s.row.next = None
  /\ step \in {"fire", "advance"} =>
       \A s \in left : s.row.enabled /\ Behind(s.id, s.row.next)

\* The row whose advance is to be committed has a job, as long as it waits for
\* a firing that is due.
CurStill ==
  step = "advance" =>
    /\ Still(cur)
    /\ Exists(cur.id) /\ rows[cur.id].next # None /\ rows[cur.id].next <= at
       => \E j \in jobs : j.schedule = cur.id /\ j.due = cur.row.next

CrashInv == RowsBehind /\ LeftStill /\ CurStill /\ DoubledByCrash

\* A step moves a row to a firing later than the tick, or not at all.
Moved(i) ==
  rows'[i] # None /\ rows'[i].next # None =>
    \/ Exists(i) /\ rows'[i].next = rows[i].next
    \/ rows'[i].next > at

\* A step that creates no job and moves rows only past the tick.
LEMMA MovesKeep ==
  ASSUME IInv, IInv', CrashInv, UNCHANGED <<jobs, at>>, \A i \in Ids : Moved(i), left' \subseteq left,
         step' = "advance" => step = "advance" /\ cur' = cur,
         step' = "prime" => step = "prime",
         step' \in {"fire", "advance"} => step \in {"fire", "advance"}
  PROVE  CrashInv'
<1>1. RowsBehind'
  <2> SUFFICES ASSUME NEW i \in Ids, rows'[i] # None, rows'[i].next # None,
                      NEW j \in jobs, j.schedule = i, j.due # None
               PROVE  rows'[i].next > j.at \/ rows'[i].next = j.due
    BY DEF RowsBehind, Behind, Exists
  <2>1. CASE Exists(i) /\ rows'[i].next = rows[i].next
    BY <2>1 DEF CrashInv, RowsBehind, Behind
  <2>2. CASE rows'[i].next > at
    <3>1. j.at <= at /\ j.at \in Nat /\ at \in Nat /\ rows'[i] \in Row
      BY DEF IInv, Numbered, TypeOK, JobRow
    <3> QED
      BY <2>2, <3>1 DEF Row
  <2> QED
    BY <2>1, <2>2 DEF Moved
<1>2. ASSUME NEW s \in Loaded, Still(s) PROVE Still(s)'
  BY <1>2 DEF Still, Moved, Exists, Loaded
<1>3. left \subseteq Loaded
  BY DEF IInv, TypeOK
<1>4. LeftStill'
  BY <1>2, <1>3 DEF CrashInv, LeftStill, Behind
<1>5. CurStill'
  <2> SUFFICES ASSUME step' = "advance" PROVE CurStill'
    BY DEF CurStill
  <2>1. step = "advance" /\ cur' = cur /\ cur \in Loaded /\ Still(cur)
    BY DEF CrashInv, CurStill, IInv, CurFired
  <2>2. (Still(cur))'
    BY <1>2, <2>1 DEF Still, Exists
  <2>3. ASSUME rows'[cur.id] # None, rows'[cur.id].next # None, rows'[cur.id].next <= at
        PROVE  \E j \in jobs : j.schedule = cur.id /\ j.due = cur.row.next
    <3>1. cur.id \in Ids /\ rows'[cur.id].next \in Nat /\ at \in Nat
      BY <2>1, <2>3 DEF IInv, TypeOK, Loaded, Row
    <3>2. Exists(cur.id) /\ rows'[cur.id].next = rows[cur.id].next
      BY <2>3, <3>1 DEF Moved
    <3> QED
      BY <2>1, <2>3, <3>2 DEF CrashInv, CurStill
  <2> QED
    BY <2>1, <2>2, <2>3 DEF CurStill, Exists
<1>6. DoubledByCrash'
  BY DEF CrashInv, DoubledByCrash
<1> QED
  BY <1>1, <1>4, <1>5, <1>6 DEF CrashInv

\* What the tick commits for a row it loaded moves that row alone, to later.
LEMMA SettleMoves ==
  ASSUME IInv, NEW s \in Loaded, NEW changed \in Row,
         changed.next = None \/ (changed.next \in Nat /\ changed.next > at),
         Settle(s, changed)
  PROVE  /\ \A i \in Ids : Moved(i)
         /\ left' \subseteq left /\ step' \in {"fire", "sleep"}
<1>1. CASE Exists(s.id)
  <2>1. /\ rows' = [rows EXCEPT ![s.id] = Saved(rows[s.id], s.row, changed)]
        /\ step' = "fire" /\ left' = left \ {s}
    BY <1>1 DEF Settle, Save
  <2>2. rows \in [Ids -> Row \cup {None}] /\ s.id \in Ids
    BY DEF IInv, TypeOK, Loaded
  <2>3. Saved(rows[s.id], s.row, changed).next \in {rows[s.id].next, changed.next}
    BY SavedNext
  <2>4. ASSUME NEW i \in Ids PROVE Moved(i)
    <3>1. CASE i = s.id
      BY <1>1, <2>1, <2>2, <2>3, <3>1 DEF Moved, Exists
    <3>2. CASE i # s.id
      BY <2>1, <2>2, <3>2 DEF Moved, Exists
    <3> QED
      BY <3>1, <3>2
  <2> QED
    BY <2>1, <2>4
<1>2. CASE ~Exists(s.id)
  BY <1>2 DEF Settle, Abort, Moved, Exists
<1> QED
  BY <1>1, <1>2

\* Priming moves the rows it loaded without a firing.
LEMMA PrimeMoves ==
  ASSUME IInv, Prime
  PROVE  /\ \A i \in Ids : Moved(i)
         /\ left' = {} /\ step' \in {"select", "sleep"} /\ UNCHANGED <<jobs, at>>
<1>1. left' = {} /\ step' \in {"select", "sleep"} /\ UNCHANGED <<jobs, at>>
  BY DEF Prime, Abort
<1>2. ASSUME NEW i \in Ids PROVE Moved(i)
  <2> DEFINE s == CHOOSE s \in left : s.id = i
  <2>1. CASE rows'[i] = rows[i]
    BY <2>1 DEF Moved, Exists
  <2>2. CASE rows'[i] # rows[i]
    <3>1. /\ \E r \in left : r.id = i
          /\ \A r \in left : Exists(r.id)
          /\ rows'[i] = Saved(rows[i], s.row, Advanced(s.row, at))
      BY <2>2 DEF Prime
    <3>2. s \in left /\ s.id = i
      BY <3>1
    <3> HIDE DEF s
    <3>3. s.row \in Row /\ build \in Build /\ at \in 0..MaxTime
      BY <3>2, BuildsAssumption DEF IInv, TypeOK, Loaded
    <3>4. \/ Advanced(s.row, at).next = None
          \/ Advanced(s.row, at).next \in Nat /\ Advanced(s.row, at).next > at
      BY <3>3, AdvancedIsLater DEF Advanced
    <3>5. rows'[i].next \in {rows[i].next, Advanced(s.row, at).next}
      BY <3>1, SavedNext
    <3> QED
      BY <3>1, <3>2, <3>4, <3>5 DEF Moved
  <2> QED
    BY <2>1, <2>2
<1> QED
  BY <1>1, <1>2

\* A route's commit moves one row, past now if at all.
LEMMA EditMoves ==
  ASSUME IInv, NEW i \in Ids, NEW r \in Row,
         \/ r.next = None
         \/ r.next \in Nat /\ r.next > now
         \/ Exists(i) /\ r.next = rows[i].next,
         rows' = [rows EXCEPT ![i] = r]
  PROVE  \A k \in Ids : Moved(k)
<1>1. rows \in [Ids -> Row \cup {None}] /\ at \in Nat /\ now \in Nat /\ at <= now
  BY DEF IInv, TypeOK, Numbered
<1> SUFFICES ASSUME NEW k \in Ids PROVE Moved(k)
  OBVIOUS
<1>2. CASE k = i
  BY <1>1, <1>2 DEF Moved
<1>3. CASE k # i
  BY <1>1, <1>3 DEF Moved, Exists
<1> QED
  BY <1>2, <1>3

\* Both write the row of a PATCH: where it moves.
LEMMA PatchMoves ==
  ASSUME IInv, PatchSave
  PROVE  \A i \in Ids : Moved(i)
<1>1. PICK p \in patches :
        /\ patches' = patches \ {p}
        /\ IF Exists(p.id) /\ Validated(Asked(p)) THEN Save(p, Patched(p)) ELSE UNCHANGED rows
  BY DEF PatchSave
<1>2. CASE rows' = rows
  BY <1>2 DEF Moved, Exists
<1>3. CASE Exists(p.id) /\ rows' = [rows EXCEPT ![p.id] = Saved(rows[p.id], p.row, Patched(p))]
  <2>1. p.id \in Ids /\ p.row \in Row /\ rows[p.id] \in Row
    BY <1>3 DEF IInv, TypeOK, Request, Exists
  <2>2. /\ Patched(p) \in Row
        /\ \/ Patched(p).next \in {None, p.row.next}
           \/ Patched(p).next \in Nat /\ Patched(p).next > now
    BY PatchedIsLater DEF IInv
  <2> DEFINE r == Saved(rows[p.id], p.row, Patched(p))
  <2>3. r \in Row
    BY <2>1, <2>2, SavedIsRow
  <2>4. \/ r.next = None
        \/ r.next \in Nat /\ r.next > now
        \/ r.next = rows[p.id].next
    BY <2>2, SavedNext
  <2> HIDE DEF r
  <2> QED
    BY <1>3, <2>1, <2>3, <2>4, EditMoves DEF r
<1> QED
  BY <1>1, <1>2, <1>3 DEF Save

\* A boot primes the rows without a firing, past now.
LEMMA RestartMoves ==
  ASSUME IInv, Restart
  PROVE  \A i \in Ids : Moved(i)
<1> SUFFICES ASSUME NEW i \in Ids PROVE Moved(i)
  OBVIOUS
<1>1. CASE i \notin Unprimed
  BY <1>1 DEF Restart, Moved, Exists
<1>2. CASE i \in Unprimed
  <2>1. rows[i] \in Row /\ build' \in Build /\ now \in 0..MaxTime /\ at \in 0..MaxTime /\ at <= now
    BY <1>2, BuildsAssumption DEF Restart, Unprimed, Exists, IInv, TypeOK, Numbered
  <2>2. rows'[i] = AdvancedBy(build', rows[i], now)
    BY <1>2 DEF Restart
  <2>3. \/ rows'[i].next = None
        \/ rows'[i].next \in Nat /\ rows'[i].next > now
    BY <2>1, <2>2, AdvancedIsLater
  <2> QED
    BY <2>1, <2>3 DEF Moved
<1> QED
  BY <1>1, <1>2

\* The firing a new job is for was not fired by a tick before it, or is the one
\* that a crash left to be fired again.
LEMMA EnqueueCrash == IInv /\ IInv' /\ CrashInv /\ Enqueue => CrashInv'
<1> SUFFICES ASSUME IInv, IInv', CrashInv, Enqueue PROVE CrashInv'
  OBVIOUS
<1>1. PICK s \in left :
        /\ Turn(s)
        /\ IF Exists(s.id)
           THEN /\ Insert(s.id, s.row.next)
                /\ step' = "advance" /\ cur' = s /\ left' = left \ {s}
           ELSE Abort /\ UNCHANGED <<jobs, serial>>
  BY DEF Enqueue
<1>2. UNCHANGED <<now, rows, boot, at>>
  BY DEF Enqueue
<1>3. /\ s \in Loaded /\ s.id \in Ids /\ step = "fire" /\ s.row.next # None
      /\ \A r \in left : r.id = s.id => r = s
      /\ \A r \in left : Still(r) /\ r.row.enabled /\ Behind(r.id, r.row.next)
  BY <1>1 DEF IInv, TypeOK, Turn, LeftFires, Loaded, CrashInv, LeftStill
<1>4. CASE ~Exists(s.id)
  <2>1. \A i \in Ids : Moved(i)
    BY <1>2 DEF Moved, Exists
  <2> QED
    BY <1>1, <1>2, <1>4, <2>1, MovesKeep DEF Abort
<1>5. CASE Exists(s.id)
  <2> DEFINE k == [n |-> serial + 1, schedule |-> s.id, due |-> s.row.next, at |-> at, boot |-> boot]
  <2>1. jobs' = jobs \cup {k} /\ step' = "advance" /\ cur' = s /\ left' = left \ {s}
    BY <1>1, <1>3, <1>5 DEF Insert
  <2>2. k.schedule = s.id /\ k.due = s.row.next /\ k.at = at /\ k.boot = boot
    OBVIOUS
  <2> HIDE DEF k
  <2>3. RowsBehind'
    <3> SUFFICES ASSUME NEW i \in Ids, Exists(i), rows[i].next # None,
                        NEW j \in jobs', j.schedule = i, j.due # None
                 PROVE  rows[i].next > j.at \/ rows[i].next = j.due
      BY <1>2 DEF RowsBehind, Behind, Exists
    <3>1. CASE j \in jobs
      BY <3>1 DEF CrashInv, RowsBehind, Behind
    <3>2. CASE j = k
      BY <1>3, <2>2, <3>2 DEF Still
    <3> QED
      BY <2>1, <3>1, <3>2
  <2>4. \A r \in left' : r \in left /\ r.id # s.id /\ Behind(r.id, r.row.next) /\ r.row.enabled
    BY <1>3, <2>1
  <2>5. \A r \in Loaded : Still(r) => Still(r)'
    BY <1>2 DEF Still, Exists
  <2>6. LeftStill'
    <3>1. \A r \in left' : Still(r)'
      BY <1>3, <2>4, <2>5 DEF IInv, TypeOK
    <3>2. \A r \in left' : Behind(r.id, r.row.next)'
      BY <2>1, <2>2, <2>4 DEF Behind
    <3> QED
      BY <2>1, <2>4, <3>1, <3>2 DEF LeftStill
  <2>7. CurStill'
    <3>1. Still(s)'
      BY <1>3, <2>5
    <3>2. k \in jobs' /\ k.schedule = s.id /\ k.due = s.row.next
      BY <2>1, <2>2
    <3> QED
      BY <2>1, <3>1, <3>2 DEF CurStill, Still, Exists
  <2>8. DoubledByCrash'
    <3> SUFFICES ASSUME NEW i \in jobs', NEW j \in jobs', i.boot < j.boot,
                        i.schedule = j.schedule, i.schedule # None,
                        i.due # None, j.due # None, j.due <= i.at
                 PROVE  j.due = i.due
      BY DEF DoubledByCrash
    <3>1. CASE i \in jobs /\ j \in jobs
      BY <3>1 DEF CrashInv, DoubledByCrash
    <3>2. CASE i = k
      BY <1>2, <2>2, <3>2 DEF IInv, Numbered, TypeOK, JobRow
    <3>3. CASE i \in jobs /\ j = k
      <4>1. j.due > i.at \/ j.due = i.due
        BY <1>3, <2>2, <3>3 DEF Behind
      <4>2. j.due \in Nat /\ i.at \in Nat
        BY <3>3 DEF IInv, TypeOK, JobRow
      <4> QED
        BY <4>1, <4>2
    <3> QED
      BY <2>1, <3>1, <3>2, <3>3
  <2> QED
    BY <2>3, <2>6, <2>7, <2>8 DEF CrashInv
<1> QED
  BY <1>4, <1>5

\* Loading rows: they wait for what they were loaded with.
LEMMA LoadCrash == IInv /\ IInv' /\ CrashInv /\ (Begin \/ Select) => CrashInv'
<1> SUFFICES ASSUME IInv, IInv', CrashInv, Begin \/ Select PROVE CrashInv'
  OBVIOUS
<1>1. UNCHANGED <<rows, jobs>> /\ step' \in {"prime", "fire"}
  BY DEF Begin, Select, table
<1>2. RowsBehind' /\ DoubledByCrash'
  BY <1>1 DEF CrashInv, RowsBehind, Behind, Exists, DoubledByCrash
<1>3. CurStill'
  BY <1>1 DEF CurStill
<1>4. ASSUME NEW s \in left'
      PROVE  /\ Exists(s.id) /\ s.row = rows[s.id] /\ s.id \in Ids /\ s.row.enabled
             /\ step' = "prime" => s.row.next = None
             /\ step' = "fire" => s.row.next # None
  BY DEF Begin, Select, Unprimed, Due
<1>5. LeftStill'
  BY <1>1, <1>4 DEF LeftStill, Still, Exists, Behind, CrashInv, RowsBehind
<1> QED
  BY <1>2, <1>3, <1>5 DEF CrashInv

\* Deleting a row unlinks its jobs, and those of no other.
LEMMA DeleteCrash == IInv /\ CrashInv /\ Delete => CrashInv'
<1> SUFFICES ASSUME IInv, CrashInv, Delete PROVE CrashInv'
  OBVIOUS
<1>1. PICK i \in Ids :
        /\ rows' = [rows EXCEPT ![i] = None]
        /\ jobs' = {[j EXCEPT !.schedule = IF @ = i THEN None ELSE @] : j \in jobs}
  BY DEF Delete
<1>2. UNCHANGED <<step, at, left, cur>> /\ rows \in [Ids -> Row \cup {None}] /\ None \notin Ids
  BY NumbersAssumption, IdsAssumption DEF Delete, tick, IInv, TypeOK
<1> DEFINE From(k, j) == /\ j.n = k.n /\ j.due = k.due /\ j.at = k.at /\ j.boot = k.boot
                         /\ k.schedule # None => j.schedule = k.schedule
<1>3. ASSUME NEW k \in jobs'
      PROVE  \E j \in jobs : From(k, j)
  <2>1. PICK j \in jobs : k = [j EXCEPT !.schedule = IF @ = i THEN None ELSE @]
    BY <1>1
  <2>2. j \in JobRow
    BY DEF IInv, TypeOK
  <2>3. From(k, j)
    BY <2>1, <2>2 DEF JobRow
  <2> QED
    BY <2>3
<1>4. ASSUME NEW m \in Ids, NEW t, Behind(m, t) PROVE Behind(m, t)'
  <2> SUFFICES ASSUME NEW k \in jobs', k.schedule = m, k.due # None
               PROVE  t > k.at \/ t = k.due
    BY DEF Behind
  <2>1. PICK j \in jobs : From(k, j)
    BY <1>3
  <2> QED
    BY <1>2, <1>4, <2>1 DEF Behind
<1>5. ASSUME NEW m \in Ids, m # i, NEW j \in jobs, j.schedule = m PROVE j \in jobs'
  <2>1. j \in JobRow
    BY DEF IInv, TypeOK
  <2>2. [j EXCEPT !.schedule = IF @ = i THEN None ELSE @] = j
    BY <1>5, <2>1 DEF JobRow
  <2> QED
    BY <1>1, <2>2
<1>6. RowsBehind'
  BY <1>1, <1>2, <1>4 DEF RowsBehind, Exists, CrashInv, Behind
<1>7. \A s \in Loaded : Still(s) => Still(s)'
  BY <1>1, <1>2 DEF Still, Exists, Loaded
<1>8. LeftStill'
  <2>1. \A s \in left : s \in Loaded /\ s.id \in Ids
    BY DEF IInv, TypeOK, Loaded
  <2>2. \A s \in left : Still(s)'
    BY <1>7, <2>1 DEF CrashInv, LeftStill
  <2>3. step \in {"fire", "advance"} => \A s \in left : Behind(s.id, s.row.next)'
    BY <1>4, <2>1 DEF CrashInv, LeftStill
  <2> QED
    BY <1>2, <2>2, <2>3 DEF CrashInv, LeftStill
<1>9. CurStill'
  <2> SUFFICES ASSUME step = "advance" PROVE CurStill'
    BY <1>2 DEF CurStill
  <2>1. cur \in Loaded /\ cur.id \in Ids /\ Still(cur)
    BY DEF IInv, CurFired, CrashInv, CurStill, Loaded
  <2>2. (Still(cur))'
    BY <1>2, <1>7, <2>1 DEF Still, Exists
  <2>3. ASSUME Exists(cur.id)', rows'[cur.id].next # None, rows'[cur.id].next <= at
        PROVE  \E j \in jobs' : j.schedule = cur.id /\ j.due = cur.row.next
    <3>1. cur.id # i /\ rows'[cur.id] = rows[cur.id]
      BY <1>1, <1>2, <2>1, <2>3 DEF Exists
    <3>2. PICK j \in jobs : j.schedule = cur.id /\ j.due = cur.row.next
      BY <1>2, <2>3, <3>1 DEF CrashInv, CurStill, Exists
    <3> QED
      BY <1>5, <2>1, <3>1, <3>2
  <2> QED
    BY <1>2, <2>2, <2>3 DEF CurStill, Exists
<1>10. DoubledByCrash'
  <2> SUFFICES ASSUME NEW j \in jobs', NEW k \in jobs', j.boot < k.boot,
                      j.schedule = k.schedule, j.schedule # None,
                      j.due # None, k.due # None, k.due <= j.at
               PROVE  k.due = j.due
    BY DEF DoubledByCrash
  <2>1. PICK j0 \in jobs : From(j, j0)
    BY <1>3
  <2>2. PICK k0 \in jobs : From(k, k0)
    BY <1>3
  <2> QED
    BY <2>1, <2>2 DEF CrashInv, DoubledByCrash
<1> QED
  BY <1>6, <1>8, <1>9, <1>10 DEF CrashInv

\* An extra run is nobody's firing.
LEMMA RunNowCrash == IInv /\ CrashInv /\ RunNow => CrashInv'
<1> SUFFICES ASSUME IInv, CrashInv, RunNow PROVE CrashInv'
  OBVIOUS
<1>1. PICK k : jobs' = jobs \cup {k} /\ k.due = None
  <2>1. PICK i \in Ids : Insert(i, None)
    BY DEF RunNow
  <2>2. [n |-> serial + 1, schedule |-> i, due |-> None, at |-> now, boot |-> boot].due = None
    OBVIOUS
  <2> QED
    BY <2>1, <2>2 DEF Insert
<1>2. UNCHANGED <<rows, step, at, left, cur>>
  BY DEF RunNow, tick
<1>3. \A m, t : Behind(m, t) => Behind(m, t)'
  BY <1>1 DEF Behind
<1>4. \A s : Still(s) => Still(s)'
  BY <1>2 DEF Still, Exists
<1>5. RowsBehind'
  BY <1>2, <1>3 DEF RowsBehind, Exists, CrashInv
<1>6. LeftStill'
  BY <1>2, <1>3, <1>4 DEF LeftStill, CrashInv
<1>7. CurStill'
  BY <1>1, <1>2 DEF CurStill, CrashInv, Still, Exists
<1>8. DoubledByCrash'
  BY <1>1 DEF DoubledByCrash, CrashInv
<1> QED
  BY <1>5, <1>6, <1>7, <1>8 DEF CrashInv

\* Every step keeps it.
LEMMA StepCrash == IInv /\ CrashInv /\ [Next]_vars => CrashInv'
<1> SUFFICES ASSUME IInv, CrashInv, [Next]_vars PROVE CrashInv'
  OBVIOUS
<1>0. IInv'
  BY StepInv
<1> DEFINE Quiet == UNCHANGED <<rows, jobs, at>>
<1>1. Quiet => \A i \in Ids : Moved(i)
  BY DEF Moved, Exists
<1>2. CASE Begin \/ Select
  BY <1>0, <1>2, LoadCrash
<1>3. CASE Prime
  BY <1>0, <1>3, PrimeMoves, MovesKeep
<1>4. CASE Skip \/ NoHandler \/ Advance
  <2>1. /\ step \in {"fire", "advance"} /\ UNCHANGED <<jobs, at>>
        /\ build \in Build /\ at \in 0..MaxTime
    BY <1>4, BuildsAssumption DEF Skip, NoHandler, Advance, Turn, IInv, TypeOK
  <2>2. PICK s \in Loaded : Settle(s, Advanced(s.row, at)) \/ Settle(s, Disabled(s.row))
    BY <1>4 DEF Skip, NoHandler, Advance, IInv, TypeOK, CurFired
  <2>3. /\ s.row \in Row
        /\ Advanced(s.row, at) \in Row
        /\ \/ Advanced(s.row, at).next = None
           \/ Advanced(s.row, at).next \in Nat /\ Advanced(s.row, at).next > at
    BY <2>1, AdvancedIsLater DEF Advanced, Loaded
  <2>4. Disabled(s.row) \in Row /\ Disabled(s.row).next = None
    BY <2>3, DisabledIsRow
  <2>5. (\A i \in Ids : Moved(i)) /\ left' \subseteq left /\ step' \in {"fire", "sleep"}
    <3>1. CASE Settle(s, Advanced(s.row, at))
      BY <2>3, <3>1, SettleMoves
    <3>2. CASE Settle(s, Disabled(s.row))
      BY <2>4, <3>2, SettleMoves
    <3> QED
      BY <2>2, <3>1, <3>2
  <2> QED
    BY <1>0, <2>1, <2>5, MovesKeep
<1>5. CASE Raise \/ End
  <2>1. Quiet /\ left' \subseteq left /\ step' = "sleep"
    BY <1>5 DEF Raise, End, Abort, table
  <2> QED
    BY <1>0, <1>1, <2>1, MovesKeep
<1>6. CASE Enqueue
  BY <1>0, <1>6, EnqueueCrash
<1>7. CASE Create
  <2>1. PICK i \in Ids, d \in Drafts : rows' = [rows EXCEPT ![i] = Primed(d)]
    BY <1>7 DEF Create
  <2>2. /\ Primed(d) \in Row
        /\ Primed(d).next = None \/ (Primed(d).next \in Nat /\ Primed(d).next > now)
    BY PrimedIsLater DEF IInv
  <2>3. \A k \in Ids : Moved(k)
    BY <2>1, <2>2, EditMoves
  <2>4. UNCHANGED <<jobs, at, left, step, cur>>
    BY <1>7 DEF Create, tick
  <2> QED
    BY <1>0, <2>3, <2>4, MovesKeep
<1>8. CASE PatchSave
  <2>1. UNCHANGED <<jobs, at, left, step, cur>>
    BY <1>8 DEF PatchSave, tick
  <2> QED
    BY <1>0, <1>8, <2>1, PatchMoves, MovesKeep
<1>9. CASE Restart
  <2>1. UNCHANGED <<jobs, at>> /\ left' = {} /\ step' = "sleep"
    BY <1>9 DEF Restart, Abort
  <2> QED
    BY <1>0, <1>9, <2>1, RestartMoves, MovesKeep
<1>10. CASE PatchLoad \/ Pass \/ UNCHANGED vars
  <2>1. Quiet /\ UNCHANGED <<left, step, cur>>
    BY <1>10 DEF PatchLoad, Pass, vars, table, tick
  <2> QED
    BY <1>0, <1>1, <2>1, MovesKeep
<1>11. CASE Delete
  BY <1>11, DeleteCrash
<1>12. CASE RunNow
  BY <1>12, RunNowCrash
<1> QED
  BY <1>2, <1>3, <1>4, <1>5, <1>6, <1>7, <1>8, <1>9, <1>10, <1>11, <1>12 DEF Next, Tick

\* The invariant of every behaviour, crashes included.
LEMMA CrashAlways == Spec => [](IInv /\ CrashInv)
<1>1. Init => CrashInv
  BY DEF Init, CrashInv, RowsBehind, LeftStill, CurStill, DoubledByCrash, Exists
<1> QED
  BY <1>1, InitInv, StepInv, StepCrash, PTL DEF Spec

\* scheduler.py's two commits: whatever the process died in the middle of, and
\* however often, a firing has two jobs only where a crash came between its
\* enqueue and its advance.
THEOREM CrashesBoundedHolds == Spec => []CrashesBounded
<1>1. IInv /\ CrashInv => CrashesBounded
  BY DEF IInv, CrashInv, CrashesBounded
<1> QED
  BY <1>1, CrashAlways, PTL

\* What PassedMeansFired says of one step.
PassedOver(i) ==
  /\ Exists(i) /\ rows[i].enabled /\ rows[i].next # None /\ rows[i].next <= at
  /\ rows'[i] # None /\ rows'[i].enabled /\ rows'[i].next # rows[i].next
  /\ patches' = patches

Accounted(i) ==
  \/ \E j \in jobs : j.schedule = i /\ j.due = rows[i].next
  \/ /\ at - rows[i].next > Grace
     /\ \E s \in left : s.id = i /\ ~s.row.params.catchUp

\* A row that is moved past a firing that is due was fired, or had opted out.
LEMMA StepPassed ==
  ASSUME IInv, CrashInv, Next, NEW i \in Ids, PassedOver(i)
  PROVE  Accounted(i)
<1>1. /\ rows \in [Ids -> Row \cup {None}] /\ rows[i] \in Row /\ at \in 0..MaxTime
      /\ rows[i].next \in Nat /\ rows[i].next <= at /\ ~(rows[i].next > at)
      /\ build \in Build
  BY BuildsAssumption, NumbersAssumption DEF IInv, TypeOK, PassedOver, Exists, Row
<1>2. rows'[i] # rows[i]
  BY DEF PassedOver
<1>3. ASSUME NEW s \in Loaded, s.id = i, Still(s) PROVE rows[i].next = s.row.next
  BY <1>1, <1>3 DEF Still, PassedOver
<1>4. CASE Prime
  <2>1. step = "prime" /\ \E s \in left : s.id = i
    BY <1>2, <1>4 DEF Prime
  <2>2. PICK s \in left : s.id = i
    BY <2>1
  <2>3. Still(s) /\ s.row.next = None /\ s \in Loaded
    BY <2>1 DEF CrashInv, LeftStill, IInv, TypeOK
  <2> QED
    BY <1>3, <2>2, <2>3 DEF PassedOver
<1>5. CASE Skip
  <2>1. PICK s \in left : Turn(s) /\ Missed(s) /\ Settle(s, Advanced(s.row, at))
    BY <1>5 DEF Skip
  <2>2. s \in Loaded /\ s.id = i
    BY <1>1, <1>2, <2>1 DEF IInv, TypeOK, Loaded, Settle, Save
  <2>3. rows[i].next = s.row.next
    BY <1>3, <2>2 DEF CrashInv, LeftStill
  <2> QED
    BY <2>1, <2>2, <2>3 DEF Missed, Accounted
<1>6. CASE NoHandler
  <2>1. PICK s \in left : Turn(s) /\ Settle(s, Disabled(s.row))
    BY <1>6 DEF NoHandler
  <2>2. s \in Loaded /\ s.id = i /\ rows'[i] = Saved(rows[i], s.row, Disabled(s.row))
    BY <1>1, <1>2, <2>1 DEF IInv, TypeOK, Loaded, Settle, Save
  <2>3. s.row \in Row /\ s.row.enabled = TRUE
    BY <2>1, <2>2 DEF CrashInv, LeftStill, Turn, Loaded, Row
  <2>4. Disabled(s.row).enabled = FALSE
    BY <2>3 DEF Disabled, Row
  <2>5. rows'[i].enabled = FALSE
    BY <2>2, <2>3, <2>4 DEF Saved, Newer
  <2> QED
    BY <2>5 DEF PassedOver
<1>7. CASE Advance
  <2>1. step = "advance" /\ Settle(cur, Advanced(cur.row, at)) /\ cur \in Loaded
    BY <1>7 DEF Advance, IInv, CurFired
  <2>2. cur.id = i
    BY <1>1, <1>2, <2>1 DEF Settle, Save, Loaded
  <2>3. rows[i].next = cur.row.next
    BY <1>1, <2>1, <2>2 DEF CrashInv, CurStill, Still, PassedOver
  <2> QED
    BY <1>1, <2>1, <2>2, <2>3 DEF CrashInv, CurStill, PassedOver, Accounted
<1>8. CASE Create
  <2>1. PICK k \in Ids, d \in Drafts : NewId(k) /\ rows' = [rows EXCEPT ![k] = Primed(d)]
    BY <1>8 DEF Create
  <2>2. ~Exists(k)
    BY <2>1, IdsAssumption DEF NewId
  <2> QED
    BY <1>1, <1>2, <2>1, <2>2 DEF PassedOver
<1>9. CASE PatchSave
  <2>1. \E p \in patches : patches' = patches \ {p}
    BY <1>9 DEF PatchSave
  <2> QED
    BY <2>1 DEF PassedOver
<1>10. CASE Delete
  BY <1>1, <1>2, <1>10 DEF Delete, PassedOver
<1>11. CASE Restart
  BY <1>2, <1>11 DEF Restart, Unprimed, PassedOver
<1> QED
  BY <1>2, <1>4, <1>5, <1>6, <1>7, <1>8, <1>9, <1>10, <1>11
     DEF Next, Tick, Begin, Select, Raise, Enqueue, End, PatchLoad, RunNow, Pass, table

\* "Never passed over in silence": across merged writes, edits and crashes, an
\* enabled row leaves a firing that is due behind only where there is a job for
\* it or where it had opted out of catching up and is late by more than the
\* grace.
THEOREM PassedMeansFiredHolds == Spec => PassedMeansFired
<1>1. IInv /\ CrashInv /\ [Next]_vars
      => [\A i \in Ids : PassedOver(i) => Accounted(i)]_vars
  BY StepPassed
<1>2. PassedMeansFired <=> [][\A i \in Ids : PassedOver(i) => Accounted(i)]_vars
  BY DEF PassedMeansFired, PassedOver, Accounted
<1> QED
  BY <1>1, <1>2, CrashAlways, PTL DEF Spec
=============================================================================
