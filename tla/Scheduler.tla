------------------------------- MODULE Scheduler -------------------------------
(***************************************************************************)
(* The cron scheduler (jobs/scheduler.py) and the routes that edit its     *)
(* table while it ticks (api/schedules.py), with crashes, upgrades and     *)
(* downtime.                                                               *)
(*                                                                         *)
(* A tick runs in a worker thread beside the routes' threads.  Each keeps  *)
(* the rows it loaded in its own session, never refreshed by a commit      *)
(* (db.py: expire_on_commit=False), and a commit writes only the columns   *)
(* that differ from what was loaded.  An action is one transaction: what   *)
(* happens between two of them is what this module is about.               *)
(***************************************************************************)
EXTENDS Naturals

CONSTANTS
  Ids,             \* ids a schedule row may get
  Crons,           \* cron expressions, each with its timezone
  Kinds,           \* job kinds
  TargetedKinds,   \* kinds whose prefix _target gives an app, vm or host
  Builds,          \* releases: the kinds with a handler, the crons that parse
  Drafts,          \* bodies of POST /schedules
  Bodies,          \* bodies of PATCH /schedules/{id}: the columns they name
  NextFire(_, _),  \* CronTrigger: the first firing of a cron after an instant
  Grace,           \* MISFIRE_GRACE_S
  None,            \* NULL
  MaxTime,         \* bound: the last instant
  MaxEdits,        \* bound: requests the operators make
  MaxBoots         \* bound: boots

Params == [catchUp : BOOLEAN, badTarget : BOOLEAN]
Row == [cron : Crons, kind : Kinds, params : Params, enabled : BOOLEAN,
        next : Nat \cup {None}]
Build == [kinds : SUBSET Kinds, crons : SUBSET Crons]

ASSUME NumbersAssumption ==
  Grace \in Nat /\ MaxTime \in Nat /\ MaxEdits \in Nat /\ MaxBoots \in Nat /\ None \notin Nat
ASSUME IdsAssumption == Ids \subseteq Nat /\ \A i \in Ids : i = 1 \/ i - 1 \in Ids
ASSUME BuildsAssumption == Builds \subseteq Build /\ Builds # {}
ASSUME DraftsAssumption == \A d \in Drafts : d \in Row /\ d.next = None
ASSUME BodiesAssumption ==
  \A b \in Bodies :
    /\ DOMAIN b \subseteq {"cron", "kind", "params", "enabled"}
    /\ "cron" \in DOMAIN b => b.cron \in Crons
    /\ "kind" \in DOMAIN b => b.kind \in Kinds
    /\ "params" \in DOMAIN b => b.params \in Params
    /\ "enabled" \in DOMAIN b => b.enabled \in BOOLEAN
\* CronTrigger's promise: strictly after, within any horizon TLC looks at.
ASSUME NextFireAssumption ==
  \A c \in Crons, t \in 0..MaxTime : NextFire(c, t) \in Nat /\ NextFire(c, t) > t

VARIABLES
  now,       \* the clock
  build,     \* the release that runs
  rows,      \* the schedules table: a row, or None
  jobs,      \* the jobs rows with a schedule_id, or one that was unlinked
  serial,    \* the last job id
  boot,      \* boots so far
  step,      \* where the tick is, "sleep" between two of them
  at,        \* its `now`
  left,      \* the rows it loaded and has yet to deal with
  cur,       \* the row whose job is enqueued and whose next_run_at is not moved
  patches,   \* PATCH requests that have loaded their row
  edits      \* requests made

vars == <<now, build, rows, jobs, serial, boot, step, at, left, cur, patches, edits>>
tick == <<step, at, left, cur>>
table == <<rows, jobs, serial>>

Loaded == [id : Ids, row : Row]
\* A job; `due` is the occurrence it was fired for, None for an extra run.
JobRow == [n : Nat, schedule : Ids \cup {None}, due : Nat \cup {None}, at : Nat, boot : Nat]
Request == [id : Ids, row : Row, body : Bodies]

TypeOK ==
  /\ now \in 0..MaxTime /\ build \in Builds /\ boot \in 0..MaxBoots /\ edits \in 0..MaxEdits
  /\ rows \in [Ids -> Row \cup {None}]
  /\ serial \in Nat /\ jobs \subseteq JobRow
  /\ step \in {"sleep", "prime", "select", "fire", "advance"}
  /\ at \in 0..MaxTime
  /\ left \subseteq Loaded /\ cur \in Loaded \cup {None}
  /\ patches \subseteq Request

Init ==
  /\ now = 0 /\ build \in Builds /\ rows = [i \in Ids |-> None]
  /\ jobs = {} /\ serial = 0 /\ boot = 0
  /\ step = "sleep" /\ at = 0 /\ left = {} /\ cur = None
  /\ patches = {} /\ edits = 0

Exists(i) == rows[i] # None

\* Mutant: every column is written back.
BugSaved(stored, loaded, changed) == changed

\* What a session writes: the columns it changed, over whatever is there now.
Newer(stored, loaded, changed) == IF changed # loaded THEN changed ELSE stored
Saved(stored, loaded, changed) ==
  [cron |-> Newer(stored.cron, loaded.cron, changed.cron),
   kind |-> Newer(stored.kind, loaded.kind, changed.kind),
   params |-> Newer(stored.params, loaded.params, changed.params),
   enabled |-> Newer(stored.enabled, loaded.enabled, changed.enabled),
   next |-> Newer(stored.next, loaded.next, changed.next)]

Save(s, changed) == rows' = [rows EXCEPT ![s.id] = Saved(@, s.row, changed)]

\* Mutant: the row is left as it is, to be tried again every tick.
BugDisabled(r) == r

Disabled(r) == [r EXCEPT !.enabled = FALSE, !.next = None]

\* Mutant: the row advances from the firing that was due, not from now.
BugAdvancedBy(b, r, t) ==
  IF r.cron \in b.crons
  THEN [r EXCEPT !.next = NextFire(r.cron, IF r.next = None THEN t ELSE r.next)]
  ELSE Disabled(r)

\* next_fire, or the disabling that follows BadSchedule.
AdvancedBy(b, r, t) ==
  IF r.cron \in b.crons THEN [r EXCEPT !.next = NextFire(r.cron, t)] ELSE Disabled(r)
Advanced(r, t) == AdvancedBy(build, r, t)

Validated(r) == r.kind \in build.kinds /\ r.cron \in build.crons
-----------------------------------------------------------------------------
(* The tick. *)

Unprimed == {i \in Ids : Exists(i) /\ rows[i].enabled /\ rows[i].next = None}

Begin ==
  /\ step = "sleep"
  /\ step' = "prime" /\ at' = now
  /\ left' = {[id |-> i, row |-> rows[i]] : i \in Unprimed}
  /\ UNCHANGED <<now, build, table, boot, cur, patches, edits>>

Abort == step' = "sleep" /\ left' = {} /\ cur' = None

\* UPDATE of a row that was deleted meanwhile: StaleDataError ends the tick.
Prime ==
  /\ step = "prime"
  /\ IF \A s \in left : Exists(s.id)
     THEN /\ rows' = [i \in Ids |->
                        IF \E s \in left : s.id = i
                        THEN LET s == CHOOSE s \in left : s.id = i
                             IN  Saved(rows[i], s.row, Advanced(s.row, at))
                        ELSE rows[i]]
          /\ step' = "select" /\ left' = {} /\ UNCHANGED cur
     ELSE Abort /\ UNCHANGED rows
  /\ UNCHANGED <<now, build, jobs, serial, boot, at, patches, edits>>

Due == {i \in Ids : /\ Exists(i) /\ rows[i].enabled
                    /\ rows[i].next # None /\ rows[i].next <= at}

Select ==
  /\ step = "select"
  /\ left' = {[id |-> i, row |-> rows[i]] : i \in Due}
  /\ step' = "fire"
  /\ UNCHANGED <<now, build, table, boot, at, cur, patches, edits>>

Older(s, r) ==
  \/ s.row.next < r.row.next
  \/ s.row.next = r.row.next /\ s.id <= r.id

\* due's ORDER BY: s is the row whose turn it is.
Turn(s) == step = "fire" /\ s \in left /\ \A r \in left : Older(s, r)

\* Mutant: opting out of catch-up skips whatever a tick finds late at all.
BugMissed(s) == ~s.row.params.catchUp /\ at > s.row.next

Missed(s) == ~s.row.params.catchUp /\ at - s.row.next > Grace
Malformed(r) == r.kind \in TargetedKinds /\ r.params.badTarget

\* One commit that moves the row, if it is still there.
Settle(s, changed) ==
  IF Exists(s.id)
  THEN Save(s, changed) /\ step' = "fire" /\ left' = left \ {s} /\ cur' = None
  ELSE Abort /\ UNCHANGED rows

Skip ==
  /\ \E s \in left : Turn(s) /\ Missed(s) /\ Settle(s, Advanced(s.row, at))
  /\ UNCHANGED <<now, build, jobs, serial, boot, at, patches, edits>>

\* int(params[key]) raises, and nothing below run() catches it.
Raise ==
  /\ \E s \in left : Turn(s) /\ ~Missed(s) /\ Malformed(s.row)
  /\ Abort
  /\ UNCHANGED <<now, build, table, boot, at, patches, edits>>

NoHandler ==
  /\ \E s \in left :
       /\ Turn(s) /\ ~Missed(s) /\ ~Malformed(s.row) /\ s.row.kind \notin build.kinds
       /\ Settle(s, Disabled(s.row))
  /\ UNCHANGED <<now, build, jobs, serial, boot, at, patches, edits>>

Insert(i, due) ==
  /\ serial' = serial + 1
  /\ jobs' = jobs \cup {[n |-> serial + 1, schedule |-> i, due |-> due,
                         at |-> IF due = None THEN now ELSE at, boot |-> boot]}

\* jobs.schedule_id references schedules: enqueueing for a deleted row fails.
Enqueue ==
  /\ \E s \in left :
       /\ Turn(s) /\ ~Missed(s) /\ ~Malformed(s.row) /\ s.row.kind \in build.kinds
       /\ IF Exists(s.id)
          THEN /\ Insert(s.id, s.row.next)
               /\ step' = "advance" /\ cur' = s /\ left' = left \ {s}
          ELSE Abort /\ UNCHANGED <<jobs, serial>>
  /\ UNCHANGED <<now, build, rows, boot, at, patches, edits>>

Advance ==
  /\ step = "advance"
  /\ Settle(cur, Advanced(cur.row, at))
  /\ UNCHANGED <<now, build, jobs, serial, boot, at, patches, edits>>

End ==
  /\ step = "fire" /\ left = {}
  /\ step' = "sleep"
  /\ UNCHANGED <<now, build, table, boot, at, left, cur, patches, edits>>

Tick == Begin \/ Prime \/ Select \/ Skip \/ Raise \/ NoHandler \/ Enqueue \/ Advance \/ End
-----------------------------------------------------------------------------
(* The routes. *)

Ask == edits < MaxEdits /\ edits' = edits + 1

\* SQLite's INTEGER PRIMARY KEY: one more than the highest id in the table.
NewId(i) == (\A k \in Ids : Exists(k) => k < i) /\ (i > 1 => Exists(i - 1))

Primed(r) == [r EXCEPT !.next = IF r.enabled THEN NextFire(r.cron, now) ELSE None]

Create ==
  /\ Ask
  /\ \E i \in Ids, d \in Drafts :
       NewId(i) /\ Validated(d) /\ rows' = [rows EXCEPT ![i] = Primed(d)]
  /\ UNCHANGED <<now, build, jobs, serial, boot, tick, patches>>

\* The row with the columns the body names.
Asked(p) ==
  [p.row EXCEPT !.cron = IF "cron" \in DOMAIN p.body THEN p.body.cron ELSE @,
                !.kind = IF "kind" \in DOMAIN p.body THEN p.body.kind ELSE @,
                !.params = IF "params" \in DOMAIN p.body THEN p.body.params ELSE @,
                !.enabled = IF "enabled" \in DOMAIN p.body THEN p.body.enabled ELSE @]

\* patch_schedule up to its commit: what it loaded decides.
Patched(p) ==
  LET r == Asked(p) IN
    IF ~r.enabled THEN [r EXCEPT !.next = None]
    ELSE IF r.cron # p.row.cron \/ ~p.row.enabled \/ p.row.next = None
         THEN [r EXCEPT !.next = NextFire(r.cron, now)]
         ELSE r

PatchLoad ==
  /\ Ask
  /\ \E i \in Ids, b \in Bodies :
       Exists(i) /\ patches' = patches \cup {[id |-> i, row |-> rows[i], body |-> b]}
  /\ UNCHANGED <<now, build, table, boot, tick>>

PatchSave ==
  /\ \E p \in patches :
       /\ patches' = patches \ {p}
       /\ IF Exists(p.id) /\ Validated(Asked(p))
          THEN Save(p, Patched(p))
          ELSE UNCHANGED rows
  /\ UNCHANGED <<now, build, jobs, serial, boot, tick, edits>>

Delete ==
  /\ Ask
  /\ \E i \in Ids :
       /\ Exists(i)
       /\ rows' = [rows EXCEPT ![i] = None]
       /\ jobs' = {[j EXCEPT !.schedule = IF @ = i THEN None ELSE @] : j \in jobs}
  /\ UNCHANGED <<now, build, serial, boot, tick, patches>>

RunNow ==
  /\ Ask
  /\ \E i \in Ids :
       /\ Exists(i) /\ ~Malformed(rows[i]) /\ rows[i].kind \in build.kinds
       /\ Insert(i, None)
  /\ UNCHANGED <<now, build, rows, boot, tick, patches>>
-----------------------------------------------------------------------------
(* The clock, and the process. *)

Pass ==
  /\ now < MaxTime /\ now' = now + 1
  /\ UNCHANGED <<build, table, boot, tick, patches, edits>>

\* The process dies, in whatever it was doing, and this or another release
\* boots; lifespan primes before the loop starts and requests are served.
Restart ==
  /\ boot < MaxBoots /\ boot' = boot + 1
  /\ build' \in Builds
  /\ rows' = [i \in Ids |-> IF i \in Unprimed THEN AdvancedBy(build', rows[i], now) ELSE rows[i]]
  /\ Abort /\ patches' = {}
  /\ UNCHANGED <<now, jobs, serial, at, edits>>

Next == Tick \/ Create \/ PatchLoad \/ PatchSave \/ Delete \/ RunNow \/ Pass \/ Restart

Spec == Init /\ [][Next]_vars

\* The loop never ends and a thread that runs goes on.
FairSpec == Spec /\ WF_vars(Tick)
-----------------------------------------------------------------------------
(* Properties. *)

\* "after downtime a schedule owes one catch-up run, not one per missed
\* occurrence" (fire_one), and a tick never fires again what it just fired
\* (next_fire): of two jobs the scheduler created for a schedule, one was for
\* an occurrence later than the instant at which the other was fired, unless
\* the process died between the two.
OwedOnce ==
  \A j, k \in jobs :
    /\ j.n # k.n /\ j.schedule = k.schedule /\ j.boot = k.boot
    /\ j.schedule # None /\ j.due # None /\ k.due # None
    => j.due > k.at \/ k.due > j.at

\* A crash between the enqueue's commit and the advance's may fire an
\* occurrence again, but only once per crash: no occurrence of a schedule has
\* two jobs of the same boot, and the doubled one was the last fired.
DoubledByCrash ==
  \A j, k \in jobs :
    /\ j.boot < k.boot /\ j.schedule = k.schedule /\ j.schedule # None
    /\ j.due # None /\ k.due # None /\ k.due <= j.at
    => k.due = j.due

\* Rows and jobs stay well formed, through merged writes and upgrades, and what
\* crashes leave doubled is only the firing they interrupted.
CrashesBounded == TypeOK /\ DoubledByCrash

\* No firing is passed over in silence, across crashes and edits: where the
\* scheduler moves an enabled row past one that is due, there is a job for it,
\* or the row had opted out of catching up and the firing is late by more than
\* the grace ("never by seconds", MISFIRE_GRACE_S).
PassedMeansFired ==
  [][\A i \in Ids :
       /\ Exists(i) /\ rows[i].enabled /\ rows[i].next # None /\ rows[i].next <= at
       /\ rows'[i] # None /\ rows'[i].enabled /\ rows'[i].next # rows[i].next
       /\ patches' = patches
       => \/ \E j \in jobs : j.schedule = i /\ j.due = rows[i].next
          \/ /\ at - rows[i].next > Grace
             /\ \E s \in left : s.id = i /\ ~s.row.params.catchUp]_vars

\* i is switched on: by a PATCH that had loaded it off and asks for it.
SwitchedOn(i) == \E p \in patches : /\ p.id = i /\ ~p.row.enabled
                                    /\ "enabled" \in DOMAIN p.body /\ p.body.enabled

OnlyAskedOn ==
  \A i \in Ids :
    Exists(i) /\ ~rows[i].enabled /\ rows'[i] # None /\ rows'[i].enabled => SwitchedOn(i)

\* An operator's disabling, or the scheduler's own, is undone only by a PATCH
\* that asks for it, whatever tick or PATCH was under way with the row as it
\* was before (seed_system_schedules: "a system row the operator disabled ...
\* stays that way").
OffStaysOff == [][OnlyAskedOn]_vars

Ripe(i, t) == Exists(i) /\ rows[i].enabled /\ rows[i].next = t /\ t <= now

Wedged == \E k \in Ids : Exists(k) /\ rows[k].enabled /\ Malformed(rows[k])

\* A firing that comes due is dealt with, fired, skipped or called off,
\* whatever other rows have no handler or no longer parse, are edited or
\* deleted under the tick (the module's docstring: "one malformed row must
\* never stop the other schedules"), as long as no row's target raises.
EveryDueFires ==
  \A i \in Ids, t \in 0..MaxTime : Ripe(i, t) ~> ~Ripe(i, t) \/ Wedged

\* The same of the rows that are not themselves malformed, whatever others
\* hold (the module's docstring, as above).
OthersGoOn ==
  \A i \in Ids, t \in 0..MaxTime :
    Ripe(i, t) /\ ~Malformed(rows[i]) ~> ~Ripe(i, t)

\* "a write is live within one tick" (api/schedules.py): between two ticks an
\* enabled row waits for a firing of its own cron.
WaitsForItsCron ==
  step = "sleep" /\ patches = {} =>
    \A i \in Ids :
      Exists(i) /\ rows[i].enabled /\ rows[i].next # None
      => \E t \in 0..MaxTime : NextFire(rows[i].cron, t) = rows[i].next
=============================================================================
