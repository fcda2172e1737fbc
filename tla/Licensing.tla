------------------------------ MODULE Licensing ------------------------------
(***************************************************************************)
(* The licence of an install (api/entitlements.py, entitlements/client.py, *)
(* services/license_client.py).  Owners set, transfer, refresh and remove  *)
(* it on threads of the server while a loop on its event loop refreshes it *)
(* every hour; all of them read, ask the licensing service, and commit     *)
(* later, in several commits.  The service may be out of reach, its answer *)
(* may be lost or fail to verify, another install may take the seat, and   *)
(* the process may die.  A day is long: no call takes one, and every loop  *)
(* gets to a refresh each day.                                             *)
(***************************************************************************)
EXTENDS Naturals, FiniteSets

CONSTANTS
  Clerks,      \* requests of owners
  Beats,       \* refresh loops
  Grace,       \* days a token is good for, leeway included
  MaxOffline,  \* license_revalidation_days
  MaxDays, MaxAsks, MaxTroubles, MaxIssues   \* bounds

ASSUME LicensingAssumption ==
  /\ Grace \in Nat /\ MaxOffline \in Nat /\ MaxDays \in Nat \ {0}
  /\ MaxAsks \in Nat /\ MaxTroubles \in Nat /\ MaxIssues \in Nat
  /\ Clerks \cap Beats = {}

VARIABLES
  \* the licensing service
  reachable,
  seat,        \* which install holds it: "ours", "other" or "free"
  issued,      \* refresh credentials issued; the last one is honoured
  highSeq,        \* the highest heartbeat_seq that came with it
  accused,     \* it took one for a clone's: not above what it had seen
  \* the database
  cache,       \* entitlement_cache: the day its token was fetched, or 0
  credential,  \* license.refresh_credential.enc: which one, or 0
  beatSeq,     \* license.heartbeat_seq
  writer,      \* who holds SQLite's write lock across a call, or "nobody"
  \* the process
  granted,     \* the day of the token its features come from; 0: builtin
  loops,       \* refresh tasks that run
  due,         \* those that have yet to refresh today
  asking,        \* what each request or loop is at
  today,
  crossed,     \* ghost: two calls have overlapped
  cutShort,    \* ghost: a change of licence was heard of by one side only
  asks, troubles

serviceVars == <<reachable, seat, issued, highSeq, accused>>
rowVars == <<cache, credential, beatSeq>>
counted == <<today, asks, troubles>>
licenceVars == <<serviceVars, rowVars, writer, granted, loops, due, asking, crossed, cutShort, counted>>

Parties == Clerks \cup Beats
AtRest == [op |-> "none", pc |-> "idle", cred |-> 0, n |-> 0, had |-> FALSE]
Stages == {"idle", "numbering", "saving", "asked", "applying", "storing", "keeping", "zeroing",
           "starting", "creating", "flushing", "releasing", "dropping", "resetting"}

LicensingTypeOK ==
  /\ reachable \in BOOLEAN /\ seat \in {"ours", "other", "free"} /\ issued \in 0..MaxIssues
  /\ highSeq \in Nat /\ accused \in BOOLEAN /\ beatSeq \in Nat
  /\ cache \in 0..MaxDays /\ granted \in 0..MaxDays /\ today \in 1..MaxDays
  /\ credential \in 0..MaxIssues
  /\ writer \in Clerks \cup {"nobody"}
  /\ loops \subseteq Beats /\ due \subseteq loops
  /\ asking \in [Parties -> [op : {"none", "set", "transfer", "refresh", "remove"}, pc : Stages,
                            cred : 0..MaxIssues, n : Nat, had : BOOLEAN]]
  /\ crossed \in BOOLEAN /\ cutShort \in BOOLEAN
  /\ asks \in 0..MaxAsks /\ troubles \in 0..MaxTroubles

LicensingInit ==
  /\ reachable = TRUE /\ seat \in {"free", "other"} /\ issued = 0 /\ highSeq = 0 /\ accused = FALSE
  /\ cache = 0 /\ credential = 0 /\ beatSeq = 0 /\ writer = "nobody"
  /\ granted = 0 /\ loops = {} /\ due = {} /\ asking = [p \in Parties |-> AtRest]
  /\ today = 1 /\ crossed = FALSE /\ cutShort = FALSE /\ asks = 0 /\ troubles = 0

Busy == {p \in Parties : asking[p].pc # "idle"}
GoesOn(p, pc) == asking' = [asking EXCEPT ![p].pc = pc]
Done(p) == asking' = [asking EXCEPT ![p] = AtRest] /\ due' = due \ {p}
Trouble == troubles < MaxTroubles /\ troubles' = troubles + 1

-----------------------------------------------------------------------------
(* Requests and heartbeats begin.                                          *)

Enters(p, request) ==
  /\ asking[p].pc = "idle"
  /\ asking' = [asking EXCEPT ![p] = request]
  /\ crossed' = (crossed \/ (Busy # {}))
  /\ UNCHANGED <<serviceVars, rowVars, writer, granted, loops, cutShort, today, troubles>>

\* The session of remove_license reads the cached token here, once.
OwnerAsks(p, op) ==
  /\ asks < MaxAsks /\ asks' = asks + 1 /\ UNCHANGED due
  /\ op = "refresh" => credential # 0
  /\ Enters(p, [AtRest EXCEPT !.op = op, !.cred = credential, !.had = (cache # 0),
                  !.pc = CASE op = "refresh" -> "numbering" [] op = "remove" -> "flushing"
                           [] OTHER -> "asked"])

\* Without a licence the loop sleeps on.
Beat(b) ==
  /\ b \in due /\ asking[b].pc = "idle" /\ UNCHANGED asks
  /\ IF credential = 0
     THEN /\ due' = due \ {b}
          /\ UNCHANGED <<serviceVars, rowVars, writer, granted, loops, asking, crossed, cutShort, today, troubles>>
     ELSE /\ Enters(b, [AtRest EXCEPT !.op = "refresh", !.cred = credential, !.pc = "numbering"])
          /\ UNCHANGED due

\* A request answers an error.  The loop looks how long nobody has
\* revalidated the licence, and sleeps on.
BugLapsed == FALSE
Lapsed == cache # 0 /\ today > cache + MaxOffline
Fails(p) ==
  /\ Done(p)
  /\ granted' = IF p \in Beats /\ Lapsed THEN 0 ELSE granted

\* Another connection writes: five seconds, then "database is locked".
MayWrite(p) == writer \in {"nobody", p}
Locked(p) ==
  /\ ~MayWrite(p)
  /\ asking[p].pc \in {"saving", "storing", "keeping", "zeroing", "flushing", "dropping"}
  /\ Fails(p)
  /\ cutShort' = (cutShort \/ (asking[p].pc \in {"storing", "keeping", "zeroing", "dropping"}))
  /\ UNCHANGED <<serviceVars, rowVars, writer, loops, crossed, counted>>

-----------------------------------------------------------------------------
(* A refresh: next_heartbeat_seq, the call, apply_new_token.               *)

Number(p) ==
  /\ asking[p].pc = "numbering"
  /\ asking' = [asking EXCEPT ![p].n = beatSeq + 1, ![p].pc = "saving"]
  /\ UNCHANGED <<serviceVars, rowVars, writer, granted, loops, due, crossed, cutShort, counted>>

\* Committed before it is sent.
BugSave(p) ==
  /\ asking[p].pc = "saving" /\ GoesOn(p, "asked")
  /\ UNCHANGED <<serviceVars, rowVars, writer, granted, loops, due, crossed, cutShort, counted>>
Save(p) ==
  /\ asking[p].pc = "saving" /\ MayWrite(p)
  /\ beatSeq' = asking[p].n /\ GoesOn(p, "asked")
  /\ UNCHANGED <<serviceVars, cache, credential, writer, granted, loops, due, crossed, cutShort, counted>>

\* What the service makes of a call; a first activation and a transfer come
\* with a credential, an activation by the holder of the seat with none.
Honoured(p) == seat = "ours" /\ asking[p].cred = issued
Seats(p) == asking[p].op = "transfer" \/ (asking[p].op = "set" /\ seat = "free")
Heard(p) ==
  CASE asking[p].op = "refresh" ->
         /\ Honoured(p)
         /\ accused' = (accused \/ (asking[p].n <= highSeq))
         /\ highSeq' = IF asking[p].n > highSeq THEN asking[p].n ELSE highSeq
         /\ UNCHANGED <<seat, issued>>
    [] Seats(p) -> /\ issued < MaxIssues /\ issued' = issued + 1
                   /\ seat' = "ours" /\ highSeq' = 0 /\ UNCHANGED accused
    [] OTHER -> seat = "ours" /\ UNCHANGED <<seat, issued, highSeq, accused>>

Heeded(p) ==
  /\ asking[p].pc = "asked" /\ reachable /\ Heard(p)
  /\ asking' = [asking EXCEPT ![p].pc = "applying",
                          ![p].cred = IF asking[p].op = "refresh" THEN @ ELSE IF Seats(p) THEN issued + 1 ELSE 0]
  /\ UNCHANGED <<reachable, rowVars, writer, granted, loops, due, crossed, cutShort, counted>>

\* The answer is lost, or its token does not verify: nothing is applied.
Unusable(p) ==
  /\ asking[p].pc = "asked" /\ reachable /\ Heard(p)
  /\ Trouble /\ Fails(p)
  /\ cutShort' = (cutShort \/ (asking[p].op # "refresh"))
  /\ UNCHANGED <<reachable, rowVars, writer, loops, crossed, today, asks>>

\* Out of reach; or a credential it no longer honours, an occupied seat.
Rebuffed(p) ==
  /\ asking[p].pc = "asked"
  /\ \/ ~reachable
     \/ asking[p].op = "refresh" /\ ~Honoured(p)
     \/ asking[p].op = "set" /\ seat = "other"
  /\ Fails(p)
  /\ UNCHANGED <<serviceVars, rowVars, writer, loops, crossed, cutShort, counted>>

\* In memory first ...
ApplyClaims(p) ==
  /\ asking[p].pc = "applying" /\ granted' = today /\ GoesOn(p, "storing")
  /\ UNCHANGED <<serviceVars, rowVars, writer, loops, due, crossed, cutShort, counted>>

\* ... and then token and certificate in one commit.
Store(p) ==
  /\ asking[p].pc = "storing" /\ MayWrite(p)
  /\ cache' = today
  /\ IF asking[p].op = "refresh" THEN Done(p)
     ELSE GoesOn(p, IF asking[p].cred # 0 THEN "keeping" ELSE "starting") /\ UNCHANGED due
  /\ UNCHANGED <<serviceVars, credential, beatSeq, writer, granted, loops, crossed, cutShort, counted>>
-----------------------------------------------------------------------------
(* The rest of set_license and transfer_license, a commit each.            *)

Keep(p) ==
  /\ asking[p].pc = "keeping" /\ MayWrite(p)
  /\ credential' = asking[p].cred
  /\ GoesOn(p, IF asking[p].op = "transfer" THEN "zeroing" ELSE "starting")
  /\ UNCHANGED <<serviceVars, cache, beatSeq, writer, granted, loops, due, crossed, cutShort, counted>>

Zero(p) ==
  /\ asking[p].pc = "zeroing" /\ MayWrite(p)
  /\ beatSeq' = 0 /\ GoesOn(p, "starting")
  /\ UNCHANGED <<serviceVars, cache, credential, writer, granted, loops, due, crossed, cutShort, counted>>

\* start_refresh_loop looks for a task on this thread ...
FindLoop(p) ==
  /\ asking[p].pc = "starting"
  /\ IF loops = {} THEN GoesOn(p, "creating") /\ UNCHANGED due ELSE Done(p)
  /\ UNCHANGED <<serviceVars, rowVars, writer, granted, loops, crossed, cutShort, counted>>

\* ... and has the event loop create one.
CreateLoop(p) ==
  /\ asking[p].pc = "creating"
  /\ \E b \in Beats \ loops : loops' = loops \cup {b} /\ due' = due \cup {b}
  /\ asking' = [asking EXCEPT ![p] = AtRest]
  /\ UNCHANGED <<serviceVars, rowVars, writer, granted, crossed, cutShort, counted>>
-----------------------------------------------------------------------------
(* remove_license.                                                         *)

\* installation_id's query flushes the emptied row: the write lock is held
\* while the service is called.
Flush(p) ==
  /\ asking[p].pc = "flushing"
  /\ IF asking[p].cred = 0 THEN GoesOn(p, "dropping") /\ UNCHANGED writer
     ELSE /\ GoesOn(p, "releasing")
          /\ IF asking[p].had THEN MayWrite(p) /\ writer' = p ELSE UNCHANGED writer
  /\ UNCHANGED <<serviceVars, rowVars, granted, loops, due, crossed, cutShort, counted>>

\* Best effort: what the service says is not looked at.
Release(p) ==
  /\ asking[p].pc = "releasing"
  /\ seat' = IF reachable /\ Honoured(p) THEN "free" ELSE seat
  /\ cutShort' = (cutShort \/ ~reachable)
  /\ GoesOn(p, "dropping")
  /\ UNCHANGED <<reachable, issued, highSeq, accused, rowVars, writer, granted, loops, due, crossed, counted>>

\* A row that this session found empty is not written.
DropRows(p) ==
  /\ asking[p].pc = "dropping" /\ MayWrite(p)
  /\ cache' = IF asking[p].had THEN 0 ELSE cache
  /\ credential' = 0 /\ beatSeq' = 0
  /\ writer' = "nobody" /\ GoesOn(p, "resetting")
  /\ UNCHANGED <<serviceVars, granted, loops, due, crossed, cutShort, counted>>

ResetBuiltin(p) ==
  /\ asking[p].pc = "resetting" /\ granted' = 0 /\ Done(p)
  /\ UNCHANGED <<serviceVars, rowVars, writer, loops, crossed, cutShort, counted>>
-----------------------------------------------------------------------------
(* The world, and the process.                                             *)

Outages ==
  /\ reachable' = ~reachable /\ IF reachable THEN Trouble ELSE UNCHANGED troubles
  /\ UNCHANGED <<seat, issued, highSeq, accused, rowVars, writer, granted, loops, due, asking, crossed, cutShort, today, asks>>

\* Another install takes the seat.
SeatTaken ==
  /\ Trouble /\ seat # "other" /\ issued < MaxIssues
  /\ seat' = "other" /\ issued' = issued + 1 /\ highSeq' = 0
  /\ UNCHANGED <<reachable, accused, rowVars, writer, granted, loops, due, asking, crossed, cutShort, today, asks>>

NextDay ==
  /\ today < MaxDays /\ Busy = {} /\ due = {}
  /\ today' = today + 1 /\ due' = loops
  /\ UNCHANGED <<serviceVars, rowVars, writer, granted, loops, asking, crossed, cutShort, asks, troubles>>

\* The process dies; a new one loads the cache, and starts a loop if it has
\* a credential.  SQLite rolls an open transaction back.
Loaded == IF Lapsed \/ today > cache + Grace THEN 0 ELSE cache
Reboot ==
  /\ Trouble
  /\ granted' = Loaded
  /\ \E b \in Beats : loops' = IF credential = 0 THEN {} ELSE {b}
  /\ due' = loops' /\ writer' = "nobody"
  /\ asking' = [p \in Parties |-> AtRest]
  /\ cutShort' = (cutShort \/ \E p \in Clerks :
                    asking[p].op # "refresh" /\ asking[p].pc \notin {"idle", "asked", "flushing", "releasing"})
  /\ UNCHANGED <<serviceVars, rowVars, crossed, today, asks>>

LicenceSteps(p) ==
  \/ Number(p) \/ Save(p) \/ Heeded(p) \/ Unusable(p) \/ Rebuffed(p) \/ ApplyClaims(p) \/ Store(p)
  \/ Keep(p) \/ Zero(p) \/ FindLoop(p) \/ CreateLoop(p)
  \/ Flush(p) \/ Release(p) \/ DropRows(p) \/ ResetBuiltin(p) \/ Locked(p)
LicensingNext ==
  \/ \E p \in Clerks, op \in {"set", "transfer", "refresh", "remove"} : OwnerAsks(p, op)
  \/ \E b \in Beats : Beat(b)
  \/ \E p \in Parties : LicenceSteps(p)
  \/ Outages \/ SeatTaken \/ NextDay \/ Reboot
LicensingSpec == LicensingInit /\ [][LicensingNext]_licenceVars
-----------------------------------------------------------------------------
(* Properties.                                                             *)

\* An install whose licence nobody has revalidated for MaxOffline days loses
\* what it grants, within a heartbeat and without a restart, whatever was
\* refreshed, removed, transferred or cut off meanwhile.
GrantLapses ==
  Busy = {} /\ due = {} /\ loops # {} /\ credential # 0 /\ granted # 0 =>
    cache # 0 /\ today <= cache + MaxOffline

\* An install that is alone with its seat, and whose calls do not overlap, is
\* never taken for a clone, wherever it dies and however often it restarts.
NeverAccused == ~crossed => ~accused

\* ... and has one refresh loop, which it has whenever it has a credential.
OneLoop == ~crossed => Cardinality(loops) <= 1
KeepsBeating == Busy = {} /\ credential # 0 /\ ~cutShort => loops # {}

\* Token and credential come and go together, and so does what they grant.
LicenceWhole ==
  Busy = {} /\ ~crossed /\ ~cutShort =>
    (credential = 0 <=> cache = 0) /\ (credential = 0 => granted = 0)

LicenceSound ==
  LicensingTypeOK /\ GrantLapses /\ NeverAccused /\ OneLoop /\ KeepsBeating /\ LicenceWhole

(* What a docstring says and two overlapping calls refute.                 *)

\* entitlements.py:178-179 "activating twice never starts a second one".
NeverTwoLoops == Cardinality(loops) <= 1
=============================================================================
