------------------------------- MODULE Installs -------------------------------
(***************************************************************************)
(* Installing catalog apps on one node: the install route (api/catalog.py) *)
(* and the handlers run_install and run_install_reconcile                  *)
(* (services/appstore.py), with the scripts they start as root, which go   *)
(* their own way once started, connections that die, process restarts and  *)
(* operators who adopt containers meanwhile (api/apps.py).                 *)
(*                                                                         *)
(* The job runner around the handlers is JobEngine's; here a job is        *)
(* accepted, runs, and is finished by its handler, a cancel or a boot.     *)
(* The event loop runs a handler between two awaits without interruption:  *)
(* an action is such a stretch, except that a crash may fall between two   *)
(* commits, so these are steps of their own.                               *)
(***************************************************************************)
EXTENDS Naturals, FiniteSets

CONSTANTS
  Installs,      \* install requests, each for a catalog slug on the one node
  SlugOf,        \* the slug of each
  Pins,          \* what an operator may supply as the ctid: an id, or NoId
  Ids,           \* container ids of the node
  NoId,          \* no container
  Nobody,        \* nobody made, or filed, this
  Operator,      \* filed by an operator who adopted it
  MaxCuts,       \* bound: connections cut while a script may be running
  MaxRestarts,   \* bound: times the process dies
  MaxDoubts,     \* bound: calls to the node, or checks of it, that fail
  MaxCancels,    \* bound: installs cancelled
  MaxAdopts      \* bound: containers adopted by hand

ASSUME PinAssumption == Pins \subseteq Ids \cup {NoId}
ASSUME NoIdAssumption == NoId \notin Ids
ASSUME PeopleAssumption == Nobody \notin Installs \cup {Operator} /\ Operator \notin Installs
ASSUME BoundsAssumption ==
  /\ MaxCuts \in Nat /\ MaxRestarts \in Nat /\ MaxDoubts \in Nat
  /\ MaxCancels \in Nat /\ MaxAdopts \in Nat

VARIABLES
  \* the node
  maker,         \* whose script made each container; Nobody: no such container
  script,        \* "off", "running", then "zero" or "nonzero", its exit status
  \* the database
  pin,           \* its params' ctid, NoId when there is none
  job,           \* jobs.status of each install, "none" before it is accepted
  before,        \* its checkpoint's before_ctids
  dispatched,    \* installs whose checkpoint says dispatched
  result,        \* the container of jobs.result's app, or NoId
  app,           \* who filed the apps row of each container, if anyone
  overlap,       \* started_at and finished_at: whose runs overlapped whose
  \* the process
  pc,            \* where run_install is, "none" when there is no such task
  after,         \* the ids it read after the script, or the reconcile did
  rec,           \* where run_install_reconcile is for each install
  pick,          \* the container that one settled on
  spent          \* the bounds used up

node == <<maker, script>>
vars == <<node, pin, job, before, dispatched, result, app, overlap, pc, after, rec, pick, spent>>

Finished == {"succeeded", "failed", "canceled", "interrupted", "unknown"}

TypeOK ==
  /\ maker \in [Ids -> Installs \cup {Nobody}]
  /\ script \in [Installs -> {"off", "running", "zero", "nonzero"}]
  /\ pin \in [Installs -> Ids \cup {NoId}]
  /\ job \in [Installs -> {"none", "queued", "running"} \cup Finished]
  /\ before \in [Installs -> SUBSET Ids] /\ after \in [Installs -> SUBSET Ids]
  /\ dispatched \subseteq Installs
  /\ result \in [Installs -> Ids \cup {NoId}] /\ pick \in [Installs -> Ids \cup {NoId}]
  /\ app \in [Ids -> Installs \cup {Operator, Nobody}]
  /\ overlap \in [Installs -> SUBSET Installs]
  /\ pc \in [Installs -> {"none", "started", "checked", "ssh", "exited", "counted", "filed"}]
  /\ rec \in [Installs -> {"none", "queued", "asked", "looking", "filing", "filed", "failed"}]
  /\ spent \in [cuts : 0..MaxCuts, restarts : 0..MaxRestarts, doubts : 0..MaxDoubts,
                cancels : 0..MaxCancels, adopts : 0..MaxAdopts]

Init ==
  /\ maker = [c \in Ids |-> Nobody] /\ script = [j \in Installs |-> "off"]
  /\ pin = [j \in Installs |-> NoId] /\ job = [j \in Installs |-> "none"]
  /\ before = [j \in Installs |-> {}] /\ after = [j \in Installs |-> {}]
  /\ dispatched = {}
  /\ result = [j \in Installs |-> NoId] /\ pick = [j \in Installs |-> NoId]
  /\ app = [c \in Ids |-> Nobody]
  /\ overlap = [j \in Installs |-> {}]
  /\ pc = [j \in Installs |-> "none"] /\ rec = [j \in Installs |-> "none"]
  /\ spent = [cuts |-> 0, restarts |-> 0, doubts |-> 0, cancels |-> 0, adopts |-> 0]

-----------------------------------------------------------------------------
(* The node, which Proxploy does not control.                              *)

\* _lxc_ids
Present == {c \in Ids : maker[c] # Nobody}
Built(j) == \E c \in Ids : maker[c] = j

\* build.func builds the id it was given, or the one the node hands out.
ScriptBuilds(j) ==
  /\ script[j] = "running" /\ ~Built(j)
  /\ \E c \in Ids \ Present :
       /\ pin[j] # NoId => c = pin[j]
       /\ \A d \in Ids \ Present : pin[j] = NoId => c <= d
       /\ maker' = [maker EXCEPT ![c] = j]
  /\ UNCHANGED <<script, pin, job, before, dispatched, result, app, overlap, pc, after, rec, pick, spent>>

\* It may exit 0 having built nothing (its menus give up that way), and may
\* fail having built its container.
ScriptEnds(j) ==
  /\ script[j] = "running"
  /\ \E code \in {"zero", "nonzero"} : script' = [script EXCEPT ![j] = code]
  /\ UNCHANGED <<maker, pin, job, before, dispatched, result, app, overlap, pc, after, rec, pick, spent>>

-----------------------------------------------------------------------------
(* POST /catalog/{slug}/install.                                           *)

Tracked(c) == app[c] # Nobody

Unresolved(j) == {k \in dispatched : job[k] = "unknown" /\ SlugOf[k] = SlugOf[j]}

Accept(j) ==
  /\ job[j] = "none"
  /\ Unresolved(j) = {}
  /\ \E c \in Pins : (c # NoId => ~Tracked(c)) /\ pin' = [pin EXCEPT ![j] = c]
  /\ job' = [job EXCEPT ![j] = "queued"]
  /\ UNCHANGED <<node, before, dispatched, result, app, overlap, pc, after, rec, pick, spent>>

-----------------------------------------------------------------------------
(* run_install.                                                            *)

Running == {j \in Installs : job[j] = "running"}

Start(j) ==
  /\ job[j] = "queued"
  /\ job' = [job EXCEPT ![j] = "running"]
  /\ pc' = [pc EXCEPT ![j] = "started"]
  /\ overlap' = [k \in Installs |-> IF k = j THEN overlap[j] \cup Running
                                    ELSE IF k \in Running THEN overlap[k] \cup {j}
                                    ELSE overlap[k]]
  /\ UNCHANGED <<node, pin, before, dispatched, result, app, after, rec, pick, spent>>

Ends(j, status) ==
  /\ job' = [job EXCEPT ![j] = status]
  /\ pc' = [pc EXCEPT ![j] = "none"]

\* JobBackend._finish queues the reconciliation of an unknown install.
Fails(j, status) ==
  /\ Ends(j, status)
  /\ rec' = IF status = "unknown" THEN [rec EXCEPT ![j] = "queued"] ELSE rec

\* An install never builds over a container that is there.
Clashes(j) == pin[j] \in Present

ReadBefore(j) ==
  /\ pc[j] = "started"
  /\ before' = [before EXCEPT ![j] = Present]
  /\ IF Clashes(j) THEN Ends(j, "failed")
     ELSE pc' = [pc EXCEPT ![j] = "checked"] /\ UNCHANGED job
  /\ UNCHANGED <<node, pin, dispatched, result, app, overlap, after, rec, pick, spent>>

\* Any refusal on the way: no storage pool, no credential, no API.
FailsEarly(j) ==
  /\ pc[j] \in {"started", "checked"}
  /\ Ends(j, "failed")
  /\ UNCHANGED <<node, pin, before, dispatched, result, app, overlap, after, rec, pick, spent>>

\* The checkpoint is committed before the command is sent.
Checkpoint(j) == dispatched \cup {j}
Dispatch(j) ==
  /\ pc[j] = "checked"
  /\ dispatched' = Checkpoint(j)
  /\ pc' = [pc EXCEPT ![j] = "ssh"]
  /\ UNCHANGED <<node, pin, job, before, result, app, overlap, after, rec, pick, spent>>

Connects(j) ==
  /\ pc[j] = "ssh" /\ script[j] = "off"
  /\ script' = [script EXCEPT ![j] = "running"]
  /\ UNCHANGED <<maker, pin, job, before, dispatched, result, app, overlap, pc, after, rec, pick, spent>>

\* SSHUnreachable and SSHHostKeyMismatch precede the command.
NeverConnects(j) ==
  /\ pc[j] = "ssh" /\ script[j] = "off"
  /\ Fails(j, "failed")
  /\ UNCHANGED <<node, pin, before, dispatched, result, app, overlap, after, pick, spent>>

\* The connection is lost, or the 1800 s are over; the script need not be.
ConnectionLost(j) ==
  /\ pc[j] = "ssh" /\ script[j] # "off" /\ spent.cuts < MaxCuts
  /\ spent' = [spent EXCEPT !.cuts = @ + 1]
  /\ Fails(j, "unknown")
  /\ UNCHANGED <<node, pin, before, dispatched, result, app, overlap, after, pick>>

ExitStatus(j) ==
  /\ pc[j] = "ssh" /\ script[j] \in {"zero", "nonzero"}
  /\ IF script[j] = "nonzero" THEN Ends(j, "failed")
     ELSE pc' = [pc EXCEPT ![j] = "exited"] /\ UNCHANGED job
  /\ UNCHANGED <<node, pin, before, dispatched, result, app, overlap, after, rec, pick, spent>>

\* The read after the script; when the API fails it is a JobFailed.
ReadAfter(j) ==
  /\ pc[j] = "exited"
  /\ after' = [after EXCEPT ![j] = Present]
  /\ pc' = [pc EXCEPT ![j] = "counted"]
  /\ UNCHANGED <<node, pin, job, before, dispatched, result, app, overlap, rec, pick, spent>>

ReadAfterFails(j) ==
  /\ pc[j] = "exited" /\ spent.doubts < MaxDoubts
  /\ spent' = [spent EXCEPT !.doubts = @ + 1]
  /\ Ends(j, "failed")
  /\ UNCHANGED <<node, pin, before, dispatched, result, app, overlap, after, rec, pick>>

\* Which container is this app?  Exactly one, or the install fails.
Appeared(j) == after[j] \ before[j]
BugMine(j) == Appeared(j)
Mine(j) == IF pin[j] # NoId THEN {pin[j]} \cap after[j] ELSE Appeared(j)

\* The apps row; ux_apps_host_ctid refuses a second one for the container.
FileApp(j) ==
  /\ pc[j] = "counted"
  /\ \/ /\ \E c \in Ids :
             /\ Mine(j) = {c} /\ ~Tracked(c)
             /\ app' = [app EXCEPT ![c] = j]
             /\ pick' = [pick EXCEPT ![j] = c]
        /\ pc' = [pc EXCEPT ![j] = "filed"]
        /\ UNCHANGED job
     \/ /\ \A c \in Ids : Mine(j) = {c} => Tracked(c)
        /\ Ends(j, "failed")
        /\ UNCHANGED <<app, pick>>
  /\ UNCHANGED <<node, pin, before, dispatched, result, overlap, after, rec, spent>>

\* No await between that commit and _finish: only a crash comes between.
Succeeds(j) ==
  /\ pc[j] = "filed"
  /\ Ends(j, "succeeded")
  /\ result' = [result EXCEPT ![j] = pick[j]]
  /\ UNCHANGED <<node, pin, before, dispatched, app, overlap, after, rec, pick, spent>>

\* A cancel, or a graceful stop, lands at an await.  The script lives on.
Canceled(j) ==
  /\ pc[j] \in {"started", "checked", "ssh", "exited"}
  /\ spent.cancels < MaxCancels
  /\ spent' = [spent EXCEPT !.cancels = @ + 1]
  /\ Ends(j, "canceled")
  /\ UNCHANGED <<node, pin, before, dispatched, result, app, overlap, after, rec, pick>>

-----------------------------------------------------------------------------
(* run_install_reconcile.                                                  *)

\* Ask the node what is there now.
Ask(j) ==
  /\ rec[j] = "queued"
  /\ after' = [after EXCEPT ![j] = Present]
  /\ rec' = [rec EXCEPT ![j] = "asked"]
  /\ UNCHANGED <<node, pin, job, before, dispatched, result, app, overlap, pc, pick, spent>>

\* The node does not answer, or the check is cancelled.
AskFails(j) ==
  /\ rec[j] \in {"queued", "asked"} /\ spent.doubts < MaxDoubts
  /\ spent' = [spent EXCEPT !.doubts = @ + 1]
  /\ rec' = [rec EXCEPT ![j] = "failed"]
  /\ UNCHANGED <<node, pin, job, before, dispatched, result, app, overlap, pc, after, pick>>

\* _concurrent_guest_ctids: only a pinned install says what it builds.
BugConcurrentTracked(j) == {c \in Ids : Tracked(c)}
Concurrent(j) == {pin[k] : k \in overlap[j] \ {j}} \cap Ids

Candidates(j) ==
  IF pin[j] # NoId THEN {pin[j]} \cap after[j] ELSE Appeared(j) \ Concurrent(j)

\* _resolve_install_job
Resolve(j, status, c) ==
  IF job[j] = "unknown"
  THEN /\ job' = [job EXCEPT ![j] = status]
       /\ result' = [result EXCEPT ![j] = c]
  ELSE UNCHANGED <<job, result>>

NothingBuilt(j) ==
  /\ rec[j] = "asked" /\ Candidates(j) = {}
  /\ Resolve(j, "failed", NoId)
  /\ rec' = [rec EXCEPT ![j] = "none"]
  /\ UNCHANGED <<node, pin, before, dispatched, app, overlap, pc, after, pick, spent>>

Ambiguous(j) ==
  /\ rec[j] = "asked" /\ Cardinality(Candidates(j)) > 1
  /\ rec' = [rec EXCEPT ![j] = "failed"]
  /\ UNCHANGED <<node, pin, job, before, dispatched, result, app, overlap, pc, after, pick, spent>>

Found(j) ==
  /\ rec[j] = "asked"
  /\ \E c \in Ids : Candidates(j) = {c} /\ pick' = [pick EXCEPT ![j] = c]
  /\ rec' = [rec EXCEPT ![j] = "looking"]
  /\ UNCHANGED <<node, pin, job, before, dispatched, result, app, overlap, pc, after, spent>>

\* _record_reconciled_install, on a thread: is there an apps row already?
BugExisting(j) == FALSE
Existing(j) == Tracked(pick[j])

BugLook(j) ==
  /\ rec[j] = "looking"
  /\ Resolve(j, "succeeded", pick[j])
  /\ rec' = [rec EXCEPT ![j] = IF Existing(j) THEN "none" ELSE "filing"]
  /\ UNCHANGED <<node, pin, before, dispatched, app, overlap, pc, after, pick, spent>>
Look(j) ==
  /\ rec[j] = "looking"
  /\ IF Existing(j)
     THEN Resolve(j, "succeeded", pick[j]) /\ rec' = [rec EXCEPT ![j] = "none"]
     ELSE rec' = [rec EXCEPT ![j] = "filing"] /\ UNCHANGED <<job, result>>
  /\ UNCHANGED <<node, pin, before, dispatched, app, overlap, pc, after, pick, spent>>

\* The insert, which the unique index may still refuse ...
File(j) ==
  /\ rec[j] = "filing"
  /\ IF Tracked(pick[j])
     THEN rec' = [rec EXCEPT ![j] = "failed"] /\ UNCHANGED app
     ELSE rec' = [rec EXCEPT ![j] = "filed"] /\ app' = [app EXCEPT ![pick[j]] = j]
  /\ UNCHANGED <<node, pin, job, before, dispatched, result, overlap, pc, after, pick, spent>>

\* ... and, in a commit of its own, the answer.
Answer(j) ==
  /\ rec[j] = "filed"
  /\ Resolve(j, "succeeded", pick[j])
  /\ rec' = [rec EXCEPT ![j] = "none"]
  /\ UNCHANGED <<node, pin, before, dispatched, app, overlap, pc, after, pick, spent>>

-----------------------------------------------------------------------------
(* POST /apps/adopt, and the process.                                      *)

Adopt(c) ==
  /\ c \in Present /\ ~Tracked(c) /\ spent.adopts < MaxAdopts
  /\ spent' = [spent EXCEPT !.adopts = @ + 1]
  /\ app' = [app EXCEPT ![c] = Operator]
  /\ UNCHANGED <<node, pin, job, before, dispatched, result, overlap, pc, after, rec, pick>>

\* The process dies; its next boot sweeps the orphans and queues a check of
\* every unknown install.  Scripts on the node do not notice.
Swept(j) == IF job[j] = "running" /\ j \in dispatched THEN "unknown"
            ELSE IF job[j] \in {"queued", "running"} THEN "interrupted" ELSE job[j]

Restart ==
  /\ spent.restarts < MaxRestarts
  /\ spent' = [spent EXCEPT !.restarts = @ + 1]
  /\ job' = [j \in Installs |-> Swept(j)]
  /\ rec' = [j \in Installs |-> IF Swept(j) = "unknown" THEN "queued" ELSE "none"]
  /\ pc' = [j \in Installs |-> "none"]
  /\ after' = [j \in Installs |-> {}] /\ pick' = [j \in Installs |-> NoId]
  /\ UNCHANGED <<node, pin, before, dispatched, result, app, overlap>>

-----------------------------------------------------------------------------
InstallStep(j) ==
  \/ Accept(j) \/ Start(j) \/ ReadBefore(j) \/ FailsEarly(j) \/ Dispatch(j)
  \/ Connects(j) \/ NeverConnects(j) \/ ConnectionLost(j) \/ ExitStatus(j)
  \/ ReadAfter(j) \/ ReadAfterFails(j) \/ FileApp(j) \/ Succeeds(j) \/ Canceled(j)

ReconcileStep(j) ==
  \/ Ask(j) \/ AskFails(j) \/ NothingBuilt(j) \/ Ambiguous(j) \/ Found(j)
  \/ Look(j) \/ File(j) \/ Answer(j)

Next ==
  \/ \E j \in Installs : ScriptBuilds(j) \/ ScriptEnds(j)
                         \/ InstallStep(j) \/ ReconcileStep(j)
  \/ \E c \in Ids : Adopt(c)
  \/ Restart

Spec == Init /\ [][Next]_vars

\* The job runner runs what is queued, and a reconciliation's calls return.
Fairness ==
  \A j \in Installs :
    WF_vars(Ask(j) \/ NothingBuilt(j) \/ Ambiguous(j) \/ Found(j)
            \/ Look(j) \/ File(j) \/ Answer(j))

FairSpec == Spec /\ Fairness

-----------------------------------------------------------------------------
(* Safety.                                                                 *)

\* A container that an install at work beside j was told to build, and j was not.
ToldToAnother(j, c) == pin[j] = NoId /\ \E k \in overlap[j] \ {j} : pin[k] = c

\* An install files at most one container as its app, however often it is
\* checked and wherever the process died between the two commits; two only if
\* one of them was another's to build, which an install may take for its own.
OneRecord ==
  \A c, d \in Ids : app[c] \in Installs /\ app[c] = app[d] =>
    c = d \/ ToldToAnother(app[c], c) \/ ToldToAnother(app[c], d)

\* An install that has filed an app has succeeded, or will be found to have:
\* it is never on record as failed, canceled or interrupted, unless what it
\* filed was another's to build.
FiledIsSettled ==
  \A c \in Ids : app[c] \in Installs =>
    job[app[c]] \in {"running", "unknown", "succeeded"} \/ ToldToAnother(app[c], c)

\* What is on record as installed is there to be opened: there is an app for
\* the container a successful install names.
SuccessIsTracked ==
  \A j \in Installs : job[j] = "succeeded" =>
    result[j] # NoId /\ Tracked(result[j]) /\ result[j] \in Present

\* Operators who pin distinct ids get what they asked for: the container an
\* install succeeded with is the one its own script built.
Attributed ==
  (\A j, k \in Installs :
     j # k /\ job[j] # "none" /\ job[k] # "none" => pin[j] # NoId /\ pin[j] # pin[k]) =>
    \A j \in Installs : job[j] = "succeeded" => maker[result[j]] = j

\* A check does not take what an overlapping install was told to build.
OverlapExcluded ==
  \A j \in Installs : rec[j] \in {"looking", "filing", "filed"} =>
    \A k \in overlap[j] \ {j} : pin[k] = pick[j] => pin[j] = pick[j]

\* The rows of jobs and apps tell the same story of every install, and no check
\* is under way that would contradict it.
RecordsAgree == TypeOK /\ FiledIsSettled /\ SuccessIsTracked /\ OverlapExcluded

(* Liveness.                                                               *)

\* While the node answers, an install that ended `unknown` gets an answer,
\* also when the process died between filing the app and saying so.
UnknownAnswered == \A j \in Installs : job[j] = "unknown" ~> job[j] # "unknown"

(* What a docstring says and other installs at work refute.                *)

\* appstore.py:540-542: guessing "would either orphan a container or claim one
\* that belongs to another job".  Three installs are enough for two records.
OneAppEach == \A c, d \in Ids : app[c] \in Installs /\ app[c] = app[d] => c = d

\* appstore.py:538-542: a check never claims a container "that belongs to
\* another job".
CheckClaimsOwn ==
  \A j \in Installs : rec[j] \in {"filing", "filed"} => maker[pick[j]] = j
=============================================================================
