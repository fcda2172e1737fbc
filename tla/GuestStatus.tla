----------------------------- MODULE GuestStatus -----------------------------
(***************************************************************************)
(* What Proxploy says a guest is doing (pollers/__init__.py,               *)
(* services/lifecycle.py).  Three readings of one fact meet here: the bulk *)
(* list a poll cycle takes and files later, the targeted read a lifecycle  *)
(* action makes of its own guest, and the sweep that calls every guest of  *)
(* a silent host unknown.  A cycle that outlives its time limit goes on in *)
(* its thread.  The API puts a hold over the filed status while an action  *)
(* is under way or not yet seen to have worked.                            *)
(*                                                                         *)
(* One host with its poll loop.  Time is a set of events: an interval or a *)
(* back-off ends, a window measured from a job's stamps closes.            *)
(***************************************************************************)
EXTENDS Naturals, FiniteSets

CONSTANTS Guests,        \* containers behind app rows, and VMs
          Apps,          \* the containers
          Away,          \* guests that live on the cluster's other node
          Acted,         \* guests that jobs and outsiders act on (a bound)
          Jobs,          \* numbers of the lifecycle jobs, in order of enqueueing
          Verbs,         \* \subseteq {"start", "stop", "uninstall"}
          MaxMishaps,    \* outside changes, outages, late cycles and restarts
          BlindVanish    \* may a member vanish while /cluster/status is refused?

ASSUME GuestAssumption ==
  /\ Guests # {} /\ Apps \subseteq Guests /\ Away \cup Acted \subseteq Guests
  /\ Jobs \subseteq Nat
ASSUME VerbAssumption == Verbs \subseteq {"start", "stop", "uninstall"}
ASSUME MishapAssumption == MaxMishaps \in Nat /\ BlindVanish \in BOOLEAN

VARIABLES
  truth,     \* what each guest is: "running", "stopped" or "gone"
  listed,    \* what /cluster/resources would say of it; follows truth
  up,        \* the host answers
  member,    \* the other node: "online", listed "offline", or "vanished"
  row,       \* guests with a row in the database
  status,    \* App.status_cached, Vm.status
  missing,   \* App.missing_since: none, counting, or older than APP_REAP_AFTER_S
  host,      \* Host.status
  loop,      \* where _host_loop is
  wake,      \* its wake event
  cycle,     \* the poll threads: the awaited one and the one given up
  job,       \* lifecycle jobs
  task,      \* what each job has Proxmox doing
  mishaps

pveVars == <<truth, listed, up, member>>
dbVars == <<row, status, missing, host>>
pollVars == <<loop, wake, cycle>>
jobVars == <<job, task>>
vars == <<pveVars, dbVars, pollVars, jobVars, mishaps>>

Known == {"running", "stopped"}
Threads == {"awaited", "late"}
NoCycle == [pc |-> "off", seen |-> [g \in Guests |-> "absent"], trust |-> FALSE,
            fresh |-> {}, rows |-> {}, loaded |-> [g \in Guests |-> "unknown"]]
Cycle == [pc : {"off", "asking", "read", "filing"},
          seen : [Guests -> Known \cup {"absent"}],
          trust : BOOLEAN,            \* its absences are evidence
          fresh : SUBSET Guests,      \* freshly_confirmed when it began to file,
          rows : SUBSET Guests,       \* and the rows as they were then
          loaded : [Guests -> Known \cup {"unknown"}]]
NoJob == [st |-> "none", guest |-> CHOOSE g \in Guests : TRUE, verb |-> "start",
          seen |-> "none", fresh |-> FALSE, tier |-> "hold"]
Active == {"queued", "running", "task", "destroy", "forget", "observe", "settle", "returned"}
Job == [st : Active \cup {"none", "succeeded", "ended"},
        guest : Guests, verb : Verbs \cup {"start"},
        seen : {"none", "want", "other"},   \* what its last targeted read said
        fresh : BOOLEAN,                    \* finished under FRESH_OBSERVATION_S ago
        tier : {"hold", "error", "forgotten"}]   \* LIFECYCLE_HOLD_S, and twice it

TypeOK ==
  /\ truth \in [Guests -> Known \cup {"gone"}] /\ listed \in [Guests -> Known \cup {"gone"}]
  /\ up \in BOOLEAN /\ member \in {"online", "offline", "vanished"}
  /\ row \subseteq Guests /\ status \in [Guests -> Known \cup {"unknown"}]
  /\ missing \in [Guests -> {"no", "counting", "due"}]
  /\ host \in {"connected", "unreachable"}
  /\ loop \in {"ready", "cycle", "mark", "wait", "backoff"} /\ wake \in BOOLEAN
  /\ cycle \in [Threads -> Cycle]
  /\ job \in [Jobs -> Job]
  /\ task \in [Jobs -> {"none", "start", "stop", "destroy"}]
  /\ mishaps \in 0..MaxMishaps

Init ==
  /\ truth \in [Guests -> Known] /\ listed = truth
  /\ \A g \in Guests \ Acted : truth[g] = "running"
  /\ up = TRUE /\ member = "online"
  /\ row \in {Guests, Apps}      \* VMs may not have been polled yet
  /\ status = [g \in Guests |-> IF g \in row THEN truth[g] ELSE "unknown"]
  /\ missing = [g \in Guests |-> "no"]
  /\ host = "connected"
  /\ loop = "ready" /\ wake = FALSE
  /\ cycle = [t \in Threads |-> NoCycle]
  /\ job = [j \in Jobs |-> NoJob] /\ task = [j \in Jobs |-> "none"]
  /\ mishaps = 0

\* RESULT_STATUS
Want(verb) == IF verb = "start" THEN "running" ELSE "stopped"

-----------------------------------------------------------------------------
(* The cluster.                                                            *)

Mishap == mishaps < MaxMishaps /\ mishaps' = mishaps + 1

\* Somebody acts in the Proxmox UI.
OutsideChange(g) ==
  /\ Mishap /\ g \in Acted /\ truth[g] \in Known
  /\ \E s \in (Known \cup {"gone"}) \ {truth[g]} : truth' = [truth EXCEPT ![g] = s]
  /\ UNCHANGED <<listed, up, member, dbVars, pollVars, jobVars>>

Outage == /\ Mishap /\ up /\ up' = FALSE
          /\ UNCHANGED <<truth, listed, member, dbVars, pollVars, jobVars>>
Answers == /\ ~up /\ up' = TRUE
           /\ UNCHANGED <<truth, listed, member, dbVars, pollVars, jobVars, mishaps>>

MemberLeaves ==
  /\ Mishap /\ member = "online" /\ member' \in {"offline", "vanished"}
  /\ UNCHANGED <<truth, listed, up, dbVars, pollVars, jobVars>>
MemberReturns ==
  /\ member # "online" /\ member' = "online"
  /\ UNCHANGED <<truth, listed, up, dbVars, pollVars, jobVars, mishaps>>

\* PVE's own status cache catches up.
ListCatchesUp(g) ==
  /\ listed[g] # truth[g] /\ listed' = [listed EXCEPT ![g] = truth[g]]
  /\ UNCHANGED <<truth, up, member, dbVars, pollVars, jobVars, mishaps>>

\* A task PVE accepted ends, whatever became of the job: done, or failed.  A
\* running container is not destroyed.
Effect(g, what) ==
  IF what = "destroy" THEN IF truth[g] = "stopped" THEN "gone" ELSE truth[g]
  ELSE IF truth[g] = "gone" THEN "gone" ELSE Want(what)
TaskEnds(j) ==
  LET g == job[j].guest IN
  /\ task[j] # "none"
  /\ task' = [task EXCEPT ![j] = "none"]
  /\ \/ /\ truth' = [truth EXCEPT ![g] = Effect(g, task[j])]
        /\ IF truth'[g] = (IF task[j] = "destroy" THEN "gone" ELSE Want(task[j]))
           THEN UNCHANGED job
           ELSE job' = [job EXCEPT ![j].st = IF @ = "destroy" THEN "ended" ELSE @]
     \/ /\ UNCHANGED truth
        /\ job' = [job EXCEPT ![j].st =
             IF @ = "destroy" \/ (@ = "task" /\ job[j].verb # "uninstall") THEN "ended" ELSE @]
  /\ UNCHANGED <<listed, up, member, dbVars, pollVars, mishaps>>

-----------------------------------------------------------------------------
(* The poll loop: _host_loop, _poll_once, ingest_cycle, _mark_unreachable. *)

Succeeded(g) == {j \in Jobs : job[j].st = "succeeded" /\ job[j].guest = g
                              /\ job[j].verb # "uninstall"}
Newest(S) == CHOOSE j \in S : \A k \in S : k <= j
ClosingSeen(g) == {j \in Succeeded(g) : job[j].fresh}

\* freshly_confirmed: the newest action that finished moments ago got what it
\* asked for, as far as the column says.
BugFreshlyConfirmed ==
  {g \in Guests : Succeeded(g) # {} /\ status[g] = Want(job[Newest(Succeeded(g))].verb)}
FreshlyConfirmed ==
  {g \in Guests : ClosingSeen(g) # {} /\ status[g] = Want(job[Newest(ClosingSeen(g))].verb)}

StartCycle ==
  /\ loop = "ready" /\ loop' = "cycle"
  /\ cycle' = [cycle EXCEPT !["awaited"] = [NoCycle EXCEPT !.pc = "asking"]]
  /\ UNCHANGED <<pveVars, dbVars, wake, jobVars, mishaps>>

\* What the list shows of a guest.
Shows(g) == IF listed[g] = "gone" \/ (g \in Away /\ member # "online")
            THEN "absent" ELSE listed[g]

\* _absence_is_trustworthy, with the member count of /cluster/status.
BugTrustworthy(degraded, counted) == ~degraded
Trustworthy(degraded, counted) ==
  ~degraded /\ member # "offline" /\ (member = "vanished" => ~counted)

\* The host answers with its list, and with or without the optional rest.
TakeList(t) ==
  /\ cycle[t].pc = "asking" /\ up
  /\ \E degraded \in BOOLEAN, counted \in BOOLEAN :
       /\ member = "vanished" /\ ~counted => BlindVanish
       /\ cycle' = [cycle EXCEPT ![t].pc = "read",
                      ![t].seen = [g \in Guests |-> Shows(g)],
                      ![t].trust = Trustworthy(degraded, counted)]
  /\ UNCHANGED <<pveVars, dbVars, loop, wake, jobVars, mishaps>>

\* The first request fails: the cycle raises.
NoAnswer(t) ==
  /\ cycle[t].pc = "asking" /\ ~up
  /\ cycle' = [cycle EXCEPT ![t] = NoCycle]
  /\ loop' = IF t = "awaited" THEN "mark" ELSE loop
  /\ UNCHANGED <<pveVars, dbVars, wake, jobVars, mishaps>>

\* ingest_cycle begins: which guests have a newer reading, and what do the
\* rows hold?
BeginFiling(t) ==
  /\ cycle[t].pc = "read"
  /\ cycle' = [cycle EXCEPT ![t].pc = "filing", ![t].fresh = FreshlyConfirmed,
                            ![t].rows = row, ![t].loaded = status]
  /\ UNCHANGED <<pveVars, dbVars, loop, wake, jobVars, mishaps>>

\* The rows a cycle removes: VMs at once, apps once the countdown is over.
Reaped(c) == {g \in c.rows : /\ c.seen[g] = "absent" /\ c.trust
                             /\ g \in Apps => missing[g] = "due"}
\* VMs it sees for the first time.
NewVms(c) == {g \in Guests \ (Apps \cup c.rows) : c.seen[g] # "absent"}
\* The status it gives a row: an absent VM keeps its own, an absent app is
\* unknown, and a guest with a newer reading keeps that.
Filed(c, g) ==
  IF c.seen[g] = "absent" THEN IF g \in Apps THEN "unknown" ELSE c.loaded[g]
  ELSE IF g \in c.fresh THEN c.loaded[g] ELSE c.seen[g]
Counted(c, g) ==
  IF g \notin Apps \/ c.seen[g] # "absent" THEN "no"
  ELSE IF c.trust /\ missing[g] = "no" THEN "counting" ELSE missing[g]

\* Rows it has to write are still there, rows it adds are not there yet.
Fits(c) == c.rows \ Reaped(c) \subseteq row /\ NewVms(c) \cap row = {}

\* ... and commits: a column it did not change is not written.
File(t) ==
  LET c == cycle[t]
      kept == (row \ Reaped(c)) \cup NewVms(c) IN
  /\ c.pc = "filing" /\ Fits(c)
  /\ row' = kept
  /\ status' = [g \in Guests |->
       IF g \in NewVms(c) THEN c.seen[g]
       ELSE IF g \notin kept THEN "unknown"
       ELSE IF g \in c.rows /\ Filed(c, g) # c.loaded[g] THEN Filed(c, g) ELSE status[g]]
  /\ missing' = [g \in Guests |-> IF g \in c.rows \cap kept THEN Counted(c, g)
                                 ELSE IF g \in kept THEN missing[g] ELSE "no"]
  /\ host' = "connected"
  /\ cycle' = [cycle EXCEPT ![t] = NoCycle]
  /\ loop' = IF t = "awaited" THEN "wait" ELSE loop
  /\ UNCHANGED <<pveVars, wake, jobVars, mishaps>>

\* Otherwise the flush raises, and nothing of the cycle is kept.
FilingFails(t) ==
  LET c == cycle[t] IN
  /\ c.pc = "filing" /\ ~Fits(c)
  /\ cycle' = [cycle EXCEPT ![t] = NoCycle]
  /\ loop' = IF t = "awaited" THEN "mark" ELSE loop
  /\ UNCHANGED <<pveVars, dbVars, wake, jobVars, mishaps>>

\* wait_for runs out; the thread does not hear of it.
GiveUp ==
  /\ Mishap /\ loop = "cycle" /\ cycle["late"].pc = "off"
  /\ cycle' = [cycle EXCEPT !["late"] = cycle["awaited"], !["awaited"] = NoCycle]
  /\ loop' = "mark"
  /\ UNCHANGED <<pveVars, dbVars, wake, jobVars>>

MarkUnreachable ==
  /\ loop = "mark" /\ loop' = "backoff"
  /\ host' = "unreachable"
  /\ status' = [g \in Guests |-> "unknown"]
  /\ UNCHANGED <<pveVars, row, missing, wake, cycle, jobVars, mishaps>>

\* The interval is over, or the wake cut it short; a back-off is not cut short.
\* Either way the event is cleared.
Rest ==
  /\ loop \in {"wait", "backoff"} /\ loop' = "ready" /\ wake' = FALSE
  /\ UNCHANGED <<pveVars, dbVars, cycle, jobVars, mishaps>>

\* Fifteen minutes of absence.
AbsenceAges(g) ==
  /\ missing[g] = "counting" /\ missing' = [missing EXCEPT ![g] = "due"]
  /\ UNCHANGED <<pveVars, row, status, host, pollVars, jobVars, mishaps>>

-----------------------------------------------------------------------------
(* Lifecycle actions: the routes' enqueue, run_lifecycle,                  *)
(* run_app_uninstall.                                                      *)

Step(j, from, to) == job[j].st = from /\ job' = [job EXCEPT ![j].st = to]

Enqueue(j, g, verb) ==
  /\ job[j].st = "none" /\ \A k \in Jobs : k < j => job[k].st # "none"
  /\ g \in row \cap Acted /\ (verb = "uninstall" => g \in Apps)
  /\ job' = [job EXCEPT ![j] = [NoJob EXCEPT !.st = "queued", !.guest = g, !.verb = verb]]
  /\ UNCHANGED <<pveVars, dbVars, pollVars, task, mishaps>>

Begin(j) == /\ Step(j, "queued", IF job[j].guest \in row THEN "running" ELSE "ended")
            /\ UNCHANGED <<pveVars, dbVars, pollVars, task, mishaps>>

\* The status POST: accepted, refused because there is nothing to stop (which
\* is what was asked for), or failed.
Post(j) ==
  LET g == job[j].guest IN
  \/ /\ up /\ truth[g] \in Known /\ ~(job[j].verb # "start" /\ truth[g] = "stopped")
     /\ Step(j, "running", "task")
     /\ task' = [task EXCEPT ![j] = IF job[j].verb = "start" THEN "start" ELSE "stop"]
     /\ UNCHANGED <<pveVars, dbVars, pollVars, mishaps>>
  \/ /\ up /\ truth[g] = "stopped" /\ job[j].verb = "stop"
     /\ Step(j, "running", "returned")
     /\ wake' = TRUE
     /\ UNCHANGED <<pveVars, dbVars, loop, cycle, task, mishaps>>
  \/ /\ ~up \/ truth[g] = "gone" \/ (job[j].verb = "uninstall" /\ truth[g] = "stopped")
     /\ Step(j, "running", IF job[j].verb = "uninstall" THEN "task" ELSE "ended")
     /\ UNCHANGED <<pveVars, dbVars, pollVars, task, mishaps>>

\* await_task: the task ended well, or for an uninstall's stop ended at all.
TaskSeen(j) ==
  /\ task[j] = "none"
  /\ \/ Step(j, "task", "observe") /\ job[j].verb # "uninstall" /\ UNCHANGED task
     \/ /\ job[j].verb = "uninstall"
        /\ Step(j, "task", IF up THEN "destroy" ELSE "ended")
        /\ task' = [task EXCEPT ![j] = IF up THEN "destroy" ELSE "none"]
     \/ Step(j, "destroy", "forget") /\ UNCHANGED task
  /\ UNCHANGED <<pveVars, dbVars, pollVars, mishaps>>

\* _record_observed: one guest, asked directly; the answer may still be the
\* one from before the action.  _observe_until asks again or runs out of time.
Observe(j) ==
  LET g == job[j].guest IN
  /\ job[j].st = "observe"
  /\ \/ /\ up /\ g \in row
        /\ \E answer \in {truth[g], listed[g]} \cap Known :
             /\ status' = [status EXCEPT ![g] = answer]
             /\ IF answer = Want(job[j].verb)
                THEN job' = [job EXCEPT ![j].st = "settle", ![j].seen = "want"]
                ELSE job' = [job EXCEPT ![j].seen = "other"]
     \/ /\ ~up \/ g \notin row \/ truth[g] = "gone" \/ job[j].seen = "other"
        /\ job' = [job EXCEPT ![j].st = "settle"]
        /\ UNCHANGED status
  /\ UNCHANGED <<pveVars, row, missing, host, pollVars, task, mishaps>>

\* SETTLE_DELAY_S is over: the poller is woken unless the read said it all.
Asked(j) == job[j].seen # "want"

Settle(j) ==
  /\ Step(j, "settle", "returned")
  /\ wake' = (wake \/ Asked(j))
  /\ UNCHANGED <<pveVars, dbVars, loop, cycle, task, mishaps>>

\* The row goes once the container is gone.
Forget(j) ==
  LET g == job[j].guest IN
  /\ Step(j, "forget", "returned")
  /\ row' = row \ {g} /\ status' = [status EXCEPT ![g] = "unknown"]
  /\ missing' = [missing EXCEPT ![g] = "no"]
  /\ wake' = (wake \/ g \in row)
  /\ UNCHANGED <<pveVars, host, loop, cycle, task, mishaps>>

\* The runner files the result.
Succeed(j) ==
  /\ job[j].st = "returned"
  /\ job' = [job EXCEPT ![j].st = "succeeded", ![j].fresh = TRUE]
  /\ UNCHANGED <<pveVars, dbVars, pollVars, task, mishaps>>

\* Cancelled, or the task outlived the wait: what PVE was asked to do goes on.
Abandon(j) ==
  /\ job[j].st \in Active \ {"queued", "returned"}
  /\ job' = [job EXCEPT ![j].st = "ended"]
  /\ UNCHANGED <<pveVars, dbVars, pollVars, task, mishaps>>

\* Fifteen seconds since it finished; five and ten minutes since it began.
FreshEnds(j) ==
  /\ job[j].st = "succeeded" /\ job[j].fresh
  /\ job' = [job EXCEPT ![j].fresh = FALSE]
  /\ UNCHANGED <<pveVars, dbVars, pollVars, task, mishaps>>
Ages(j) ==
  /\ job[j].st \notin {"none", "queued", "ended"} /\ job[j].tier # "forgotten"
  /\ job' = [job EXCEPT ![j].tier = IF @ = "hold" THEN "error" ELSE "forgotten"]
  /\ UNCHANGED <<pveVars, dbVars, pollVars, task, mishaps>>

\* A new process: its poll starts afresh, and the boot files what was running.
Restart ==
  /\ Mishap
  /\ loop' = "ready" /\ wake' = FALSE /\ cycle' = [t \in Threads |-> NoCycle]
  /\ job' = [j \in Jobs |-> IF job[j].st \in Active
                            THEN [job[j] EXCEPT !.st = "ended"] ELSE job[j]]
  /\ UNCHANGED <<pveVars, dbVars, task>>

-----------------------------------------------------------------------------
Thread(t) == TakeList(t) \/ NoAnswer(t) \/ BeginFiling(t) \/ File(t) \/ FilingFails(t)
Poll == \/ StartCycle \/ MarkUnreachable \/ Rest
        \/ \E t \in Threads : Thread(t)
Act(j) == \/ Begin(j) \/ Post(j) \/ TaskSeen(j) \/ Observe(j) \/ Settle(j) \/ Forget(j)
          \/ Succeed(j)
Clock == \/ \E g \in Guests : AbsenceAges(g)
         \/ \E j \in Jobs : FreshEnds(j) \/ Ages(j)
Next ==
  \/ \E g \in Guests : OutsideChange(g) \/ ListCatchesUp(g)
  \/ Outage \/ Answers \/ MemberLeaves \/ MemberReturns
  \/ Poll \/ GiveUp \/ Restart \/ Clock
  \/ \E j \in Jobs : Act(j) \/ TaskEnds(j) \/ Abandon(j)
  \/ \E j \in Jobs, g \in Guests, verb \in Verbs : Enqueue(j, g, verb)

\* The loop, its threads and the jobs run on; PVE's cache catches up, its
\* tasks end and its outages too; the clock runs.
Fairness ==
  /\ WF_vars(Poll) /\ WF_vars(Answers) /\ WF_vars(MemberReturns)
  /\ \A t \in Threads : WF_vars(Thread(t))
  /\ \A g \in Guests : WF_vars(ListCatchesUp(g))
  /\ \A j \in Jobs : WF_vars(Act(j)) /\ WF_vars(TaskEnds(j)) /\ WF_vars(FreshEnds(j)) /\ WF_vars(Ages(j))
Spec == Init /\ [][Next]_vars /\ Fairness

-----------------------------------------------------------------------------
(* What the API answers, and what it promises.                             *)

\* busy_guests over the column (_app_out, _vm_out).
Held(g) ==
  LET flying == {j \in Jobs : job[j].guest = g /\ job[j].st \in Active
                              /\ (job[j].st = "queued" \/ job[j].tier = "hold")}
      filed == {j \in Succeeded(g) : job[j].tier # "forgotten"} IN
  IF \E j \in flying : job[j].verb = "uninstall" THEN "removing"
  ELSE IF flying # {} THEN "pending"
  ELSE IF filed = {} \/ status[g] = Want(job[Newest(filed)].verb) THEN "no"
  ELSE IF job[Newest(filed)].tier = "hold" THEN "pending" ELSE "error"
Shown(g) == IF Held(g) = "no" THEN status[g] ELSE Held(g)

\* Once the outside world has calmed down, the host reads connected and the API
\* shows every guest that exists as what it is: no hold, no confirmed reading,
\* no back-off and no thread left over keeps it wrong for good.
ShownSettles ==
  <>[](host = "connected" /\ \A g \in row : truth[g] \in Known => Shown(g) = truth[g])

\* A row disappears only when its guest has: never because its node was down,
\* its host silent or a reading partial.
RemovedWasGone == ([]TypeOK) /\ [][\A g \in row \ row' : truth[g] = "gone"]_vars

\* "The hold lifts on an OBSERVATION, so without asking for one now the guest
\* spins for the rest of the cycle": an action filed as succeeded has its guest
\* read as asked, a wake pending, or a cycle on its way.
HeldIsWoken ==
  [][\A j \in Jobs : Succeed(j) /\ job[j].verb # "uninstall" =>
       \/ status[job[j].guest] = Want(job[j].verb) \/ wake \/ loop # "wait"]_vars
=============================================================================
