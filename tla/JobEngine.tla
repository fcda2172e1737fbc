------------------------------ MODULE JobEngine ------------------------------
(***************************************************************************)
(* backend/proxploy/jobs/backend.py (class JobBackend) with the cancel     *)
(* route of api/jobs.py: the in-process job runner, its SQLite rows, the   *)
(* threads that call it and the process restarts it has to survive.        *)
(*                                                                         *)
(* Three kinds of actor interleave:                                        *)
(*   - the event loop, which runs one callback or task step at a time and  *)
(*     to completion (each of its actions is one such step);               *)
(*   - threadpool threads inside enqueue() and cancel(), preemptible       *)
(*     between any two reads or writes of the backend's dictionaries;      *)
(*   - the process itself, which may die anywhere or stop gracefully, and  *)
(*     is then booted again.                                               *)
(*                                                                         *)
(* The loop's ready queue is FIFO.  What that order is needed for is kept  *)
(* as guards: `call_soon_threadsafe(task.cancel)` can only have been       *)
(* queued after _spawn stored the task, hence after create_task queued the *)
(* task's first step, so a cancel callback never precedes that step.       *)
(***************************************************************************)
EXTENDS Naturals, FiniteSets, SequencesExt

CONSTANTS
  Jobs,            \* job ids
  KindOf,          \* the kind each id is enqueued with
  Clients,         \* threads serving POST /jobs/{id}/cancel
  MaxConcurrent,   \* MAX_CONCURRENT, the size of the pool
  MaxRestarts,     \* bound: how many times the process dies and is booted
  NoJob            \* no job

ASSUME KindAssumption == KindOf \in [Jobs -> {"plain", "install", "reconcile"}]
ASSUME PoolAssumption == MaxConcurrent \in Nat \ {0}
ASSUME RestartsAssumption == MaxRestarts \in Nat
ASSUME FiniteAssumption == IsFiniteSet(Jobs)
ASSUME NoJobAssumption == NoJob \notin Jobs

VARIABLES
  \* the database and the disk: these survive the process
  row,          \* jobs.status, "none" while the id has no row
  about,        \* a reconcile job's params.job_id
  dispatched,   \* jobs whose checkpoint says dispatched
  started,      \* jobs whose started_at is set
  spool,        \* jobs whose staged spool_path file is on disk
  \* the process
  phase,        \* "down", "boot", "serving" or "stopping"
  lives,        \* how many processes have died
  todo,         \* jobs the loop is inside _reconcile_after for
  enq,          \* where enqueue() is for each job
  spawnq,       \* call_soon'd _spawn callbacks
  at,           \* where each job's task is
  cancelSig,    \* jobs whose task has a CancelledError coming
  cancelq,      \* call_soon'd task.cancel callbacks
  waiters,      \* the semaphore's FIFO of waiting tasks
  recording,    \* reconcile jobs whose recording thread is at work
  pending,      \* _pending
  cancelReq,    \* _cancel_requested
  tasks,        \* keys of _tasks
  done,         \* keys of _done
  cl            \* each client's position in cancel_job, and its job

dbVars    == <<row, about, dispatched, started, spool>>
lifeVars  == <<phase, lives>>
bookVars  == <<pending, cancelReq, tasks, done>>
loopVars  == <<todo, spawnq, at, cancelSig, cancelq, waiters, recording>>
vars == <<dbVars, lifeVars, bookVars, loopVars, enq, cl>>

Terminal == {"succeeded", "failed", "canceled", "interrupted", "unknown"}
Statuses == {"none", "queued", "running"} \cup Terminal

Idle == [pc |-> "idle", job |-> NoJob]

TypeOK ==
  /\ row \in [Jobs -> Statuses]
  /\ about \in [Jobs -> Jobs \cup {NoJob}]
  /\ dispatched \subseteq Jobs /\ started \subseteq Jobs
  /\ spool \subseteq Jobs
  /\ phase \in {"down", "boot", "serving", "stopping"}
  /\ lives \in 0..MaxRestarts
  /\ todo \subseteq Jobs
  /\ enq \in [Jobs -> {"none", "committed", "pended"}]
  /\ spawnq \subseteq Jobs
  /\ at \in [Jobs -> {"none", "created", "acquiring", "granted", "handler", "ended"}]
  /\ cancelSig \subseteq Jobs /\ cancelq \subseteq Jobs
  /\ waiters \in Seq(Jobs)
  /\ recording \subseteq Jobs
  /\ pending \subseteq Jobs /\ cancelReq \subseteq Jobs
  /\ tasks \subseteq Jobs /\ done \subseteq Jobs
  /\ cl \in [Clients -> [pc : {"idle", "checked", "sawTask", "noTask",
                               "sawPending", "refused"},
                         job : Jobs \cup {NoJob}]]

Init ==
  /\ row = [j \in Jobs |-> "none"]
  /\ about = [j \in Jobs |-> NoJob]
  /\ dispatched = {} /\ started = {} /\ spool = {}
  /\ phase = "serving" /\ lives = 0
  /\ todo = {} /\ spawnq = {} /\ cancelSig = {} /\ cancelq = {}
  /\ waiters = <<>> /\ recording = {}
  /\ enq = [j \in Jobs |-> "none"]
  /\ at = [j \in Jobs |-> "none"]
  /\ pending = {} /\ cancelReq = {} /\ tasks = {} /\ done = {}
  /\ cl = [c \in Clients |-> Idle]

-----------------------------------------------------------------------------
Unused == {j \in Jobs : row[j] = "none"}
Reconcilers == {j \in Jobs : KindOf[j] = "reconcile"}
HasReconciler(j) == KindOf[j] = "install"

\* The tasks that hold a slot of the semaphore.
Holders == {j \in Jobs : at[j] \in {"granted", "handler"}}

\* This process still has something to do for the job.
Owned(j) == \/ enq[j] # "none"
            \/ j \in spawnq
            \/ at[j] \in {"created", "acquiring", "granted", "handler"}

\* The loop is not in the middle of a synchronous _reconcile_after.
LoopFree ==
  /\ phase \in {"serving", "stopping"}
  /\ todo = {}
  /\ \A r \in Reconcilers : enq[r] = "none"

-----------------------------------------------------------------------------
(* enqueue(): commit the row, then note it in _pending and _done, then     *)
(* hand _spawn to the loop.  A route calls it from a thread.               *)

Commit(j, subject, staged) ==
  /\ row' = [row EXCEPT ![j] = "queued"]
  /\ about' = [about EXCEPT ![j] = subject]
  /\ spool' = IF staged THEN spool \cup {j} ELSE spool
  /\ enq' = [enq EXCEPT ![j] = "committed"]

EnqueueCommit(j) ==
  /\ phase = "serving"
  /\ j \in Unused \ Reconcilers
  /\ \E staged \in BOOLEAN :
       /\ staged => KindOf[j] = "plain"
       /\ Commit(j, NoJob, staged)
  /\ UNCHANGED <<dispatched, started, lifeVars, bookVars, loopVars, cl>>

EnqueuePend(j) ==
  /\ enq[j] = "committed"
  /\ enq' = [enq EXCEPT ![j] = "pended"]
  /\ pending' = pending \cup {j}
  /\ done' = done \cup {j}
  /\ UNCHANGED <<dbVars, lifeVars, loopVars, cancelReq, tasks, cl>>

EnqueueSend(j) ==
  /\ enq[j] = "pended"
  /\ enq' = [enq EXCEPT ![j] = "none"]
  /\ spawnq' = spawnq \cup {j}
  /\ UNCHANGED <<dbVars, lifeVars, bookVars, todo, at, cancelSig, cancelq,
                 waiters, recording, cl>>

\* _reconcile_after: the loop enqueues the reconciliation of j itself.
ReconcileAfter(j) ==
  /\ j \in todo
  /\ \A r \in Reconcilers : enq[r] = "none"
  /\ todo' = todo \ {j}
  /\ \E r \in Reconcilers \cap Unused : Commit(r, j, FALSE)
  /\ UNCHANGED <<dispatched, started, lifeVars, bookVars, spawnq, at,
                 cancelSig, cancelq, waiters, recording, cl>>

-----------------------------------------------------------------------------
(* The loop: _spawn, _run and _finish.                                     *)

Spawn(j) ==
  /\ LoopFree
  /\ j \in spawnq
  /\ spawnq' = spawnq \ {j}
  /\ pending' = pending \ {j}
  /\ tasks' = tasks \cup {j}
  /\ at' = [at EXCEPT ![j] = "created"]
  /\ UNCHANGED <<dbVars, lifeVars, cancelReq, done, todo, cancelSig, cancelq,
                 waiters, recording, enq, cl>>

\* Semaphore.locked(): a newcomer queues behind those already waiting.
PoolFull == waiters # <<>> \/ Cardinality(Holders) >= MaxConcurrent

\* The task's coroutine returns; a slot it held goes to the first waiter.
BugEndTask(j) == at' = [at EXCEPT ![j] = "ended"] /\ UNCHANGED waiters
EndTask(j) ==
  IF j \in Holders /\ waiters # <<>>
  THEN /\ at' = [at EXCEPT ![j] = "ended", ![Head(waiters)] = "granted"]
       /\ waiters' = Tail(waiters)
  ELSE /\ at' = [at EXCEPT ![j] = "ended"]
       /\ UNCHANGED waiters

\* _run's finally unlinks the spool file and forgets the job.
Forget(j) ==
  /\ spool' = spool \ {j}
  /\ tasks' = tasks \ {j}
  /\ done' = done \ {j}

\* _finish writes the status whatever the row says now.
Finish(j, status) ==
  /\ row' = [row EXCEPT ![j] = status]
  /\ todo' = IF status = "unknown" /\ HasReconciler(j) THEN todo \cup {j} ELSE todo
  /\ cancelSig' = cancelSig \ {j}
  /\ EndTask(j)
  /\ Forget(j)

\* _set_running, then the handler is called.
EnterHandler(j) ==
  /\ row' = [row EXCEPT ![j] = "running"]
  /\ started' = started \cup {j}
  /\ at' = [at EXCEPT ![j] = "handler"]

\* The first step of a task that stop() cancelled before it ever ran: the
\* CancelledError is raised outside _run's try, so nothing is written.
StillBorn(j) ==
  /\ LoopFree
  /\ at[j] = "created" /\ j \in cancelSig
  /\ at' = [at EXCEPT ![j] = "ended"]
  /\ cancelSig' = cancelSig \ {j}
  /\ UNCHANGED <<dbVars, lifeVars, bookVars, todo, spawnq, cancelq, waiters,
                 recording, enq, cl>>

\* The first step finds the job in _cancel_requested.
StartCanceled(j) ==
  /\ LoopFree
  /\ at[j] = "created" /\ j \notin cancelSig
  /\ j \in cancelReq
  /\ cancelReq' = cancelReq \ {j}
  /\ Finish(j, "canceled")
  /\ UNCHANGED <<about, dispatched, started, lifeVars, pending,
                 spawnq, cancelq, recording, enq, cl>>

\* The first step gets a slot at once and calls the handler.
StartRunning(j) ==
  /\ LoopFree
  /\ at[j] = "created" /\ j \notin cancelSig \cup cancelReq
  /\ ~PoolFull
  /\ EnterHandler(j)
  /\ UNCHANGED <<about, dispatched, spool, lifeVars, bookVars, todo,
                 spawnq, cancelSig, cancelq, waiters, recording, enq, cl>>

\* The first step finds the pool full and waits its turn.
StartWaiting(j) ==
  /\ LoopFree
  /\ at[j] = "created" /\ j \notin cancelSig \cup cancelReq
  /\ PoolFull
  /\ at' = [at EXCEPT ![j] = "acquiring"]
  /\ waiters' = Append(waiters, j)
  /\ UNCHANGED <<dbVars, lifeVars, bookVars, todo, spawnq, cancelSig, cancelq,
                 recording, enq, cl>>

\* A waiter that was handed a slot resumes.
Wake(j) ==
  /\ LoopFree
  /\ at[j] = "granted" /\ j \notin cancelSig
  /\ EnterHandler(j)
  /\ UNCHANGED <<about, dispatched, spool, lifeVars, bookVars, todo,
                 spawnq, cancelSig, cancelq, waiters, recording, enq, cl>>

\* CancelledError out of the acquire or out of the handler.
BugRunCanceled(j) ==
  /\ LoopFree
  /\ at[j] = "acquiring" /\ j \in cancelSig
  /\ at' = [at EXCEPT ![j] = "ended"]
  /\ UNCHANGED <<dbVars, lifeVars, bookVars, todo, spawnq, cancelSig, cancelq,
                 waiters, recording, enq, cl>>
RunCanceled(j) ==
  /\ LoopFree
  /\ at[j] \in {"acquiring", "granted", "handler"} /\ j \in cancelSig
  /\ Finish(j, "canceled")
  /\ UNCHANGED <<about, dispatched, started, lifeVars, pending,
                 cancelReq, spawnq, cancelq, recording, enq, cl>>

\* ctx.checkpoint(dispatched=True), committed before the command is sent.
HandlerDispatch(j) ==
  /\ LoopFree
  /\ at[j] = "handler" /\ j \notin cancelSig
  /\ KindOf[j] = "install" /\ j \notin dispatched
  /\ dispatched' = dispatched \cup {j}
  /\ UNCHANGED <<row, about, started, spool, lifeVars, bookVars,
                 loopVars, enq, cl>>

\* What the handler of a job of each kind can end with where it stands.
Outcomes(j) ==
  CASE KindOf[j] = "plain" -> {"succeeded", "failed"}
    [] KindOf[j] = "install" ->
         IF j \in dispatched THEN {"succeeded", "failed", "unknown"} ELSE {"failed"}
    [] KindOf[j] = "reconcile" ->
         IF row[about[j]] = "unknown" THEN {"failed"} ELSE {"succeeded"}

HandlerReturns(j) ==
  /\ LoopFree
  /\ at[j] = "handler" /\ j \notin cancelSig
  /\ j \notin recording
  /\ \E status \in Outcomes(j) : Finish(j, status)
  /\ UNCHANGED <<about, dispatched, started, lifeVars, pending,
                 cancelReq, spawnq, cancelq, recording, enq, cl>>

\* run_install_reconcile with no container found: _resolve_install_job.
ReconcileNothingBuilt(r) ==
  /\ LoopFree
  /\ at[r] = "handler" /\ r \notin cancelSig /\ r \notin recording
  /\ KindOf[r] = "reconcile"
  /\ row[about[r]] = "unknown"
  /\ row' = [row EXCEPT ![about[r]] = "failed"]
  /\ UNCHANGED <<about, dispatched, started, spool, lifeVars,
                 bookVars, loopVars, enq, cl>>

\* run_install_reconcile with one container found hands the bookkeeping to
\* a thread, which goes on even when the task is cancelled meanwhile.
ReconcileFound(r) ==
  /\ LoopFree
  /\ at[r] = "handler" /\ r \notin cancelSig
  /\ KindOf[r] = "reconcile"
  /\ row[about[r]] = "unknown"
  /\ recording' = recording \cup {r}
  /\ UNCHANGED <<dbVars, lifeVars, bookVars, todo, spawnq, at, cancelSig,
                 cancelq, waiters, enq, cl>>

\* That thread reaches _resolve_install_job, which is guarded on `unknown`.
RecordLands(r) ==
  /\ r \in recording
  /\ recording' = recording \ {r}
  /\ row' = IF row[about[r]] = "unknown"
            THEN [row EXCEPT ![about[r]] = "succeeded"] ELSE row
  /\ UNCHANGED <<about, dispatched, started, spool, lifeVars,
                 bookVars, todo, spawnq, at, cancelSig, cancelq, waiters, enq, cl>>

\* task.cancel(): a no-op on a task that is done; a waiter leaves the queue.
LoopCancel(j) ==
  /\ LoopFree
  /\ j \in cancelq /\ at[j] # "created"
  /\ cancelq' = cancelq \ {j}
  /\ cancelSig' = IF at[j] = "ended" THEN cancelSig ELSE cancelSig \cup {j}
  /\ \/ \E i \in DOMAIN waiters : waiters[i] = j /\ waiters' = RemoveAt(waiters, i)
     \/ (\A i \in DOMAIN waiters : waiters[i] # j) /\ UNCHANGED waiters
  /\ UNCHANGED <<dbVars, lifeVars, bookVars, todo, spawnq, at, recording, enq, cl>>

-----------------------------------------------------------------------------
(* POST /jobs/{id}/cancel, on a thread.                                    *)

CancelRead(c) ==
  /\ phase = "serving"
  /\ cl[c].pc = "idle"
  /\ \E j \in Jobs :
       /\ row[j] \in {"queued", "running"}
       /\ cl' = [cl EXCEPT ![c] = [pc |-> "checked", job |-> j]]
  /\ UNCHANGED <<dbVars, lifeVars, bookVars, loopVars, enq>>

Move(c, pc) == cl' = [cl EXCEPT ![c].pc = pc]

\* task = self._tasks.get(job_id)
CancelGetTask(c) ==
  /\ cl[c].pc = "checked"
  /\ Move(c, IF cl[c].job \in tasks THEN "sawTask" ELSE "noTask")
  /\ UNCHANGED <<dbVars, lifeVars, bookVars, loopVars, enq>>

\* A done task is refused; for any other, task.cancel is handed to the loop.
CancelTask(c) ==
  /\ cl[c].pc = "sawTask"
  /\ \/ /\ at[cl[c].job] = "ended"
        /\ Move(c, "refused")
        /\ UNCHANGED cancelq
     \/ /\ at[cl[c].job] # "ended"
        /\ cancelq' = cancelq \cup {cl[c].job}
        /\ cl' = [cl EXCEPT ![c] = Idle]
  /\ UNCHANGED <<dbVars, lifeVars, bookVars, todo, spawnq, at, cancelSig,
                 waiters, recording, enq>>

\* if job_id in self._pending
CancelCheckPending(c) ==
  /\ cl[c].pc = "noTask"
  /\ Move(c, IF cl[c].job \in pending THEN "sawPending" ELSE "refused")
  /\ UNCHANGED <<dbVars, lifeVars, bookVars, loopVars, enq>>

\* self._cancel_requested.add(job_id)
CancelNote(c) ==
  /\ cl[c].pc = "sawPending"
  /\ cancelReq' = cancelReq \cup {cl[c].job}
  /\ cl' = [cl EXCEPT ![c] = Idle]
  /\ UNCHANGED <<dbVars, lifeVars, pending, tasks, done, loopVars, enq>>

\* The backend said no: the route's own conditional UPDATE.
BugCancelable(j) == TRUE
Cancelable(j) == row[j] \notin Terminal
DirectStatus == "canceled"

CancelUpdate(c) ==
  /\ cl[c].pc = "refused"
  /\ row' = IF Cancelable(cl[c].job)
            THEN [row EXCEPT ![cl[c].job] = DirectStatus] ELSE row
  /\ cl' = [cl EXCEPT ![c] = Idle]
  /\ UNCHANGED <<about, dispatched, started, spool, lifeVars,
                 bookVars, loopVars, enq>>

-----------------------------------------------------------------------------
(* Process life.                                                           *)

\* The lifespan's shutdown half: JobBackend.stop(), reached once the server
\* has drained its requests.
Stop ==
  /\ phase = "serving" /\ lives < MaxRestarts
  /\ LoopFree
  /\ \A c \in Clients : cl[c].pc = "idle"
  /\ \A j \in Jobs : enq[j] = "none"
  /\ phase' = "stopping"
  /\ cancelSig' = cancelSig \cup tasks
  /\ waiters' = <<>>
  /\ tasks' = {}
  /\ UNCHANGED <<dbVars, lives, pending, cancelReq, done, todo, spawnq, at,
                 cancelq, recording, enq, cl>>

\* The process is gone, by a crash or at the end of a graceful stop.
Die ==
  /\ phase # "down" /\ lives < MaxRestarts
  /\ phase' = "down"
  /\ lives' = lives + 1
  /\ todo' = {} /\ spawnq' = {} /\ cancelSig' = {} /\ cancelq' = {}
  /\ waiters' = <<>> /\ recording' = {}
  /\ enq' = [j \in Jobs |-> "none"]
  /\ at' = [j \in Jobs |-> "none"]
  /\ pending' = {} /\ cancelReq' = {} /\ tasks' = {} /\ done' = {}
  /\ cl' = [c \in Clients |-> Idle]
  /\ UNCHANGED dbVars

BugOrphans == {j \in Jobs : row[j] = "running"}
Orphans == {j \in Jobs : row[j] \in {"queued", "running"}}

BugSweptNeverUnknown(j) == IF j \in Orphans THEN "interrupted" ELSE row[j]
Swept(j) ==
  IF j \notin Orphans THEN row[j]
  ELSE IF j \in dispatched THEN "unknown" ELSE "interrupted"

\* Every job in `unknown`, whichever life left it there.
BugToAsk == {j \in Orphans : Swept(j) = "unknown" /\ HasReconciler(j)}
ToAsk == {j \in Jobs : Swept(j) = "unknown" /\ HasReconciler(j)}

\* sweep_orphans marks every orphan in one commit, then turns to asking.
BugSweepResumes ==
  /\ phase = "down"
  /\ phase' = "boot"
  /\ row' = [j \in Jobs |-> IF j \in Orphans THEN "queued" ELSE row[j]]
  /\ spawnq' = Orphans
  /\ UNCHANGED <<about, dispatched, started, spool, lives, bookVars,
                 todo, at, cancelSig, cancelq, waiters, recording, enq, cl>>
Sweep ==
  /\ phase = "down"
  /\ phase' = "boot"
  /\ row' = [j \in Jobs |-> Swept(j)]
  /\ todo' = ToAsk
  /\ UNCHANGED <<about, dispatched, started, spool, lives, bookVars,
                 spawnq, at, cancelSig, cancelq, waiters, recording, enq, cl>>

\* The rest of the lifespan's boot half: clear the upload spool, then serve.
Serve ==
  /\ phase = "boot"
  /\ todo = {} /\ \A r \in Reconcilers : enq[r] = "none"
  /\ phase' = "serving"
  /\ spool' = {}
  /\ UNCHANGED <<row, about, dispatched, started, lives, bookVars,
                 loopVars, enq, cl>>

-----------------------------------------------------------------------------
JobStep(j) ==
  \/ EnqueueCommit(j) \/ EnqueuePend(j) \/ EnqueueSend(j) \/ ReconcileAfter(j)
  \/ Spawn(j) \/ StillBorn(j) \/ StartCanceled(j) \/ StartRunning(j)
  \/ StartWaiting(j) \/ Wake(j) \/ RunCanceled(j) \/ HandlerDispatch(j)
  \/ HandlerReturns(j) \/ ReconcileNothingBuilt(j) \/ ReconcileFound(j)
  \/ RecordLands(j) \/ LoopCancel(j)

CancelStep(c) ==
  \/ CancelRead(c) \/ CancelGetTask(c) \/ CancelTask(c)
  \/ CancelCheckPending(c) \/ CancelNote(c) \/ CancelUpdate(c)

Next ==
  \/ \E j \in Jobs : JobStep(j)
  \/ \E c \in Clients : CancelStep(c)
  \/ Stop \/ Die \/ Sweep \/ Serve

Spec == Init /\ [][Next]_vars

\* Threads and the loop are scheduled; a handler ends (every wait it makes
\* has a deadline); a stopping process exits, and what is down is booted again,
\* after a crash by systemd (Restart=on-failure), after a stop by who stopped it.
\* Nothing obliges anyone to enqueue, to cancel, to stop or to crash.
Fairness ==
  /\ \A j \in Jobs :
       /\ WF_vars(EnqueuePend(j)) /\ WF_vars(EnqueueSend(j))
       /\ WF_vars(ReconcileAfter(j)) /\ WF_vars(Spawn(j))
       /\ WF_vars(StillBorn(j)) /\ WF_vars(StartCanceled(j))
       /\ WF_vars(StartRunning(j)) /\ WF_vars(StartWaiting(j))
       /\ WF_vars(Wake(j)) /\ WF_vars(RunCanceled(j))
       /\ WF_vars(HandlerReturns(j)) /\ WF_vars(RecordLands(j))
       /\ WF_vars(LoopCancel(j))
  /\ \A c \in Clients :
       WF_vars(CancelGetTask(c) \/ CancelTask(c) \/ CancelCheckPending(c)
               \/ CancelNote(c) \/ CancelUpdate(c))
  /\ WF_vars(Sweep) /\ WF_vars(Serve)
  /\ WF_vars(phase = "stopping" /\ Die)

FairSpec == Spec /\ Fairness

-----------------------------------------------------------------------------
(* Safety.                                                                 *)

\* At most MAX_CONCURRENT handlers run at once (the fixed pool), across every
\* cancellation of a waiter and every hand-over of a slot.
PoolBound == Cardinality(Holders) <= MaxConcurrent

\* No lost wakeup: a task waits for a slot only while the pool is full.
NoIdleSlot ==
  phase = "serving" /\ waiters # <<>> => Cardinality(Holders) = MaxConcurrent

\* No row dangles: while the process serves, a `queued` row is somewhere on
\* its way to a handler and a `running` row has a live handler behind it, so
\* nothing waits for a job that nobody will ever finish.
RowsOwned ==
  phase = "serving" =>
    \A j \in Jobs : /\ row[j] = "queued" => Owned(j)
                    /\ row[j] = "running" => at[j] = "handler"

\* "Bound _tasks/_done to in-flight jobs only": the dictionaries a daemon
\* keeps for months hold nothing of a job that has ended.
BooksBounded == \A j \in tasks \cup done \cup pending : Owned(j) \/ phase = "stopping"

\* A job whose command had reached the node before the process died is never
\* filed as `interrupted`, which reads as "it did not happen".
DispatchedNeverInterrupted == \A j \in dispatched : row[j] # "interrupted"

\* Every job left in `unknown`, by this life or an earlier one, has had its
\* reconciliation queued in this life: nothing else would ever ask again.
UnknownIsAsked ==
  phase = "serving" /\ LoopFree =>
    \A j \in Jobs : row[j] = "unknown" /\ HasReconciler(j) =>
      \E r \in Reconcilers : about[r] = j /\ (Owned(r) \/ at[r] = "ended")

\* The job owns its staged file: once nothing is left to run for the job the
\* file is gone, whichever way the job ended and across restarts.
SpoolOwned == phase = "serving" => \A j \in spool : Owned(j)

\* What a daemon that runs for months must not leak, on any exit of _run: slots
\* of the pool, wakeups of its queue, entries of its dictionaries, spool files.
NothingLeaks == PoolBound /\ NoIdleSlot /\ BooksBounded /\ SpoolOwned

\* A finished job's status is final.  Only a reconciliation may replace it,
\* and only `unknown`: no late cancel, thread or restart clobbers a verdict.
FinishIsFinal ==
  [][\A j \in Jobs : row[j] \in Terminal /\ ~Owned(j) /\ row'[j] # row[j] =>
       row[j] = "unknown" /\ row'[j] \in {"succeeded", "failed"}]_vars

\* "Half-run root scripts do not get a second, blind execution": a job whose
\* handler was entered once is never entered again, in this life or the next.
RunsOnce ==
  [][\A j \in started : at'[j] = "handler" => at[j] = "handler"]_vars

(* Liveness and refinement.                                                *)

StageOf(j) ==
  IF row[j] = "none" THEN "none"
  ELSE IF row[j] \in Terminal /\ ~Owned(j) THEN "over"
  ELSE IF j \in started THEN "executing" ELSE "accepted"

Lifecycle == INSTANCE JobLifecycle WITH
  stage <- [j \in Jobs |-> StageOf(j)],
  verdict <- [j \in Jobs |-> IF StageOf(j) = "over" THEN row[j] ELSE "open"]

\* The runner implements the lifecycle it promises, whatever is cancelled and
\* whenever the process dies: no verdict without a run behind it, none replaced
\* but by a reconciliation, and every accepted job gets its verdict in the end.
LifecycleFair == Lifecycle!FairSpec

(* What a comment of the code says, and an interleaving of a client's      *)
(* thread and the enqueuing one refutes.                                   *)

\* backend.py:410: cancel() returns False only for a job "never enqueued
\* here, or already terminal".
RefusedIsNotOurs ==
  \A c \in Clients : cl[c].pc = "refused" =>
    row[cl[c].job] \in Terminal \/ ~Owned(cl[c].job)
=============================================================================
