--------------------------- MODULE JobEngineProofs ---------------------------
(***************************************************************************)
(* Proofs about JobEngine, for any finite set of jobs, any set of clients, *)
(* any pool size and any number of restarts.                               *)
(***************************************************************************)
EXTENDS JobEngine, FiniteSetTheorems, SequenceTheorems, TLAPS

-----------------------------------------------------------------------------
(* The inductive invariant.                                                *)

\* A job without a row is nowhere.
Untouched ==
  \A j \in Jobs : row[j] = "none" =>
    ~Owned(j) /\ at[j] = "none" /\ j \notin started \cup dispatched

\* A job is in one place on its way: inside enqueue(), a queued _spawn, or a
\* task.
OneStation ==
  \A j \in Jobs : /\ enq[j] # "none" => j \notin spawnq /\ at[j] = "none"
                  /\ j \in spawnq => at[j] = "none"

\* Its row says how far it got, unless the cancel route wrote over it.
RowFollows ==
  \A j \in Jobs :
    /\ Owned(j) /\ at[j] # "handler" => row[j] \in {"queued", "canceled"} /\ j \notin started
    /\ at[j] = "handler" => row[j] \in {"running", "canceled"} /\ j \in started

\* RowsOwned holds from the sweep on, and a dead process owns nothing.
RowsKept ==
  /\ phase \in {"boot", "serving"} =>
       \A j \in Jobs : /\ row[j] = "queued" => Owned(j)
                       /\ row[j] = "running" => at[j] = "handler"
  /\ phase = "down" => todo = {} /\ \A j \in Jobs : ~Owned(j) /\ at[j] = "none"

\* Who can be cancelled has a task, and has taken its first step unless the
\* process is stopping.
CancelKnown ==
  /\ \A j \in tasks : at[j] \in {"created", "acquiring", "granted", "handler"}
  /\ \A j \in cancelq : at[j] # "none"
  /\ \A c \in Clients : cl[c].pc # "idle" =>
       cl[c].job \in Jobs /\ row[cl[c].job] # "none"
  /\ \A c \in Clients : cl[c].pc = "sawTask" => at[cl[c].job] # "none"
  /\ \A j \in cancelSig : at[j] \in {"created", "acquiring", "granted", "handler"}
  /\ phase # "stopping" => \A j \in cancelSig : at[j] # "created"
  /\ phase = "stopping" => /\ tasks \cap (cancelq \cup cancelSig) = {}
                           /\ \A c \in Clients : cl[c].pc = "idle"

\* A reconciliation is about a job.
AboutKnown ==
  /\ \A r \in Jobs : KindOf[r] = "reconcile" /\ row[r] # "none" => about[r] \in Jobs
  /\ \A r \in recording : KindOf[r] = "reconcile" /\ row[r] # "none"

DispatchFollows == \A j \in dispatched : j \in started /\ row[j] # "interrupted"

\* The semaphore's queue holds distinct jobs, all of them waiting
\* and none of them with a CancelledError coming.
QueueOK ==
  /\ \A i \in DOMAIN waiters : at[waiters[i]] = "acquiring" /\ waiters[i] \notin cancelSig
  /\ \A i, k \in DOMAIN waiters : waiters[i] = waiters[k] => i = k

Core == /\ Untouched /\ OneStation /\ RowFollows /\ RowsKept
        /\ CancelKnown /\ AboutKnown /\ DispatchFollows

IInv == TypeOK /\ Core /\ QueueOK /\ PoolBound

-----------------------------------------------------------------------------
USE DEF dbVars, lifeVars, bookVars, loopVars

\* What taking one element out of a sequence leaves.
LEMMA RemoveAtProperties ==
  ASSUME NEW S, NEW s \in Seq(S), NEW i \in 1..Len(s)
  PROVE  /\ RemoveAt(s, i) \in Seq(S)
         /\ Len(RemoveAt(s, i)) = Len(s) - 1
         /\ \A k \in 1..Len(s) - 1 :
              RemoveAt(s, i)[k] = IF k < i THEN s[k] ELSE s[k + 1]
<1> DEFINE a == SubSeq(s, 1, i - 1)
           b == SubSeq(s, i + 1, Len(s))
<1>1. /\ a \in Seq(S) /\ Len(a) = i - 1
      /\ \A k \in 1..i - 1 : a[k] = s[k]
  BY SubSeqProperties
<1>2. /\ b \in Seq(S) /\ Len(b) = Len(s) - i
      /\ \A k \in 1..Len(s) - i : b[k] = s[i + k]
  BY SubSeqProperties
<1>3. /\ a \o b \in Seq(S) /\ Len(a \o b) = Len(a) + Len(b)
      /\ \A k \in 1..Len(a) + Len(b) :
           (a \o b)[k] = IF k <= Len(a) THEN a[k] ELSE b[k - Len(a)]
  BY <1>1, <1>2, ConcatProperties
<1>4. RemoveAt(s, i) = a \o b
  BY DEF RemoveAt
<1> HIDE DEF a, b
<1>5. Len(a \o b) = Len(s) - 1
  BY <1>1, <1>2, <1>3
<1>6. ASSUME NEW k \in 1..Len(s) - 1
      PROVE  (a \o b)[k] = IF k < i THEN s[k] ELSE s[k + 1]
  <2>1. CASE k < i
    BY <2>1, <1>1, <1>2, <1>3
  <2>2. CASE k >= i
    <3>1. /\ k \in 1..Len(a) + Len(b) /\ ~(k <= Len(a))
          /\ k - Len(a) \in 1..Len(s) - i /\ i + (k - Len(a)) = k + 1
      BY <2>2, <1>1, <1>2
    <3>2. (a \o b)[k] = b[k - Len(a)]
      BY <3>1, <1>3
    <3>3. b[k - Len(a)] = s[k + 1]
      BY <3>1, <1>2
    <3> QED
      BY <2>2, <3>2, <3>3
  <2>3. k < i \/ k >= i
    OBVIOUS
  <2> QED
    BY <2>1, <2>2, <2>3
<1> QED
  BY <1>3, <1>4, <1>5, <1>6

\* _finish and the end of _run keep the types they write.
LEMMA FinishTypes ==
  ASSUME TypeOK, NEW j \in Jobs, NEW status \in Terminal, Finish(j, status)
  PROVE  /\ row' \in [Jobs -> Statuses]
         /\ todo' \subseteq Jobs /\ cancelSig' \subseteq Jobs
         /\ spool' \subseteq Jobs /\ tasks' \subseteq Jobs /\ done' \subseteq Jobs
         /\ at' \in [Jobs -> {"none", "created", "acquiring", "granted", "handler", "ended"}]
         /\ waiters' \in Seq(Jobs)
<1>1. /\ row' \in [Jobs -> Statuses]
      /\ todo' \subseteq Jobs /\ cancelSig' \subseteq Jobs
  BY DEF TypeOK, Finish, Statuses
<1>2. spool' \subseteq Jobs /\ tasks' \subseteq Jobs /\ done' \subseteq Jobs
  BY DEF TypeOK, Finish, Forget
<1>3. waiters # <<>> => Head(waiters) \in Jobs /\ Tail(waiters) \in Seq(Jobs)
  BY HeadTailProperties DEF TypeOK
<1>4. /\ at' \in [Jobs -> {"none", "created", "acquiring", "granted", "handler", "ended"}]
      /\ waiters' \in Seq(Jobs)
  BY <1>3 DEF TypeOK, Finish, EndTask
<1> QED
  BY <1>1, <1>2, <1>4

\* Every step of threads, loop and process keeps the types.
LEMMA TypeStep ==
  ASSUME TypeOK, AboutKnown, CancelKnown, [Next]_vars
  PROVE  TypeOK'
<1> USE KindAssumption, RestartsAssumption DEF TypeOK, Statuses, Terminal
<1>1. ASSUME NEW j \in Jobs, EnqueueCommit(j) PROVE TypeOK'
  BY <1>1 DEF EnqueueCommit, Commit, Unused
<1>2. ASSUME NEW j \in Jobs, EnqueuePend(j) PROVE TypeOK'
  BY <1>2 DEF EnqueuePend
<1>3. ASSUME NEW j \in Jobs, EnqueueSend(j) PROVE TypeOK'
  BY <1>3 DEF EnqueueSend
<1>4. ASSUME NEW j \in Jobs, ReconcileAfter(j) PROVE TypeOK'
  BY <1>4 DEF ReconcileAfter, Commit, Unused, Reconcilers
<1>5. ASSUME NEW j \in Jobs, Spawn(j) PROVE TypeOK'
  BY <1>5 DEF Spawn
<1>6. ASSUME NEW j \in Jobs, StillBorn(j) PROVE TypeOK'
  BY <1>6 DEF StillBorn
<1>7. ASSUME NEW j \in Jobs, StartCanceled(j) PROVE TypeOK'
  <2>1. PICK status \in Terminal : Finish(j, status)
    BY <1>7 DEF StartCanceled, Terminal
  <2> HIDE DEF Terminal, Statuses
  <2> QED
    BY <1>7, <2>1, FinishTypes DEF StartCanceled
<1>8. ASSUME NEW j \in Jobs, StartRunning(j) PROVE TypeOK'
  BY <1>8 DEF StartRunning, EnterHandler
<1>9. ASSUME NEW j \in Jobs, StartWaiting(j) PROVE TypeOK'
  BY <1>9 DEF StartWaiting
<1>10. ASSUME NEW j \in Jobs, Wake(j) PROVE TypeOK'
  BY <1>10 DEF Wake, EnterHandler
<1>11. ASSUME NEW j \in Jobs, RunCanceled(j) PROVE TypeOK'
  <2>1. PICK status \in Terminal : Finish(j, status)
    BY <1>11 DEF RunCanceled, Terminal
  <2> HIDE DEF Terminal, Statuses
  <2> QED
    BY <1>11, <2>1, FinishTypes DEF RunCanceled
<1>12. ASSUME NEW j \in Jobs, HandlerDispatch(j) PROVE TypeOK'
  BY <1>12 DEF HandlerDispatch
<1>13. ASSUME NEW j \in Jobs, HandlerReturns(j) PROVE TypeOK'
  <2>1. PICK status \in Terminal : Finish(j, status)
    BY <1>13 DEF HandlerReturns, Terminal, Outcomes
  <2> HIDE DEF Terminal, Statuses
  <2> QED
    BY <1>13, <2>1, FinishTypes DEF HandlerReturns
<1>14. ASSUME NEW j \in Jobs, ReconcileNothingBuilt(j) PROVE TypeOK'
  BY <1>14 DEF ReconcileNothingBuilt, AboutKnown
<1>15. ASSUME NEW j \in Jobs, ReconcileFound(j) PROVE TypeOK'
  BY <1>15 DEF ReconcileFound
<1>16. ASSUME NEW j \in Jobs, RecordLands(j) PROVE TypeOK'
  BY <1>16 DEF RecordLands, AboutKnown
<1>17. ASSUME NEW j \in Jobs, LoopCancel(j) PROVE TypeOK'
  <2>1. waiters' \in Seq(Jobs)
    BY <1>17, RemoveAtProperties DEF LoopCancel
  <2> QED
    BY <1>17, <2>1 DEF LoopCancel
<1>18. ASSUME NEW c \in Clients, CancelRead(c) PROVE TypeOK'
  BY <1>18 DEF CancelRead
<1>19. ASSUME NEW c \in Clients, CancelGetTask(c) PROVE TypeOK'
  BY <1>19 DEF CancelGetTask, Move
<1>20. ASSUME NEW c \in Clients, CancelTask(c) PROVE TypeOK'
  BY <1>20 DEF CancelTask, Move, Idle, CancelKnown
<1>21. ASSUME NEW c \in Clients, CancelCheckPending(c) PROVE TypeOK'
  BY <1>21 DEF CancelCheckPending, Move
<1>22. ASSUME NEW c \in Clients, CancelNote(c) PROVE TypeOK'
  BY <1>22 DEF CancelNote, Idle, CancelKnown
<1>23. ASSUME NEW c \in Clients, CancelUpdate(c) PROVE TypeOK'
  BY <1>23 DEF CancelUpdate, Idle, DirectStatus, Cancelable
<1>24. CASE Stop
  BY <1>24 DEF Stop
<1>25. CASE Die
  BY <1>25 DEF Die, Idle
<1>26. CASE Sweep
  BY <1>26 DEF Sweep, Swept, Orphans, ToAsk, HasReconciler
<1>27. CASE Serve
  BY <1>27 DEF Serve
<1>28. CASE UNCHANGED vars
  BY <1>28 DEF vars
<1> QED
  BY <1>1, <1>2, <1>3, <1>4, <1>5, <1>6, <1>7, <1>8, <1>9, <1>10, <1>11, <1>12, <1>13, <1>14, <1>15, <1>16, <1>17, <1>18, <1>19, <1>20, <1>21, <1>22, <1>23, <1>24, <1>25, <1>26, <1>27, <1>28 DEF Next, JobStep, CancelStep

\* Taking one of a sequence of distinct elements out leaves distinct others.
LEMMA RemoveAtDistinct ==
  ASSUME NEW S, NEW s \in Seq(S), NEW i \in 1..Len(s),
         \A k, m \in DOMAIN s : s[k] = s[m] => k = m
  PROVE  /\ \A k \in DOMAIN RemoveAt(s, i) :
              RemoveAt(s, i)[k] # s[i] /\ \E m \in DOMAIN s : RemoveAt(s, i)[k] = s[m]
         /\ \A k, m \in DOMAIN RemoveAt(s, i) : RemoveAt(s, i)[k] = RemoveAt(s, i)[m] => k = m
<1> DEFINE t == RemoveAt(s, i)
           from(k) == IF k < i THEN k ELSE k + 1
<1>1. /\ t \in Seq(S) /\ Len(t) = Len(s) - 1
      /\ \A k \in 1..Len(s) - 1 : t[k] = IF k < i THEN s[k] ELSE s[k + 1]
  BY RemoveAtProperties
<1> HIDE DEF t
<1>2. DOMAIN t = 1..Len(s) - 1 /\ DOMAIN s = 1..Len(s) /\ Len(s) \in Nat
  BY <1>1
<1>3. \A k \in DOMAIN t : from(k) \in DOMAIN s /\ from(k) # i /\ t[k] = s[from(k)]
  BY <1>1, <1>2
<1>4. \A k, m \in DOMAIN t : from(k) = from(m) => k = m
  BY <1>2
<1> HIDE DEF from
<1>5. i \in DOMAIN s
  BY <1>2
<1>6. \A k \in DOMAIN t : t[k] # s[i] /\ \E m \in DOMAIN s : t[k] = s[m]
  BY <1>3, <1>5
<1>7. \A k, m \in DOMAIN t : t[k] = t[m] => k = m
  BY <1>3, <1>4
<1> QED
  BY <1>6, <1>7 DEF t

\* A handler that returns has a result, a failure or a doubt.
LEMMA ReturnStatus ==
  ASSUME NEW j \in Jobs, HandlerReturns(j)
  PROVE  \E status \in Terminal \ {"interrupted"} : Finish(j, status)
  BY KindAssumption DEF HandlerReturns, Outcomes, Terminal

\* What _finish does to the tasks: its own ends, and at most one waiting task
\* is handed the slot.
LEMMA FinishTasks ==
  ASSUME TypeOK, QueueOK, NEW j \in Jobs, NEW status, Finish(j, status),
         at[j] # "none"
  PROVE  /\ at'[j] = "ended"
         /\ \A k \in Jobs \ {j} : at'[k] = at[k] \/ (at[k] = "acquiring" /\ at'[k] = "granted")
<1>1. waiters # <<>> => Head(waiters) \in Jobs /\ at[Head(waiters)] = "acquiring"
  BY HeadTailProperties DEF TypeOK, QueueOK
<1> QED
  BY <1>1 DEF TypeOK, Finish, EndTask, Holders

\* Every step keeps the rows, the tasks and the cancellations in agreement.
LEMMA CoreStep ==
  ASSUME TypeOK, Core, QueueOK, [Next]_vars
  PROVE  Core'
<1> USE KindAssumption, NoJobAssumption
<1> USE DEF TypeOK, Terminal, Core, Untouched, OneStation, RowFollows, RowsKept, Owned,
            CancelKnown, AboutKnown, DispatchFollows
<1>1. ASSUME NEW j \in Jobs, EnqueueCommit(j) PROVE Core'
  BY <1>1 DEF EnqueueCommit, Commit, Unused, Reconcilers
<1>2. ASSUME NEW j \in Jobs, EnqueuePend(j) PROVE Core'
  BY <1>2 DEF EnqueuePend
<1>3. ASSUME NEW j \in Jobs, EnqueueSend(j) PROVE Core'
  BY <1>3 DEF EnqueueSend
<1>4. ASSUME NEW j \in Jobs, ReconcileAfter(j) PROVE Core'
  <2>1. PICK r \in Jobs : r \in Unused /\ Commit(r, j, FALSE)
    BY <1>4 DEF ReconcileAfter, Reconcilers
  <2> QED
    BY <1>4, <2>1 DEF ReconcileAfter, Commit, Unused
<1>5. ASSUME NEW j \in Jobs, Spawn(j) PROVE Core'
  BY <1>5 DEF Spawn
<1>6. ASSUME NEW j \in Jobs, StillBorn(j) PROVE Core'
  BY <1>6 DEF StillBorn
<1>7. ASSUME NEW j \in Jobs, StartCanceled(j) PROVE Core'
  <2>1. PICK status \in Terminal \ {"interrupted"} : Finish(j, status)
    BY <1>7 DEF StartCanceled
  <2>2. /\ at'[j] = "ended"
        /\ \A k \in Jobs \ {j} : at'[k] = at[k] \/ (at[k] = "acquiring" /\ at'[k] = "granted")
    BY <1>7, <2>1, FinishTasks DEF StartCanceled
  <2>3. /\ row' = [row EXCEPT ![j] = status]
        /\ cancelSig' = cancelSig \ {j} /\ tasks' = tasks \ {j}
    BY <2>1 DEF Finish, Forget
  <2> QED
    BY <1>7, <2>2, <2>3 DEF StartCanceled
<1>8. ASSUME NEW j \in Jobs, StartRunning(j) PROVE Core'
  BY <1>8 DEF StartRunning, EnterHandler
<1>9. ASSUME NEW j \in Jobs, StartWaiting(j) PROVE Core'
  BY <1>9 DEF StartWaiting
<1>10. ASSUME NEW j \in Jobs, Wake(j) PROVE Core'
  BY <1>10 DEF Wake, EnterHandler
<1>11. ASSUME NEW j \in Jobs, RunCanceled(j) PROVE Core'
  <2>1. PICK status \in Terminal \ {"interrupted"} : Finish(j, status)
    BY <1>11 DEF RunCanceled
  <2>2. /\ at'[j] = "ended"
        /\ \A k \in Jobs \ {j} : at'[k] = at[k] \/ (at[k] = "acquiring" /\ at'[k] = "granted")
    BY <1>11, <2>1, FinishTasks DEF RunCanceled
  <2>3. /\ row' = [row EXCEPT ![j] = status]
        /\ cancelSig' = cancelSig \ {j} /\ tasks' = tasks \ {j}
    BY <2>1 DEF Finish, Forget
  <2> QED
    BY <1>11, <2>2, <2>3 DEF RunCanceled
<1>12. ASSUME NEW j \in Jobs, HandlerDispatch(j) PROVE Core'
  BY <1>12 DEF HandlerDispatch
<1>13. ASSUME NEW j \in Jobs, HandlerReturns(j) PROVE Core'
  <2>1. PICK status \in Terminal \ {"interrupted"} : Finish(j, status)
    BY <1>13 DEF HandlerReturns, Outcomes
  <2>2. /\ at'[j] = "ended"
        /\ \A k \in Jobs \ {j} : at'[k] = at[k] \/ (at[k] = "acquiring" /\ at'[k] = "granted")
    BY <1>13, <2>1, FinishTasks DEF HandlerReturns
  <2>3. /\ row' = [row EXCEPT ![j] = status]
        /\ cancelSig' = cancelSig \ {j} /\ tasks' = tasks \ {j}
    BY <2>1 DEF Finish, Forget
  <2> QED
    BY <1>13, <2>2, <2>3 DEF HandlerReturns
<1>14. ASSUME NEW j \in Jobs, ReconcileNothingBuilt(j) PROVE Core'
  BY <1>14 DEF ReconcileNothingBuilt
<1>15. ASSUME NEW j \in Jobs, ReconcileFound(j) PROVE Core'
  BY <1>15 DEF ReconcileFound
<1>16. ASSUME NEW j \in Jobs, RecordLands(j) PROVE Core'
  BY <1>16 DEF RecordLands
<1>17. ASSUME NEW j \in Jobs, LoopCancel(j) PROVE Core'
  BY <1>17 DEF LoopCancel
<1>18. ASSUME NEW c \in Clients, CancelRead(c) PROVE Core'
  BY <1>18 DEF CancelRead
<1>19. ASSUME NEW c \in Clients, CancelGetTask(c) PROVE Core'
  BY <1>19 DEF CancelGetTask, Move
<1>20. ASSUME NEW c \in Clients, CancelTask(c) PROVE Core'
  <2>1. /\ UNCHANGED <<row, about, dispatched, started, at, enq, spawnq, tasks, cancelSig, todo, phase, recording>>
        /\ cl[c].pc = "sawTask"
    BY <1>20 DEF CancelTask, dbVars, lifeVars, bookVars
  <2>2. (Untouched /\ OneStation /\ RowFollows /\ RowsKept /\ AboutKnown /\ DispatchFollows)'
    BY <2>1
  <2>3. \A j \in cancelq' : at'[j] # "none"
    BY <1>20, <2>1 DEF CancelTask
  <2>4. /\ \A d \in Clients \ {c} : cl'[d] = cl[d]
        /\ cl'[c].pc = "idle" \/ (cl'[c].pc = "refused" /\ cl'[c].job = cl[c].job)
    BY <1>20 DEF CancelTask, Move, Idle
  <2>5. phase # "stopping"
    BY <2>1
  <2>6. CancelKnown'
    <3>1. \A d \in Clients : cl'[d].pc # "idle" => cl[d].pc # "idle" /\ cl'[d].job = cl[d].job
      BY <2>1, <2>4
    <3>2. \A d \in Clients : cl'[d].pc = "sawTask" => cl[d].pc = "sawTask" /\ cl'[d].job = cl[d].job
      BY <2>1, <2>4
    <3> QED
      BY <2>1, <2>3, <2>5, <3>1, <3>2
  <2> QED
    BY <2>2, <2>6
<1>21. ASSUME NEW c \in Clients, CancelCheckPending(c) PROVE Core'
  BY <1>21 DEF CancelCheckPending, Move
<1>22. ASSUME NEW c \in Clients, CancelNote(c) PROVE Core'
  BY <1>22 DEF CancelNote, Idle
<1>23. ASSUME NEW c \in Clients, CancelUpdate(c) PROVE Core'
  BY <1>23 DEF CancelUpdate, Idle, DirectStatus, Cancelable
<1>24. CASE Stop
  BY <1>24 DEF Stop
<1>25. CASE Die
  BY <1>25 DEF Die, Idle
<1>26. CASE Sweep
  BY <1>26 DEF Sweep, Swept, Orphans, ToAsk, HasReconciler
<1>27. CASE Serve
  BY <1>27 DEF Serve
<1>28. CASE UNCHANGED vars
  BY <1>28 DEF vars
<1> QED
  BY <1>1, <1>2, <1>3, <1>4, <1>5, <1>6, <1>7, <1>8, <1>9, <1>10, <1>11, <1>12, <1>13, <1>14, <1>15, <1>16, <1>17, <1>18, <1>19, <1>20, <1>21, <1>22, <1>23, <1>24, <1>25, <1>26, <1>27, <1>28 DEF Next, JobStep, CancelStep

\* A finishing task that was not in the queue leaves it a queue: as it was, or
\* without the task that was handed the slot.
LEMMA QueueAfterFinish ==
  ASSUME TypeOK, QueueOK, NEW j \in Jobs, NEW status, Finish(j, status),
         \A i \in DOMAIN waiters : waiters[i] # j
  PROVE  QueueOK'
<1>1. cancelSig' = cancelSig \ {j}
  BY DEF Finish
<1>2. \/ /\ waiters' = waiters
         /\ \A k \in Jobs \ {j} : at'[k] = at[k]
      \/ /\ waiters # <<>> /\ waiters' = Tail(waiters)
         /\ \A k \in Jobs \ {j, Head(waiters)} : at'[k] = at[k]
  BY DEF Finish, EndTask, TypeOK
<1>3. waiters \in Seq(Jobs) /\ \A i \in DOMAIN waiters : waiters[i] \in Jobs
  BY DEF TypeOK
<1>4. CASE waiters' = waiters /\ \A k \in Jobs \ {j} : at'[k] = at[k]
  BY <1>1, <1>3, <1>4 DEF QueueOK
<1>5. CASE /\ waiters # <<>> /\ waiters' = Tail(waiters)
           /\ \A k \in Jobs \ {j, Head(waiters)} : at'[k] = at[k]
  <2>1. /\ Len(waiters') = Len(waiters) - 1
        /\ \A i \in 1..Len(waiters') : waiters'[i] = waiters[i + 1]
        /\ DOMAIN waiters' = 1..Len(waiters') /\ DOMAIN waiters = 1..Len(waiters)
        /\ Len(waiters) \in Nat /\ Len(waiters) > 0
    BY <1>3, <1>5, HeadTailProperties
  <2>2. Head(waiters) = waiters[1]
    BY <1>3, <1>5
  <2>3. \A i \in DOMAIN waiters' : /\ i + 1 \in DOMAIN waiters /\ i + 1 # 1 /\ 1 \in DOMAIN waiters
                                   /\ waiters'[i] = waiters[i + 1]
    BY <2>1
  <2>4. \A i \in DOMAIN waiters' : at'[waiters'[i]] = at[waiters'[i]]
    BY <1>3, <1>5, <2>2, <2>3 DEF QueueOK
  <2>5. \A i \in DOMAIN waiters' : at'[waiters'[i]] = "acquiring" /\ waiters'[i] \notin cancelSig'
    BY <1>1, <2>3, <2>4 DEF QueueOK
  <2>6. \A i, k \in DOMAIN waiters' : waiters'[i] = waiters'[k] => i = k
    <3>1. SUFFICES ASSUME NEW i \in DOMAIN waiters', NEW k \in DOMAIN waiters', waiters'[i] = waiters'[k]
                   PROVE  i = k
      OBVIOUS
    <3>2. i + 1 = k + 1
      BY <2>3, <3>1 DEF QueueOK
    <3> QED
      BY <2>1, <3>2
  <2> QED
    BY <2>5, <2>6 DEF QueueOK
<1> QED
  BY <1>2, <1>4, <1>5

\* The queue of the semaphore stays a queue of waiting tasks.
LEMMA QueueStep ==
  ASSUME TypeOK, Core, QueueOK, [Next]_vars
  PROVE  QueueOK'
<1> USE DEF TypeOK, QueueOK, Core, CancelKnown
<1>1. ASSUME NEW j \in Jobs, EnqueueCommit(j) PROVE QueueOK'
  BY <1>1 DEF EnqueueCommit, Commit, Unused, Reconcilers
<1>2. ASSUME NEW j \in Jobs, EnqueuePend(j) PROVE QueueOK'
  BY <1>2 DEF EnqueuePend
<1>3. ASSUME NEW j \in Jobs, EnqueueSend(j) PROVE QueueOK'
  BY <1>3 DEF EnqueueSend
<1>4. ASSUME NEW j \in Jobs, ReconcileAfter(j) PROVE QueueOK'
  BY <1>4 DEF ReconcileAfter, Commit, Unused, Reconcilers
<1>5. ASSUME NEW j \in Jobs, Spawn(j) PROVE QueueOK'
  BY <1>5 DEF Spawn, OneStation
<1>6. ASSUME NEW j \in Jobs, StillBorn(j) PROVE QueueOK'
  BY <1>6 DEF StillBorn
<1>7. ASSUME NEW j \in Jobs, StartCanceled(j) PROVE QueueOK'
  <2>1. PICK status \in Terminal \ {"interrupted"} : Finish(j, status)
    BY <1>7 DEF StartCanceled, Terminal
  <2>2. \A i \in DOMAIN waiters : waiters[i] # j
    BY <1>7 DEF StartCanceled
  <2> QED
    BY <2>1, <2>2, QueueAfterFinish
<1>8. ASSUME NEW j \in Jobs, StartRunning(j) PROVE QueueOK'
  BY <1>8 DEF StartRunning, EnterHandler
<1>9. ASSUME NEW j \in Jobs, StartWaiting(j) PROVE QueueOK'
  <2>1. \A i \in DOMAIN waiters : waiters[i] # j
    BY <1>9 DEF StartWaiting
  <2>2. /\ DOMAIN waiters' = 1..Len(waiters) + 1 /\ DOMAIN waiters = 1..Len(waiters)
        /\ \A i \in 1..Len(waiters) + 1 : waiters'[i] = IF i <= Len(waiters) THEN waiters[i] ELSE j
    BY <1>9, AppendProperties DEF StartWaiting
  <2> QED
    BY <1>9, <2>1, <2>2 DEF StartWaiting
<1>10. ASSUME NEW j \in Jobs, Wake(j) PROVE QueueOK'
  BY <1>10 DEF Wake, EnterHandler
<1>11. ASSUME NEW j \in Jobs, RunCanceled(j) PROVE QueueOK'
  <2>1. PICK status \in Terminal \ {"interrupted"} : Finish(j, status)
    BY <1>11 DEF RunCanceled, Terminal
  <2>2. \A i \in DOMAIN waiters : waiters[i] # j
    BY <1>11 DEF RunCanceled
  <2> QED
    BY <2>1, <2>2, QueueAfterFinish
<1>12. ASSUME NEW j \in Jobs, HandlerDispatch(j) PROVE QueueOK'
  BY <1>12 DEF HandlerDispatch
<1>13. ASSUME NEW j \in Jobs, HandlerReturns(j) PROVE QueueOK'
  <2>1. PICK status \in Terminal \ {"interrupted"} : Finish(j, status)
    BY <1>13, ReturnStatus
  <2>2. \A i \in DOMAIN waiters : waiters[i] # j
    BY <1>13 DEF HandlerReturns
  <2> QED
    BY <2>1, <2>2, QueueAfterFinish
<1>14. ASSUME NEW j \in Jobs, ReconcileNothingBuilt(j) PROVE QueueOK'
  BY <1>14 DEF ReconcileNothingBuilt
<1>15. ASSUME NEW j \in Jobs, ReconcileFound(j) PROVE QueueOK'
  BY <1>15 DEF ReconcileFound
<1>16. ASSUME NEW j \in Jobs, RecordLands(j) PROVE QueueOK'
  BY <1>16 DEF RecordLands
<1>17. ASSUME NEW j \in Jobs, LoopCancel(j) PROVE QueueOK'
  <2>1. CASE UNCHANGED waiters /\ \A i \in DOMAIN waiters : waiters[i] # j
    BY <1>17, <2>1 DEF LoopCancel
  <2>2. ASSUME NEW i \in DOMAIN waiters, waiters[i] = j, waiters' = RemoveAt(waiters, i)
        PROVE  QueueOK'
    <3>1. waiters \in Seq(Jobs) /\ i \in 1..Len(waiters) /\ DOMAIN waiters = 1..Len(waiters)
      BY <2>2
    <3>2. \A k, m \in DOMAIN waiters : waiters[k] = waiters[m] => k = m
      OBVIOUS
    <3>3. /\ \A k \in DOMAIN RemoveAt(waiters, i) :
               /\ RemoveAt(waiters, i)[k] # waiters[i]
               /\ \E m \in DOMAIN waiters : RemoveAt(waiters, i)[k] = waiters[m]
          /\ \A k, m \in DOMAIN RemoveAt(waiters, i) :
               RemoveAt(waiters, i)[k] = RemoveAt(waiters, i)[m] => k = m
      <4> HIDE DEF TypeOK, Core, QueueOK
      <4> QED
        BY ONLY <3>1, <3>2, RemoveAtDistinct
    <3>4. /\ \A k \in DOMAIN waiters' : waiters'[k] # j /\ \E m \in DOMAIN waiters : waiters'[k] = waiters[m]
          /\ \A k, m \in DOMAIN waiters' : waiters'[k] = waiters'[m] => k = m
      BY <2>2, <3>3
    <3> QED
      BY <1>17, <3>4 DEF LoopCancel
  <2> QED
    BY <1>17, <2>1, <2>2 DEF LoopCancel
<1>18. ASSUME NEW c \in Clients, CancelRead(c) PROVE QueueOK'
  BY <1>18 DEF CancelRead
<1>19. ASSUME NEW c \in Clients, CancelGetTask(c) PROVE QueueOK'
  BY <1>19 DEF CancelGetTask, Move
<1>20. ASSUME NEW c \in Clients, CancelTask(c) PROVE QueueOK'
  BY <1>20 DEF CancelTask, Move, Idle
<1>21. ASSUME NEW c \in Clients, CancelCheckPending(c) PROVE QueueOK'
  BY <1>21 DEF CancelCheckPending, Move
<1>22. ASSUME NEW c \in Clients, CancelNote(c) PROVE QueueOK'
  BY <1>22 DEF CancelNote, Idle
<1>23. ASSUME NEW c \in Clients, CancelUpdate(c) PROVE QueueOK'
  BY <1>23 DEF CancelUpdate, Idle, DirectStatus, Cancelable
<1>24. CASE Stop
  BY <1>24 DEF Stop
<1>25. CASE Die
  BY <1>25 DEF Die, Idle
<1>26. CASE Sweep
  BY <1>26 DEF Sweep, Swept, Orphans, ToAsk, HasReconciler
<1>27. CASE Serve
  BY <1>27 DEF Serve
<1>28. CASE UNCHANGED vars
  BY <1>28 DEF vars
<1> QED
  BY <1>1, <1>2, <1>3, <1>4, <1>5, <1>6, <1>7, <1>8, <1>9, <1>10, <1>11, <1>12, <1>13, <1>14, <1>15, <1>16, <1>17, <1>18, <1>19, <1>20, <1>21, <1>22, <1>23, <1>24, <1>25, <1>26, <1>27, <1>28 DEF Next, JobStep, CancelStep

(* The pool.                                                               *)

\* The tasks that hold a slot are finitely many, before and after a step.
LEMMA HoldersFinite == IsFiniteSet(Holders) /\ IsFiniteSet(Holders)'
<1>1. Holders \subseteq Jobs /\ Holders' \subseteq Jobs
  BY DEF Holders
<1> QED
  BY <1>1, FiniteAssumption, FS_Subset

\* A task that enters the pool makes it larger by one.
LEMMA AddOne ==
  ASSUME NEW S, NEW x, IsFiniteSet(S)
  PROVE  Cardinality(S \cup {x}) <= Cardinality(S) + 1
<1>1. Cardinality(S) \in Nat
  BY FS_CardinalityType
<1>2. CASE x \in S
  <2>1. S \cup {x} = S
    BY <1>2
  <2> QED
    BY <1>1, <2>1
<1>3. CASE x \notin S
  <2>1. Cardinality(S \cup {x}) = Cardinality(S) + 1
    BY <1>3, FS_AddElement
  <2> QED
    BY <1>1, <2>1
<1> QED
  BY <1>2, <1>3

\* The pool does not grow when nobody enters it.
LEMMA FewerHolders ==
  ASSUME PoolBound, Holders' \subseteq Holders
  PROVE  PoolBound'
<1>1. Cardinality(Holders') <= Cardinality(Holders)
  BY HoldersFinite, FS_Subset
<1>2. /\ Cardinality(Holders') \in Nat /\ Cardinality(Holders) \in Nat
  BY HoldersFinite, FS_CardinalityType
<1> QED
  BY <1>1, <1>2, PoolAssumption DEF PoolBound

\* A finishing job gives its slot to one waiter or to nobody.
LEMMA FinishPool ==
  ASSUME TypeOK, QueueOK, PoolBound, NEW j \in Jobs, NEW status, Finish(j, status)
  PROVE  PoolBound'
<1>1. CASE j \in Holders /\ waiters # <<>>
  <2>1. Head(waiters) \in Jobs /\ at[Head(waiters)] = "acquiring"
    BY <1>1, HeadTailProperties DEF TypeOK, QueueOK
  <2>2. Holders' = (Holders \ {j}) \cup {Head(waiters)}
    BY <1>1, <2>1 DEF TypeOK, Finish, EndTask, Holders
  <2>3. IsFiniteSet(Holders \ {j}) /\ Cardinality(Holders \ {j}) = Cardinality(Holders) - 1
    BY <1>1, HoldersFinite, FS_RemoveElement
  <2>4. Cardinality((Holders \ {j}) \cup {Head(waiters)}) <= Cardinality(Holders \ {j}) + 1
    BY <2>3, AddOne
  <2> QED
    BY <2>2, <2>3, <2>4, HoldersFinite, FS_CardinalityType, PoolAssumption DEF PoolBound
<1>2. CASE ~(j \in Holders /\ waiters # <<>>)
  <2>1. Holders' \subseteq Holders
    BY <1>2 DEF TypeOK, Finish, EndTask, Holders
  <2> QED
    BY <2>1, FewerHolders
<1> QED
  BY <1>1, <1>2

\* Every step keeps the pool within MAX_CONCURRENT.
LEMMA PoolStep ==
  ASSUME TypeOK, QueueOK, PoolBound, [Next]_vars
  PROVE  PoolBound'
<1>1. ASSUME NEW j \in Jobs, EnqueueCommit(j) PROVE PoolBound'
  BY <1>1, FewerHolders DEF EnqueueCommit, TypeOK, Holders, Commit, Unused, Reconcilers
<1>2. ASSUME NEW j \in Jobs, EnqueuePend(j) PROVE PoolBound'
  BY <1>2, FewerHolders DEF EnqueuePend, TypeOK, Holders
<1>3. ASSUME NEW j \in Jobs, EnqueueSend(j) PROVE PoolBound'
  BY <1>3, FewerHolders DEF EnqueueSend, TypeOK, Holders
<1>4. ASSUME NEW j \in Jobs, ReconcileAfter(j) PROVE PoolBound'
  BY <1>4, FewerHolders DEF ReconcileAfter, TypeOK, Holders, Commit, Unused, Reconcilers
<1>5. ASSUME NEW j \in Jobs, Spawn(j) PROVE PoolBound'
  BY <1>5, FewerHolders DEF Spawn, TypeOK, Holders
<1>6. ASSUME NEW j \in Jobs, StillBorn(j) PROVE PoolBound'
  BY <1>6, FewerHolders DEF StillBorn, TypeOK, Holders
<1>7. ASSUME NEW j \in Jobs, StartCanceled(j) PROVE PoolBound'
  <2>1. PICK status \in Terminal \ {"interrupted"} : Finish(j, status)
    BY <1>7 DEF StartCanceled, Terminal
  <2> QED
    BY <2>1, FinishPool
<1>8. ASSUME NEW j \in Jobs, StartRunning(j) PROVE PoolBound'
  <2>1. Holders' = Holders \cup {j}
    BY <1>8 DEF StartRunning, EnterHandler, TypeOK, Holders
  <2>2. IsFiniteSet(Holders) /\ Cardinality(Holders) < MaxConcurrent
    BY <1>8, HoldersFinite, FS_CardinalityType, PoolAssumption DEF StartRunning, PoolFull
  <2>3. Cardinality(Holders \cup {j}) <= Cardinality(Holders) + 1
    BY <2>2, AddOne
  <2> QED
    BY <2>1, <2>2, <2>3, FS_CardinalityType, HoldersFinite, PoolAssumption DEF PoolBound
<1>9. ASSUME NEW j \in Jobs, StartWaiting(j) PROVE PoolBound'
  BY <1>9, FewerHolders DEF StartWaiting, TypeOK, Holders
<1>10. ASSUME NEW j \in Jobs, Wake(j) PROVE PoolBound'
  BY <1>10, FewerHolders DEF Wake, TypeOK, Holders, EnterHandler
<1>11. ASSUME NEW j \in Jobs, RunCanceled(j) PROVE PoolBound'
  <2>1. PICK status \in Terminal \ {"interrupted"} : Finish(j, status)
    BY <1>11 DEF RunCanceled, Terminal
  <2> QED
    BY <2>1, FinishPool
<1>12. ASSUME NEW j \in Jobs, HandlerDispatch(j) PROVE PoolBound'
  BY <1>12, FewerHolders DEF HandlerDispatch, TypeOK, Holders
<1>13. ASSUME NEW j \in Jobs, HandlerReturns(j) PROVE PoolBound'
  <2>1. PICK status \in Terminal \ {"interrupted"} : Finish(j, status)
    BY <1>13, ReturnStatus
  <2> QED
    BY <2>1, FinishPool
<1>14. ASSUME NEW j \in Jobs, ReconcileNothingBuilt(j) PROVE PoolBound'
  BY <1>14, FewerHolders DEF ReconcileNothingBuilt, TypeOK, Holders
<1>15. ASSUME NEW j \in Jobs, ReconcileFound(j) PROVE PoolBound'
  BY <1>15, FewerHolders DEF ReconcileFound, TypeOK, Holders
<1>16. ASSUME NEW j \in Jobs, RecordLands(j) PROVE PoolBound'
  BY <1>16, FewerHolders DEF RecordLands, TypeOK, Holders
<1>17. ASSUME NEW j \in Jobs, LoopCancel(j) PROVE PoolBound'
  BY <1>17, FewerHolders DEF LoopCancel, TypeOK, Holders
<1>18. ASSUME NEW c \in Clients, CancelRead(c) PROVE PoolBound'
  BY <1>18, FewerHolders DEF CancelRead, TypeOK, Holders
<1>19. ASSUME NEW c \in Clients, CancelGetTask(c) PROVE PoolBound'
  BY <1>19, FewerHolders DEF CancelGetTask, TypeOK, Holders, Move
<1>20. ASSUME NEW c \in Clients, CancelTask(c) PROVE PoolBound'
  BY <1>20, FewerHolders DEF CancelTask, TypeOK, Holders, Move, Idle
<1>21. ASSUME NEW c \in Clients, CancelCheckPending(c) PROVE PoolBound'
  BY <1>21, FewerHolders DEF CancelCheckPending, TypeOK, Holders, Move
<1>22. ASSUME NEW c \in Clients, CancelNote(c) PROVE PoolBound'
  BY <1>22, FewerHolders DEF CancelNote, TypeOK, Holders, Idle
<1>23. ASSUME NEW c \in Clients, CancelUpdate(c) PROVE PoolBound'
  BY <1>23, FewerHolders DEF CancelUpdate, TypeOK, Holders, Idle, DirectStatus, Cancelable
<1>24. CASE Stop
  BY <1>24, FewerHolders DEF Stop, Holders
<1>25. CASE Die
  BY <1>25, FewerHolders DEF Die, Holders
<1>26. CASE Sweep
  BY <1>26, FewerHolders DEF Sweep, Holders
<1>27. CASE Serve
  BY <1>27, FewerHolders DEF Serve, Holders
<1>28. CASE UNCHANGED vars
  BY <1>28 DEF vars, PoolBound, Holders
<1> QED
  BY <1>1, <1>2, <1>3, <1>4, <1>5, <1>6, <1>7, <1>8, <1>9, <1>10, <1>11, <1>12, <1>13, <1>14, <1>15, <1>16, <1>17, <1>18, <1>19, <1>20, <1>21, <1>22, <1>23, <1>24, <1>25, <1>26, <1>27, <1>28 DEF Next, JobStep, CancelStep

-----------------------------------------------------------------------------
\* A freshly started process satisfies the inductive invariant ...
LEMMA InitInvariant == Init => IInv
<1> SUFFICES ASSUME Init PROVE IInv
  OBVIOUS
<1>1. TypeOK
  BY RestartsAssumption DEF Init, TypeOK, Idle, Statuses
<1>2. Core
  BY DEF Init, Core, Untouched, OneStation, RowFollows, RowsKept, Owned, CancelKnown,
         AboutKnown, DispatchFollows, Idle
<1>3. QueueOK
  BY DEF Init, QueueOK
<1>4. Holders = {}
  BY DEF Init, Holders
<1>5. PoolBound
  BY <1>4, FS_EmptySet, PoolAssumption DEF PoolBound
<1> QED
  BY <1>1, <1>2, <1>3, <1>5 DEF IInv

\* ... every step of the runner keeps it ...
LEMMA StepInvariant == IInv /\ [Next]_vars => IInv'
<1> SUFFICES ASSUME IInv, [Next]_vars PROVE IInv'
  OBVIOUS
<1>1. TypeOK'
  BY TypeStep DEF IInv, Core
<1>2. Core'
  BY CoreStep DEF IInv
<1>3. QueueOK'
  BY QueueStep DEF IInv
<1>4. PoolBound'
  BY PoolStep DEF IInv
<1> QED
  BY <1>1, <1>2, <1>3, <1>4 DEF IInv

\* ... so it holds in every state the runner can reach.
THEOREM Invariance == Spec => []IInv
<1>1. Init => IInv
  BY InitInvariant
<1>2. IInv /\ [Next]_vars => IInv'
  BY StepInvariant
<1> QED
  BY <1>1, <1>2, PTL DEF Spec

\* Every variable of the runner keeps its type.
THEOREM TypeCorrect == Spec => []TypeOK
<1>1. IInv => TypeOK
  BY DEF IInv
<1> QED
  BY <1>1, Invariance, PTL

\* No more than MAX_CONCURRENT handlers ever run, for any pool size.
THEOREM PoolBounded == Spec => []PoolBound
<1>1. IInv => PoolBound
  BY DEF IInv
<1> QED
  BY <1>1, Invariance, PTL

\* No row dangles while the process serves.
THEOREM RowsAlwaysOwned == Spec => []RowsOwned
<1>1. IInv => RowsOwned
  BY DEF IInv, Core, RowsKept, RowsOwned
<1> QED
  BY <1>1, Invariance, PTL

\* A dispatched job is never filed as interrupted.
THEOREM NeverCalledInterrupted == Spec => []DispatchedNeverInterrupted
<1>1. IInv => DispatchedNeverInterrupted
  BY DEF IInv, Core, DispatchFollows, DispatchedNeverInterrupted
<1> QED
  BY <1>1, Invariance, PTL

\* A status, once final, is only ever replaced by a reconciliation.
LEMMA FinalStep ==
  ASSUME IInv, [Next]_vars, NEW k \in Jobs,
         row[k] \in Terminal, ~Owned(k), row'[k] # row[k]
  PROVE  row[k] = "unknown" /\ row'[k] \in {"succeeded", "failed"}
<1> DEFINE Goal == row[k] = "unknown" /\ row'[k] \in {"succeeded", "failed"}
<1> SUFFICES Goal
  OBVIOUS
<1> USE DEF IInv, TypeOK, Owned, Core, AboutKnown, Terminal
<1>1. ASSUME NEW j \in Jobs, EnqueueCommit(j) PROVE Goal
  BY <1>1 DEF EnqueueCommit, Commit, Unused, Reconcilers
<1>2. ASSUME NEW j \in Jobs, EnqueuePend(j) PROVE Goal
  BY <1>2 DEF EnqueuePend
<1>3. ASSUME NEW j \in Jobs, EnqueueSend(j) PROVE Goal
  BY <1>3 DEF EnqueueSend
<1>4. ASSUME NEW j \in Jobs, ReconcileAfter(j) PROVE Goal
  BY <1>4 DEF ReconcileAfter, Commit, Unused, Reconcilers
<1>5. ASSUME NEW j \in Jobs, Spawn(j) PROVE Goal
  BY <1>5 DEF Spawn
<1>6. ASSUME NEW j \in Jobs, StillBorn(j) PROVE Goal
  BY <1>6 DEF StillBorn
<1>7. ASSUME NEW j \in Jobs, StartCanceled(j) PROVE Goal
  <2>1. PICK status \in Terminal \ {"interrupted"} : Finish(j, status)
    BY <1>7 DEF StartCanceled
  <2>2. row' = [row EXCEPT ![j] = status]
    BY <2>1 DEF Finish
  <2> QED
    BY <1>7, <2>2 DEF StartCanceled
<1>8. ASSUME NEW j \in Jobs, StartRunning(j) PROVE Goal
  BY <1>8 DEF StartRunning, EnterHandler
<1>9. ASSUME NEW j \in Jobs, StartWaiting(j) PROVE Goal
  BY <1>9 DEF StartWaiting
<1>10. ASSUME NEW j \in Jobs, Wake(j) PROVE Goal
  BY <1>10 DEF Wake, EnterHandler
<1>11. ASSUME NEW j \in Jobs, RunCanceled(j) PROVE Goal
  <2>1. PICK status \in Terminal \ {"interrupted"} : Finish(j, status)
    BY <1>11 DEF RunCanceled
  <2>2. row' = [row EXCEPT ![j] = status]
    BY <2>1 DEF Finish
  <2> QED
    BY <1>11, <2>2 DEF RunCanceled
<1>12. ASSUME NEW j \in Jobs, HandlerDispatch(j) PROVE Goal
  BY <1>12 DEF HandlerDispatch
<1>13. ASSUME NEW j \in Jobs, HandlerReturns(j) PROVE Goal
  <2>1. PICK status \in Terminal \ {"interrupted"} : Finish(j, status)
    BY <1>13, ReturnStatus
  <2>2. row' = [row EXCEPT ![j] = status]
    BY <2>1 DEF Finish
  <2> QED
    BY <1>13, <2>2 DEF HandlerReturns
<1>14. ASSUME NEW j \in Jobs, ReconcileNothingBuilt(j) PROVE Goal
  BY <1>14 DEF ReconcileNothingBuilt
<1>15. ASSUME NEW j \in Jobs, ReconcileFound(j) PROVE Goal
  BY <1>15 DEF ReconcileFound
<1>16. ASSUME NEW j \in Jobs, RecordLands(j) PROVE Goal
  BY <1>16 DEF RecordLands
<1>17. ASSUME NEW j \in Jobs, LoopCancel(j) PROVE Goal
  BY <1>17 DEF LoopCancel
<1>18. ASSUME NEW c \in Clients, CancelRead(c) PROVE Goal
  BY <1>18 DEF CancelRead
<1>19. ASSUME NEW c \in Clients, CancelGetTask(c) PROVE Goal
  BY <1>19 DEF CancelGetTask, Move
<1>20. ASSUME NEW c \in Clients, CancelTask(c) PROVE Goal
  BY <1>20 DEF CancelTask, Move, Idle
<1>21. ASSUME NEW c \in Clients, CancelCheckPending(c) PROVE Goal
  BY <1>21 DEF CancelCheckPending, Move
<1>22. ASSUME NEW c \in Clients, CancelNote(c) PROVE Goal
  BY <1>22 DEF CancelNote, Idle
<1>23. ASSUME NEW c \in Clients, CancelUpdate(c) PROVE Goal
  BY <1>23 DEF CancelUpdate, Idle, DirectStatus, Cancelable
<1>24. CASE Stop
  BY <1>24 DEF Stop
<1>25. CASE Die
  BY <1>25 DEF Die, Idle
<1>26. CASE Sweep
  BY <1>26 DEF Sweep, Swept, Orphans, ToAsk, HasReconciler
<1>27. CASE Serve
  BY <1>27 DEF Serve
<1>28. CASE UNCHANGED vars
  BY <1>28 DEF vars
<1> QED
  BY <1>1, <1>2, <1>3, <1>4, <1>5, <1>6, <1>7, <1>8, <1>9, <1>10, <1>11, <1>12, <1>13, <1>14, <1>15, <1>16, <1>17, <1>18, <1>19, <1>20, <1>21, <1>22, <1>23, <1>24, <1>25, <1>26, <1>27, <1>28 DEF Next, JobStep, CancelStep

\* No handler is entered twice.
LEMMA OnceStep ==
  ASSUME IInv, [Next]_vars, NEW k \in started, at'[k] = "handler"
  PROVE  at[k] = "handler"
<1> DEFINE Goal == at[k] = "handler"
<1> SUFFICES Goal
  OBVIOUS
<1>0. k \in Jobs
  BY DEF IInv, TypeOK
<1> USE <1>0 DEF IInv, TypeOK, Owned, Core, RowFollows, CancelKnown
<1>1. ASSUME NEW j \in Jobs, EnqueueCommit(j) PROVE Goal
  BY <1>1 DEF EnqueueCommit, Commit, Unused, Reconcilers
<1>2. ASSUME NEW j \in Jobs, EnqueuePend(j) PROVE Goal
  BY <1>2 DEF EnqueuePend
<1>3. ASSUME NEW j \in Jobs, EnqueueSend(j) PROVE Goal
  BY <1>3 DEF EnqueueSend
<1>4. ASSUME NEW j \in Jobs, ReconcileAfter(j) PROVE Goal
  BY <1>4 DEF ReconcileAfter, Commit, Unused, Reconcilers
<1>5. ASSUME NEW j \in Jobs, Spawn(j) PROVE Goal
  BY <1>5 DEF Spawn
<1>6. ASSUME NEW j \in Jobs, StillBorn(j) PROVE Goal
  BY <1>6 DEF StillBorn
<1>7. ASSUME NEW j \in Jobs, StartCanceled(j) PROVE Goal
  <2>1. PICK status \in Terminal \ {"interrupted"} : Finish(j, status)
    BY <1>7 DEF StartCanceled, Terminal
  <2>2. /\ at'[j] = "ended"
        /\ \A i \in Jobs \ {j} : at'[i] = at[i] \/ (at[i] = "acquiring" /\ at'[i] = "granted")
    BY <1>7, <2>1, FinishTasks DEF StartCanceled
  <2> QED
    BY <2>2
<1>8. ASSUME NEW j \in Jobs, StartRunning(j) PROVE Goal
  BY <1>8 DEF StartRunning, EnterHandler
<1>9. ASSUME NEW j \in Jobs, StartWaiting(j) PROVE Goal
  BY <1>9 DEF StartWaiting
<1>10. ASSUME NEW j \in Jobs, Wake(j) PROVE Goal
  BY <1>10 DEF Wake, EnterHandler
<1>11. ASSUME NEW j \in Jobs, RunCanceled(j) PROVE Goal
  <2>1. PICK status \in Terminal \ {"interrupted"} : Finish(j, status)
    BY <1>11 DEF RunCanceled, Terminal
  <2>2. /\ at'[j] = "ended"
        /\ \A i \in Jobs \ {j} : at'[i] = at[i] \/ (at[i] = "acquiring" /\ at'[i] = "granted")
    BY <1>11, <2>1, FinishTasks DEF RunCanceled
  <2> QED
    BY <2>2
<1>12. ASSUME NEW j \in Jobs, HandlerDispatch(j) PROVE Goal
  BY <1>12 DEF HandlerDispatch
<1>13. ASSUME NEW j \in Jobs, HandlerReturns(j) PROVE Goal
  <2>1. PICK status \in Terminal \ {"interrupted"} : Finish(j, status)
    BY <1>13, ReturnStatus
  <2>2. /\ at'[j] = "ended"
        /\ \A i \in Jobs \ {j} : at'[i] = at[i] \/ (at[i] = "acquiring" /\ at'[i] = "granted")
    BY <1>13, <2>1, FinishTasks DEF HandlerReturns
  <2> QED
    BY <2>2
<1>14. ASSUME NEW j \in Jobs, ReconcileNothingBuilt(j) PROVE Goal
  BY <1>14 DEF ReconcileNothingBuilt
<1>15. ASSUME NEW j \in Jobs, ReconcileFound(j) PROVE Goal
  BY <1>15 DEF ReconcileFound
<1>16. ASSUME NEW j \in Jobs, RecordLands(j) PROVE Goal
  BY <1>16 DEF RecordLands
<1>17. ASSUME NEW j \in Jobs, LoopCancel(j) PROVE Goal
  BY <1>17 DEF LoopCancel
<1>18. ASSUME NEW c \in Clients, CancelRead(c) PROVE Goal
  BY <1>18 DEF CancelRead
<1>19. ASSUME NEW c \in Clients, CancelGetTask(c) PROVE Goal
  BY <1>19 DEF CancelGetTask, Move
<1>20. ASSUME NEW c \in Clients, CancelTask(c) PROVE Goal
  BY <1>20 DEF CancelTask, Move, Idle
<1>21. ASSUME NEW c \in Clients, CancelCheckPending(c) PROVE Goal
  BY <1>21 DEF CancelCheckPending, Move
<1>22. ASSUME NEW c \in Clients, CancelNote(c) PROVE Goal
  BY <1>22 DEF CancelNote, Idle
<1>23. ASSUME NEW c \in Clients, CancelUpdate(c) PROVE Goal
  BY <1>23 DEF CancelUpdate, Idle, DirectStatus, Cancelable
<1>24. CASE Stop
  BY <1>24 DEF Stop
<1>25. CASE Die
  BY <1>25 DEF Die, Idle
<1>26. CASE Sweep
  BY <1>26 DEF Sweep, Swept, Orphans, ToAsk, HasReconciler
<1>27. CASE Serve
  BY <1>27 DEF Serve
<1>28. CASE UNCHANGED vars
  BY <1>28 DEF vars
<1> QED
  BY <1>1, <1>2, <1>3, <1>4, <1>5, <1>6, <1>7, <1>8, <1>9, <1>10, <1>11, <1>12, <1>13, <1>14, <1>15, <1>16, <1>17, <1>18, <1>19, <1>20, <1>21, <1>22, <1>23, <1>24, <1>25, <1>26, <1>27, <1>28 DEF Next, JobStep, CancelStep

\* For every set of jobs, clients and restarts a finished job stays finished.
THEOREM FinishedIsFinal == Spec => FinishIsFinal
<1>1. IInv /\ [Next]_vars =>
        [\A j \in Jobs : row[j] \in Terminal /\ ~Owned(j) /\ row'[j] # row[j] =>
           row[j] = "unknown" /\ row'[j] \in {"succeeded", "failed"}]_vars
  BY FinalStep
<1> QED
  BY <1>1, Invariance, PTL DEF Spec, FinishIsFinal

\* For every set of jobs, clients and restarts a job runs at most once.
THEOREM AtMostOneRun == Spec => RunsOnce
<1>1. IInv /\ [Next]_vars =>
        [\A j \in started : at'[j] = "handler" => at[j] = "handler"]_vars
  BY OnceStep
<1> QED
  BY <1>1, Invariance, PTL DEF Spec, RunsOnce

-----------------------------------------------------------------------------
(* Nothing leaks, and nothing is left in doubt.                            *)

\* What _pending holds is on its way into _spawn.
PendingKnown ==
  phase # "stopping" => \A j \in pending : enq[j] = "pended" \/ j \in spawnq

Tidy == BooksBounded /\ PendingKnown /\ SpoolOwned

\* Every unknown install waits for its question, or has had it asked.
Asked ==
  phase \in {"boot", "serving"} =>
    \A j \in Jobs : row[j] = "unknown" /\ HasReconciler(j) =>
      j \in todo \/ \E r \in Reconcilers : about[r] = j /\ (Owned(r) \/ at[r] = "ended")

\* A job that finishes takes its books and its file along.
LEMMA FinishTidy ==
  ASSUME TypeOK, Core, QueueOK, Tidy, NEW j \in Jobs, NEW status, Finish(j, status),
         at[j] # "none", UNCHANGED <<phase, pending, enq, spawnq>>
  PROVE  Tidy'
<1>1. /\ at'[j] = "ended"
      /\ \A k \in Jobs \ {j} : at'[k] = at[k] \/ (at[k] = "acquiring" /\ at'[k] = "granted")
  BY FinishTasks
<1>2. \A k \in Jobs \ {j} : Owned(k) => Owned(k)'
  BY <1>1 DEF Owned
<1>3. spool' = spool \ {j} /\ tasks' = tasks \ {j} /\ done' = done \ {j}
  BY DEF Finish, Forget
<1>4. phase # "stopping" => j \notin pending
  BY DEF Core, OneStation, Tidy, PendingKnown
<1>5. spool \subseteq Jobs /\ tasks \subseteq Jobs /\ done \subseteq Jobs /\ pending \subseteq Jobs
  BY DEF TypeOK
<1>6. BooksBounded'
  BY <1>2, <1>3, <1>4, <1>5 DEF Tidy, BooksBounded
<1>7. PendingKnown'
  BY DEF Tidy, PendingKnown
<1>8. SpoolOwned'
  BY <1>2, <1>3, <1>5 DEF Tidy, SpoolOwned
<1> QED
  BY <1>6, <1>7, <1>8 DEF Tidy

\* Every step leaves the dictionaries and the spool to jobs that are owned.
LEMMA TidyStep ==
  ASSUME TypeOK, Core, QueueOK, Tidy, [Next]_vars
  PROVE  Tidy'
<1> USE DEF TypeOK, Tidy, BooksBounded, PendingKnown, SpoolOwned, Owned, Core, OneStation
<1>1. ASSUME NEW j \in Jobs, EnqueueCommit(j) PROVE Tidy'
  <2>1. /\ spool' \subseteq spool \cup {j} /\ enq' = [enq EXCEPT ![j] = "committed"]
        /\ enq[j] = "none"
        /\ UNCHANGED <<phase, pending, tasks, done, spawnq, at>>
    BY <1>1 DEF EnqueueCommit, Commit, Unused, Untouched
  <2>2. \A k \in Jobs : Owned(k) => Owned(k)'
    BY <2>1
  <2> QED
    BY <2>1, <2>2
<1>2. ASSUME NEW j \in Jobs, EnqueuePend(j) PROVE Tidy'
  BY <1>2 DEF EnqueuePend
<1>3. ASSUME NEW j \in Jobs, EnqueueSend(j) PROVE Tidy'
  BY <1>3 DEF EnqueueSend
<1>4. ASSUME NEW j \in Jobs, ReconcileAfter(j) PROVE Tidy'
  <2>1. PICK r \in Jobs : r \in Unused /\ Commit(r, j, FALSE)
    BY <1>4 DEF ReconcileAfter, Reconcilers
  <2> QED
    BY <1>4, <2>1 DEF ReconcileAfter, Commit, Unused
<1>5. ASSUME NEW j \in Jobs, Spawn(j) PROVE Tidy'
  BY <1>5 DEF Spawn
<1>6. ASSUME NEW j \in Jobs, StillBorn(j) PROVE Tidy'
  BY <1>6 DEF StillBorn, CancelKnown
<1>7. ASSUME NEW j \in Jobs, StartCanceled(j) PROVE Tidy'
  <2>1. PICK status \in Terminal \ {"interrupted"} : Finish(j, status)
    BY <1>7 DEF StartCanceled, Terminal
  <2>2. at[j] # "none" /\ UNCHANGED <<phase, pending, enq, spawnq>>
    BY <1>7 DEF StartCanceled
  <2> HIDE DEF Tidy, Core
  <2> QED
    BY <2>1, <2>2, FinishTidy
<1>8. ASSUME NEW j \in Jobs, StartRunning(j) PROVE Tidy'
  BY <1>8 DEF StartRunning, EnterHandler
<1>9. ASSUME NEW j \in Jobs, StartWaiting(j) PROVE Tidy'
  BY <1>9 DEF StartWaiting
<1>10. ASSUME NEW j \in Jobs, Wake(j) PROVE Tidy'
  BY <1>10 DEF Wake, EnterHandler
<1>11. ASSUME NEW j \in Jobs, RunCanceled(j) PROVE Tidy'
  <2>1. PICK status \in Terminal \ {"interrupted"} : Finish(j, status)
    BY <1>11 DEF RunCanceled, Terminal
  <2>2. at[j] # "none" /\ UNCHANGED <<phase, pending, enq, spawnq>>
    BY <1>11 DEF RunCanceled
  <2> HIDE DEF Tidy, Core
  <2> QED
    BY <2>1, <2>2, FinishTidy
<1>12. ASSUME NEW j \in Jobs, HandlerDispatch(j) PROVE Tidy'
  BY <1>12 DEF HandlerDispatch
<1>13. ASSUME NEW j \in Jobs, HandlerReturns(j) PROVE Tidy'
  <2>1. PICK status \in Terminal \ {"interrupted"} : Finish(j, status)
    BY <1>13, ReturnStatus
  <2>2. at[j] # "none" /\ UNCHANGED <<phase, pending, enq, spawnq>>
    BY <1>13 DEF HandlerReturns
  <2> HIDE DEF Tidy, Core
  <2> QED
    BY <2>1, <2>2, FinishTidy
<1>14. ASSUME NEW j \in Jobs, ReconcileNothingBuilt(j) PROVE Tidy'
  BY <1>14 DEF ReconcileNothingBuilt
<1>15. ASSUME NEW j \in Jobs, ReconcileFound(j) PROVE Tidy'
  BY <1>15 DEF ReconcileFound
<1>16. ASSUME NEW j \in Jobs, RecordLands(j) PROVE Tidy'
  BY <1>16 DEF RecordLands
<1>17. ASSUME NEW j \in Jobs, LoopCancel(j) PROVE Tidy'
  BY <1>17 DEF LoopCancel
<1>18. ASSUME NEW c \in Clients, CancelRead(c) PROVE Tidy'
  BY <1>18 DEF CancelRead
<1>19. ASSUME NEW c \in Clients, CancelGetTask(c) PROVE Tidy'
  BY <1>19 DEF CancelGetTask, Move
<1>20. ASSUME NEW c \in Clients, CancelTask(c) PROVE Tidy'
  BY <1>20 DEF CancelTask, Move, Idle
<1>21. ASSUME NEW c \in Clients, CancelCheckPending(c) PROVE Tidy'
  BY <1>21 DEF CancelCheckPending, Move
<1>22. ASSUME NEW c \in Clients, CancelNote(c) PROVE Tidy'
  BY <1>22 DEF CancelNote, Idle
<1>23. ASSUME NEW c \in Clients, CancelUpdate(c) PROVE Tidy'
  BY <1>23 DEF CancelUpdate, Idle, DirectStatus, Cancelable
<1>24. CASE Stop
  BY <1>24 DEF Stop
<1>25. CASE Die
  BY <1>25 DEF Die, Idle
<1>26. CASE Sweep
  BY <1>26 DEF Sweep, Swept, Orphans, ToAsk, HasReconciler
<1>27. CASE Serve
  BY <1>27 DEF Serve
<1>28. CASE UNCHANGED vars
  BY <1>28 DEF vars
<1> QED
  BY <1>1, <1>2, <1>3, <1>4, <1>5, <1>6, <1>7, <1>8, <1>9, <1>10, <1>11, <1>12, <1>13, <1>14,
     <1>15, <1>16, <1>17, <1>18, <1>19, <1>20, <1>21, <1>22, <1>23, <1>24, <1>25, <1>26, <1>27, <1>28 DEF Next, JobStep, CancelStep

\* A finishing job asks if it ends in doubt, and leaves other questions be.
LEMMA FinishAsked ==
  ASSUME TypeOK, QueueOK, Asked, NEW j \in Jobs, NEW status, Finish(j, status),
         at[j] # "none", UNCHANGED <<phase, about, enq, spawnq>>
  PROVE  Asked'
<1>1. /\ at'[j] = "ended"
      /\ \A k \in Jobs \ {j} : at'[k] = at[k] \/ (at[k] = "acquiring" /\ at'[k] = "granted")
  BY FinishTasks
<1>2. \A k \in Jobs : Owned(k) \/ at[k] = "ended" => Owned(k)' \/ at'[k] = "ended"
  BY <1>1 DEF Owned
<1>3. /\ row' = [row EXCEPT ![j] = status]
      /\ todo' = IF status = "unknown" /\ HasReconciler(j) THEN todo \cup {j} ELSE todo
  BY DEF Finish
<1> QED
  BY <1>2, <1>3 DEF Asked, TypeOK, HasReconciler, Reconcilers

\* Every step keeps each doubt with somebody who asks.
LEMMA AskedStep ==
  ASSUME TypeOK, Core, QueueOK, Asked, [Next]_vars
  PROVE  Asked'
<1> USE DEF TypeOK, Asked, Owned, HasReconciler, Reconcilers
<1>1. ASSUME NEW j \in Jobs, EnqueueCommit(j) PROVE Asked'
  BY <1>1 DEF EnqueueCommit, Commit, Unused, Core, Untouched
<1>2. ASSUME NEW j \in Jobs, EnqueuePend(j) PROVE Asked'
  BY <1>2 DEF EnqueuePend
<1>3. ASSUME NEW j \in Jobs, EnqueueSend(j) PROVE Asked'
  BY <1>3 DEF EnqueueSend
<1>4. ASSUME NEW j \in Jobs, ReconcileAfter(j) PROVE Asked'
  <2>1. PICK r \in Reconcilers \cap Unused : Commit(r, j, FALSE)
    BY <1>4 DEF ReconcileAfter
  <2> QED
    BY <1>4, <2>1 DEF ReconcileAfter, Commit, Unused, Core, Untouched
<1>5. ASSUME NEW j \in Jobs, Spawn(j) PROVE Asked'
  BY <1>5 DEF Spawn
<1>6. ASSUME NEW j \in Jobs, StillBorn(j) PROVE Asked'
  BY <1>6 DEF StillBorn
<1>7. ASSUME NEW j \in Jobs, StartCanceled(j) PROVE Asked'
  <2>1. PICK status \in Terminal \ {"interrupted"} : Finish(j, status)
    BY <1>7 DEF StartCanceled, Terminal
  <2>2. at[j] # "none" /\ UNCHANGED <<phase, about, enq, spawnq>>
    BY <1>7 DEF StartCanceled
  <2> HIDE DEF Asked, TypeOK
  <2> QED
    BY <2>1, <2>2, FinishAsked
<1>8. ASSUME NEW j \in Jobs, StartRunning(j) PROVE Asked'
  BY <1>8 DEF StartRunning, EnterHandler
<1>9. ASSUME NEW j \in Jobs, StartWaiting(j) PROVE Asked'
  BY <1>9 DEF StartWaiting
<1>10. ASSUME NEW j \in Jobs, Wake(j) PROVE Asked'
  BY <1>10 DEF Wake, EnterHandler
<1>11. ASSUME NEW j \in Jobs, RunCanceled(j) PROVE Asked'
  <2>1. PICK status \in Terminal \ {"interrupted"} : Finish(j, status)
    BY <1>11 DEF RunCanceled, Terminal
  <2>2. at[j] # "none" /\ UNCHANGED <<phase, about, enq, spawnq>>
    BY <1>11 DEF RunCanceled
  <2> HIDE DEF Asked, TypeOK
  <2> QED
    BY <2>1, <2>2, FinishAsked
<1>12. ASSUME NEW j \in Jobs, HandlerDispatch(j) PROVE Asked'
  BY <1>12 DEF HandlerDispatch
<1>13. ASSUME NEW j \in Jobs, HandlerReturns(j) PROVE Asked'
  <2>1. PICK status \in Terminal \ {"interrupted"} : Finish(j, status)
    BY <1>13, ReturnStatus
  <2>2. at[j] # "none" /\ UNCHANGED <<phase, about, enq, spawnq>>
    BY <1>13 DEF HandlerReturns
  <2> HIDE DEF Asked, TypeOK
  <2> QED
    BY <2>1, <2>2, FinishAsked
<1>14. ASSUME NEW j \in Jobs, ReconcileNothingBuilt(j) PROVE Asked'
  BY <1>14 DEF ReconcileNothingBuilt, Core, AboutKnown
<1>15. ASSUME NEW j \in Jobs, ReconcileFound(j) PROVE Asked'
  BY <1>15 DEF ReconcileFound
<1>16. ASSUME NEW j \in Jobs, RecordLands(j) PROVE Asked'
  BY <1>16 DEF RecordLands, Core, AboutKnown
<1>17. ASSUME NEW j \in Jobs, LoopCancel(j) PROVE Asked'
  BY <1>17 DEF LoopCancel
<1>18. ASSUME NEW c \in Clients, CancelRead(c) PROVE Asked'
  BY <1>18 DEF CancelRead
<1>19. ASSUME NEW c \in Clients, CancelGetTask(c) PROVE Asked'
  BY <1>19 DEF CancelGetTask, Move
<1>20. ASSUME NEW c \in Clients, CancelTask(c) PROVE Asked'
  BY <1>20 DEF CancelTask, Move, Idle
<1>21. ASSUME NEW c \in Clients, CancelCheckPending(c) PROVE Asked'
  BY <1>21 DEF CancelCheckPending, Move
<1>22. ASSUME NEW c \in Clients, CancelNote(c) PROVE Asked'
  BY <1>22 DEF CancelNote, Idle
<1>23. ASSUME NEW c \in Clients, CancelUpdate(c) PROVE Asked'
  BY <1>23 DEF CancelUpdate, DirectStatus, Cancelable, Core, CancelKnown
<1>24. CASE Stop
  BY <1>24 DEF Stop
<1>25. CASE Die
  BY <1>25 DEF Die
<1>26. CASE Sweep
  BY <1>26 DEF Sweep, Swept, Orphans, ToAsk, HasReconciler
<1>27. CASE Serve
  BY <1>27 DEF Serve
<1>28. CASE UNCHANGED vars
  BY <1>28 DEF vars
<1> QED
  BY <1>1, <1>2, <1>3, <1>4, <1>5, <1>6, <1>7, <1>8, <1>9, <1>10, <1>11, <1>12, <1>13, <1>14,
     <1>15, <1>16, <1>17, <1>18, <1>19, <1>20, <1>21, <1>22, <1>23, <1>24, <1>25, <1>26, <1>27, <1>28 DEF Next, JobStep, CancelStep

\* The queue is empty until the process serves, and then not beside a free slot.
SlotsKept == NoIdleSlot /\ (phase \in {"down", "boot"} => waiters = <<>>)

\* Nobody waits beside a free slot as long as no holder leaves, and nobody
\* joins the queue.
LEMMA SameHolders ==
  ASSUME SlotsKept, Holders' = Holders, phase' = phase,
         waiters = <<>> => waiters' = <<>>
  PROVE  SlotsKept'
  BY DEF SlotsKept, NoIdleSlot

\* A slot left free goes to the head of the queue.
LEMMA FinishSlot ==
  ASSUME TypeOK, QueueOK, SlotsKept, NEW j \in Jobs, NEW status, Finish(j, status),
         UNCHANGED phase
  PROVE  SlotsKept'
<1>1. CASE j \in Holders /\ waiters # <<>>
  <2>1. Head(waiters) \in Jobs /\ at[Head(waiters)] = "acquiring"
    BY <1>1, HeadTailProperties DEF TypeOK, QueueOK
  <2>2. /\ Holders' = (Holders \ {j}) \cup {Head(waiters)}
        /\ Head(waiters) \notin Holders \ {j}
    BY <1>1, <2>1 DEF TypeOK, Finish, EndTask, Holders
  <2>3. IsFiniteSet(Holders \ {j}) /\ Cardinality(Holders \ {j}) = Cardinality(Holders) - 1
    BY <1>1, HoldersFinite, FS_RemoveElement
  <2>4. Cardinality(Holders') = Cardinality(Holders \ {j}) + 1
    BY <2>2, <2>3, FS_AddElement
  <2>5. Cardinality(Holders') = Cardinality(Holders)
    BY <2>3, <2>4, HoldersFinite, FS_CardinalityType
  <2> QED
    BY <1>1, <2>5 DEF SlotsKept, NoIdleSlot
<1>2. CASE j \notin Holders
  <2>1. Holders' = Holders /\ waiters' = waiters
    BY <1>2 DEF TypeOK, Finish, EndTask, Holders
  <2> QED
    BY <2>1 DEF SlotsKept, NoIdleSlot
<1>3. CASE waiters = <<>>
  <2>1. waiters' = <<>>
    BY <1>3 DEF Finish, EndTask
  <2> QED
    BY <2>1 DEF SlotsKept, NoIdleSlot
<1> QED
  BY <1>1, <1>2, <1>3

\* Every step hands a slot that comes free to whoever waits for one.
LEMMA SlotStep ==
  ASSUME TypeOK, Core, QueueOK, PoolBound, SlotsKept, [Next]_vars
  PROVE  SlotsKept'
<1>1. ASSUME NEW j \in Jobs, EnqueueCommit(j) PROVE SlotsKept'
  BY <1>1, SameHolders DEF EnqueueCommit, Holders, Commit
<1>2. ASSUME NEW j \in Jobs, EnqueuePend(j) PROVE SlotsKept'
  BY <1>2, SameHolders DEF EnqueuePend, Holders
<1>3. ASSUME NEW j \in Jobs, EnqueueSend(j) PROVE SlotsKept'
  BY <1>3, SameHolders DEF EnqueueSend, Holders
<1>4. ASSUME NEW j \in Jobs, ReconcileAfter(j) PROVE SlotsKept'
  BY <1>4, SameHolders DEF ReconcileAfter, Holders, Commit
<1>5. ASSUME NEW j \in Jobs, Spawn(j) PROVE SlotsKept'
  BY <1>5, SameHolders DEF Spawn, TypeOK, Holders, Core, OneStation
<1>6. ASSUME NEW j \in Jobs, StillBorn(j) PROVE SlotsKept'
  BY <1>6, SameHolders DEF StillBorn, TypeOK, Holders
<1>7. ASSUME NEW j \in Jobs, StartCanceled(j) PROVE SlotsKept'
  <2>1. PICK status \in Terminal \ {"interrupted"} : Finish(j, status)
    BY <1>7 DEF StartCanceled, Terminal
  <2>2. UNCHANGED phase
    BY <1>7 DEF StartCanceled
  <2> QED
    BY <2>1, <2>2, FinishSlot
<1>8. ASSUME NEW j \in Jobs, StartRunning(j) PROVE SlotsKept'
  <2>1. waiters' = <<>>
    BY <1>8 DEF StartRunning, PoolFull
  <2> QED
    BY <2>1 DEF SlotsKept, NoIdleSlot
<1>9. ASSUME NEW j \in Jobs, StartWaiting(j) PROVE SlotsKept'
  <2>1. Holders' = Holders /\ phase' = phase
    BY <1>9 DEF StartWaiting, TypeOK, Holders
  <2>2. /\ waiters = <<>> => Cardinality(Holders) >= MaxConcurrent
        /\ phase \notin {"down", "boot"}
    BY <1>9 DEF StartWaiting, PoolFull, LoopFree
  <2>3. Cardinality(Holders) \in Nat
    BY HoldersFinite, FS_CardinalityType
  <2> QED
    BY <2>1, <2>2, <2>3, PoolAssumption DEF SlotsKept, NoIdleSlot, PoolBound
<1>10. ASSUME NEW j \in Jobs, Wake(j) PROVE SlotsKept'
  BY <1>10, SameHolders DEF Wake, EnterHandler, TypeOK, Holders
<1>11. ASSUME NEW j \in Jobs, RunCanceled(j) PROVE SlotsKept'
  <2>1. PICK status \in Terminal \ {"interrupted"} : Finish(j, status)
    BY <1>11 DEF RunCanceled, Terminal
  <2>2. UNCHANGED phase
    BY <1>11 DEF RunCanceled
  <2> QED
    BY <2>1, <2>2, FinishSlot
<1>12. ASSUME NEW j \in Jobs, HandlerDispatch(j) PROVE SlotsKept'
  BY <1>12, SameHolders DEF HandlerDispatch, Holders
<1>13. ASSUME NEW j \in Jobs, HandlerReturns(j) PROVE SlotsKept'
  <2>1. PICK status \in Terminal \ {"interrupted"} : Finish(j, status)
    BY <1>13, ReturnStatus
  <2>2. UNCHANGED phase
    BY <1>13 DEF HandlerReturns
  <2> QED
    BY <2>1, <2>2, FinishSlot
<1>14. ASSUME NEW j \in Jobs, ReconcileNothingBuilt(j) PROVE SlotsKept'
  BY <1>14, SameHolders DEF ReconcileNothingBuilt, Holders
<1>15. ASSUME NEW j \in Jobs, ReconcileFound(j) PROVE SlotsKept'
  BY <1>15, SameHolders DEF ReconcileFound, Holders
<1>16. ASSUME NEW j \in Jobs, RecordLands(j) PROVE SlotsKept'
  BY <1>16, SameHolders DEF RecordLands, Holders
<1>17. ASSUME NEW j \in Jobs, LoopCancel(j) PROVE SlotsKept'
  <2>1. Holders' = Holders /\ phase' = phase
    BY <1>17 DEF LoopCancel, Holders
  <2>2. waiters = <<>> => waiters' = <<>>
    BY <1>17 DEF LoopCancel
  <2> QED
    BY <2>1, <2>2, SameHolders
<1>18. ASSUME NEW c \in Clients, CancelRead(c) PROVE SlotsKept'
  BY <1>18, SameHolders DEF CancelRead, Holders
<1>19. ASSUME NEW c \in Clients, CancelGetTask(c) PROVE SlotsKept'
  BY <1>19, SameHolders DEF CancelGetTask, Holders, Move
<1>20. ASSUME NEW c \in Clients, CancelTask(c) PROVE SlotsKept'
  BY <1>20, SameHolders DEF CancelTask, Holders, Move, Idle
<1>21. ASSUME NEW c \in Clients, CancelCheckPending(c) PROVE SlotsKept'
  BY <1>21, SameHolders DEF CancelCheckPending, Holders, Move
<1>22. ASSUME NEW c \in Clients, CancelNote(c) PROVE SlotsKept'
  BY <1>22, SameHolders DEF CancelNote, Holders, Idle
<1>23. ASSUME NEW c \in Clients, CancelUpdate(c) PROVE SlotsKept'
  BY <1>23, SameHolders DEF CancelUpdate, Holders, Idle, DirectStatus, Cancelable
<1>24. CASE Stop
  BY <1>24 DEF Stop, SlotsKept, NoIdleSlot
<1>25. CASE Die
  BY <1>25 DEF Die, SlotsKept, NoIdleSlot
<1>26. CASE Sweep
  BY <1>26 DEF Sweep, SlotsKept, NoIdleSlot
<1>27. CASE Serve
  BY <1>27 DEF Serve, SlotsKept, NoIdleSlot
<1>28. CASE UNCHANGED vars
  BY <1>28 DEF vars, SlotsKept, NoIdleSlot, Holders
<1> QED
  BY <1>1, <1>2, <1>3, <1>4, <1>5, <1>6, <1>7, <1>8, <1>9, <1>10, <1>11, <1>12, <1>13, <1>14,
     <1>15, <1>16, <1>17, <1>18, <1>19, <1>20, <1>21, <1>22, <1>23, <1>24, <1>25, <1>26, <1>27, <1>28 DEF Next, JobStep, CancelStep

Kept == IInv /\ SlotsKept /\ Tidy /\ Asked

\* An empty process keeps its books.
LEMMA KeptInit == Init => Kept
<1> SUFFICES ASSUME Init PROVE Kept
  OBVIOUS
<1>1. IInv
  BY InitInvariant
<1>2. SlotsKept
  BY DEF Init, SlotsKept, NoIdleSlot
<1>3. Tidy
  BY DEF Init, Tidy, BooksBounded, PendingKnown, SpoolOwned
<1>4. Asked
  BY DEF Init, Asked
<1> QED
  BY <1>1, <1>2, <1>3, <1>4 DEF Kept

\* Every step keeps them: the pool, the dictionaries and what is asked again.
LEMMA KeptStep == Kept /\ [Next]_vars => Kept'
<1> SUFFICES ASSUME Kept, [Next]_vars PROVE Kept'
  OBVIOUS
<1>1. IInv'
  BY StepInvariant DEF Kept
<1>2. SlotsKept'
  BY SlotStep DEF Kept, IInv
<1>3. Tidy'
  BY TidyStep DEF Kept, IInv
<1>4. Asked'
  BY AskedStep DEF Kept, IInv
<1> QED
  BY <1>1, <1>2, <1>3, <1>4 DEF Kept

\* So they hold in every state.
LEMMA KeptAlways == Spec => []Kept
<1> QED
  BY KeptInit, KeptStep, PTL DEF Spec

\* On every exit of _run, in any number of lives: no slot is lost or idle beside
\* a waiter, no dictionary and no spool file outlives its job.
THEOREM NothingEverLeaks == Spec => []NothingLeaks
<1>1. Kept => NothingLeaks
  BY DEF Kept, IInv, SlotsKept, Tidy, NothingLeaks
<1> QED
  BY <1>1, KeptAlways, PTL

\* Every install left in `unknown`, in this life or an earlier one, has had its
\* reconciliation queued.
THEOREM UnknownAlwaysAsked == Spec => []UnknownIsAsked
<1>1. Kept => UnknownIsAsked
  BY DEF Kept, Asked, UnknownIsAsked, LoopFree
<1> QED
  BY <1>1, KeptAlways, PTL

-----------------------------------------------------------------------------
(* The refinement: what a step of the runner is to the lifecycle.          *)

\* The lifecycle does not see what happened to k.
Same(k) == StageOf(k)' = StageOf(k) /\ (StageOf(k) = "over" => row'[k] = row[k])

\* A step that leaves every job's stage and verdict is a stutter,
LEMMA StutterMaps ==
  ASSUME \A k \in Jobs : Same(k)
  PROVE  UNCHANGED Lifecycle!vars
  BY DEF Same, Lifecycle!vars

\* a commit of enqueue is an Accept,
LEMMA AcceptMaps ==
  ASSUME NEW j \in Jobs, StageOf(j) = "none", StageOf(j)' = "accepted",
         \A k \in Jobs \ {j} : Same(k)
  PROVE  Lifecycle!Next
<1>1. Lifecycle!Accept(j)
  BY DEF Same, Lifecycle!Accept
<1> QED
  BY <1>1 DEF Lifecycle!Next

\* the entry of a handler is an Execute,
LEMMA ExecuteMaps ==
  ASSUME NEW j \in Jobs, StageOf(j) = "accepted", StageOf(j)' = "executing",
         \A k \in Jobs \ {j} : Same(k)
  PROVE  Lifecycle!Next
<1>1. Lifecycle!Execute(j)
  BY DEF Same, Lifecycle!Execute
<1> QED
  BY <1>1 DEF Lifecycle!Next

\* a verdict on a job that was on its way is a Settle,
LEMMA SettleMaps ==
  ASSUME NEW j \in Jobs, NEW v \in Terminal, row'[j] = v,
         StageOf(j) \in {"accepted", "executing"}, StageOf(j)' = "over",
         v \in {"succeeded", "failed", "unknown"} => StageOf(j) = "executing",
         \A k \in Jobs \ {j} : Same(k)
  PROVE  Lifecycle!Next
<1>1. Lifecycle!Settle(j, v)
  BY DEF Same, Lifecycle!Settle, Lifecycle!NeedsRun
<1>2. v \in Lifecycle!Verdicts
  BY DEF Terminal, Lifecycle!Verdicts
<1> QED
  BY <1>1, <1>2 DEF Lifecycle!Next

\* the answer of a reconciliation is a Resolve,
LEMMA ResolveMaps ==
  ASSUME NEW j \in Jobs, NEW v \in {"succeeded", "failed"}, row'[j] = v, row[j] = "unknown",
         StageOf(j) = "over", StageOf(j)' = "over",
         \A k \in Jobs \ {j} : Same(k)
  PROVE  Lifecycle!Next
<1>1. Lifecycle!Resolve(j, v)
  BY DEF Same, Lifecycle!Resolve
<1>2. v \in Lifecycle!Verdicts
  BY DEF Lifecycle!Verdicts
<1> QED
  BY <1>1, <1>2 DEF Lifecycle!Next

\* and a boot's sweep settles the orphans in one step.
LEMMA OrphansMap ==
  ASSUME NEW S \in SUBSET Jobs, S # {},
         \A j \in S : /\ StageOf(j) \in {"accepted", "executing"} /\ StageOf(j)' = "over"
                      /\ row'[j] \in {"interrupted", "unknown", "canceled"}
                      /\ row'[j] = "unknown" => StageOf(j) = "executing",
         \A k \in Jobs \ S : Same(k)
  PROVE  Lifecycle!Next
<1>0. [j \in S |-> row'[j]] \in [S -> {"interrupted", "unknown", "canceled"}]
  OBVIOUS
<1>1. PICK v \in [S -> {"interrupted", "unknown", "canceled"}] : v = [j \in S |-> row'[j]]
  BY <1>0
<1>2. \A j \in S : v[j] = row'[j]
  BY <1>1
<1>3. Lifecycle!SettleOrphans(S, v)
  BY <1>1, <1>2 DEF Same, Lifecycle!SettleOrphans, Lifecycle!NeedsRun
<1>4. \E T \in SUBSET Jobs :
        \E w \in [T -> {"interrupted", "unknown", "canceled"}] : Lifecycle!SettleOrphans(T, w)
  BY <1>1, <1>3, Zenon
<1> QED
  BY <1>4, Zenon DEF Lifecycle!Next

\* A handler that returns, or a task that is cancelled, settles its job.
LEMMA FinishMaps ==
  ASSUME IInv, NEW j \in Jobs, NEW status \in Terminal \ {"interrupted"}, Finish(j, status),
         Owned(j), status # "canceled" => at[j] = "handler", at[j] # "none",
         UNCHANGED <<enq, spawnq, started>>
  PROVE  Lifecycle!Next
<1>1. /\ at'[j] = "ended"
      /\ \A k \in Jobs \ {j} : at'[k] = at[k] \/ (at[k] = "acquiring" /\ at'[k] = "granted")
  BY FinishTasks DEF IInv
<1>2. row' = [row EXCEPT ![j] = status]
  BY DEF Finish
<1>3. \A k \in Jobs \ {j} : (Owned(k)' <=> Owned(k)) /\ row'[k] = row[k]
  BY <1>1, <1>2 DEF Owned, IInv, TypeOK
<1>4. \A k \in Jobs \ {j} : Same(k)
  BY <1>3 DEF Same, StageOf
<1>5. enq[j] = "none" /\ j \notin spawnq
  BY DEF IInv, Core, OneStation
<1>6. ~Owned(j)' /\ row'[j] = status
  BY <1>1, <1>2, <1>5 DEF Owned, IInv, TypeOK
<1>7. StageOf(j)' = "over"
  BY <1>6 DEF StageOf, Terminal
<1>8. row[j] # "none"
  BY DEF IInv, Core, Untouched
<1>9. StageOf(j) \in {"accepted", "executing"}
  BY <1>8 DEF StageOf
<1>10. at[j] = "handler" => StageOf(j) = "executing"
  BY <1>8 DEF StageOf, IInv, Core, RowFollows
<1> QED
  BY <1>4, <1>6, <1>7, <1>9, <1>10, SettleMaps

\* A job whose handler is entered executes, a canceled row notwithstanding.
LEMMA EnterMaps ==
  ASSUME IInv, NEW j \in Jobs, EnterHandler(j), at[j] \in {"created", "granted"},
         UNCHANGED <<enq, spawnq>>
  PROVE  Lifecycle!Next
<1>1. Owned(j) /\ Owned(j)' /\ j \notin started /\ row[j] # "none"
  BY DEF EnterHandler, IInv, TypeOK, Core, Untouched, RowFollows, Owned
<1>2. StageOf(j) = "accepted"
  BY <1>1 DEF StageOf
<1>3. StageOf(j)' = "executing"
  BY <1>1 DEF StageOf, EnterHandler, IInv, TypeOK, Statuses
<1>4. \A k \in Jobs \ {j} : Same(k)
  BY DEF EnterHandler, Same, StageOf, Owned, IInv, TypeOK
<1> QED
  BY <1>2, <1>3, <1>4, ExecuteMaps

\* A reconciliation's answer resolves the install it asked about.
LEMMA AnswerMaps ==
  ASSUME IInv, NEW j \in Jobs, NEW v \in {"succeeded", "failed"}, row[j] = "unknown",
         row' = [row EXCEPT ![j] = v], UNCHANGED <<enq, spawnq, at, started>>
  PROVE  Lifecycle!Next
<1>1. ~Owned(j) /\ ~Owned(j)' /\ row'[j] = v
  BY DEF IInv, TypeOK, Core, RowFollows, Owned
<1>2. StageOf(j) = "over" /\ StageOf(j)' = "over"
  BY <1>1 DEF StageOf, Terminal
<1>3. \A k \in Jobs \ {j} : Same(k)
  BY DEF Same, StageOf, Owned, IInv, TypeOK
<1> QED
  BY <1>1, <1>2, <1>3, ResolveMaps

\* Every step of the runner is a step of the lifecycle, or none.
LEMMA LifecycleStep ==
  ASSUME IInv, [Next]_vars
  PROVE  [Lifecycle!Next]_(Lifecycle!vars)
<1> DEFINE Goal == [Lifecycle!Next]_(Lifecycle!vars)
<1> HIDE DEF Goal
<1> SUFFICES Goal
  BY DEF Goal
<1>0. /\ (\A k \in Jobs : Same(k)) => Goal
      /\ Lifecycle!Next => Goal
  BY StutterMaps DEF Goal
<1>1. ASSUME NEW j \in Jobs, EnqueueCommit(j) PROVE Goal
  <2>1. StageOf(j) = "none" /\ StageOf(j)' = "accepted"
    BY <1>1 DEF EnqueueCommit, Commit, Unused, StageOf, IInv, TypeOK, Core, Untouched, Terminal
  <2>2. \A k \in Jobs \ {j} : Same(k)
    BY <1>1 DEF EnqueueCommit, Commit, Same, StageOf, Owned, IInv, TypeOK
  <2> QED
    BY <2>1, <2>2, <1>0, AcceptMaps
<1>2. ASSUME NEW j \in Jobs, EnqueuePend(j) PROVE Goal
  <2>1. \A k \in Jobs : Same(k)
    BY <1>2 DEF EnqueuePend, Same, StageOf, Owned, IInv, TypeOK
  <2> QED
    BY <2>1, <1>0
<1>3. ASSUME NEW j \in Jobs, EnqueueSend(j) PROVE Goal
  <2>1. \A k \in Jobs : Same(k)
    BY <1>3 DEF EnqueueSend, Same, StageOf, Owned, IInv, TypeOK, Core, OneStation
  <2> QED
    BY <2>1, <1>0
<1>4. ASSUME NEW j \in Jobs, ReconcileAfter(j) PROVE Goal
  <2>1. PICK r \in Jobs : r \in Unused /\ Commit(r, j, FALSE)
    BY <1>4 DEF ReconcileAfter, Reconcilers
  <2>2. StageOf(r) = "none" /\ StageOf(r)' = "accepted"
    BY <1>4, <2>1 DEF ReconcileAfter, Commit, Unused, StageOf, IInv, TypeOK, Core, Untouched, Terminal
  <2>3. \A k \in Jobs \ {r} : Same(k)
    BY <1>4, <2>1 DEF ReconcileAfter, Commit, Same, StageOf, Owned, IInv, TypeOK
  <2> QED
    BY <2>2, <2>3, <1>0, AcceptMaps
<1>5. ASSUME NEW j \in Jobs, Spawn(j) PROVE Goal
  <2>1. \A k \in Jobs : Same(k)
    BY <1>5 DEF Spawn, Same, StageOf, Owned, IInv, TypeOK, Core, OneStation
  <2> QED
    BY <2>1, <1>0
<1>6. ASSUME NEW j \in Jobs, StillBorn(j) PROVE Goal
  <2>1. Owned(j) /\ ~Owned(j)' /\ row[j] \in {"queued", "canceled"} /\ row' = row /\ started' = started
    BY <1>6 DEF StillBorn, IInv, TypeOK, Core, OneStation, RowFollows, Owned
  <2>2. \A k \in Jobs \ {j} : Same(k)
    BY <1>6 DEF StillBorn, Same, StageOf, Owned, IInv, TypeOK
  <2>3. CASE row[j] = "queued"
    <3>1. Same(j)
      BY <2>1, <2>3 DEF Same, StageOf, Terminal
    <3> QED
      BY <2>2, <3>1, <1>0
  <2>4. CASE row[j] = "canceled"
    <3>1. /\ StageOf(j) \in {"accepted", "executing"} /\ StageOf(j)' = "over"
          /\ row'[j] = "canceled" /\ "canceled" \in Terminal
      BY <2>1, <2>4 DEF StageOf, Terminal
    <3> QED
      BY <2>2, <3>1, <1>0, SettleMaps
  <2> QED
    BY <2>1, <2>3, <2>4
<1>7. ASSUME NEW j \in Jobs, StartCanceled(j) PROVE Goal
  <2>1. /\ Finish(j, "canceled") /\ Owned(j) /\ at[j] # "none"
        /\ "canceled" \in Terminal \ {"interrupted"} /\ UNCHANGED <<enq, spawnq, started>>
    BY <1>7 DEF StartCanceled, Owned, Terminal
  <2> QED
    BY <2>1, <1>0, FinishMaps
<1>8. ASSUME NEW j \in Jobs, StartRunning(j) PROVE Goal
  <2>1. /\ EnterHandler(j) /\ at[j] \in {"created", "granted"}
        /\ UNCHANGED <<enq, spawnq>>
    BY <1>8 DEF StartRunning
  <2> QED
    BY <2>1, <1>0, EnterMaps
<1>9. ASSUME NEW j \in Jobs, StartWaiting(j) PROVE Goal
  <2>1. \A k \in Jobs : Same(k)
    BY <1>9 DEF StartWaiting, Same, StageOf, Owned, IInv, TypeOK
  <2> QED
    BY <2>1, <1>0
<1>10. ASSUME NEW j \in Jobs, Wake(j) PROVE Goal
  <2>1. /\ EnterHandler(j) /\ at[j] \in {"created", "granted"}
        /\ UNCHANGED <<enq, spawnq>>
    BY <1>10 DEF Wake
  <2> QED
    BY <2>1, <1>0, EnterMaps
<1>11. ASSUME NEW j \in Jobs, RunCanceled(j) PROVE Goal
  <2>1. /\ Finish(j, "canceled") /\ Owned(j) /\ at[j] # "none"
        /\ "canceled" \in Terminal \ {"interrupted"} /\ UNCHANGED <<enq, spawnq, started>>
    BY <1>11 DEF RunCanceled, Owned, Terminal
  <2> QED
    BY <2>1, <1>0, FinishMaps
<1>12. ASSUME NEW j \in Jobs, HandlerDispatch(j) PROVE Goal
  <2>1. \A k \in Jobs : Same(k)
    BY <1>12 DEF HandlerDispatch, Same, StageOf, Owned, IInv, TypeOK
  <2> QED
    BY <2>1, <1>0
<1>13. ASSUME NEW j \in Jobs, HandlerReturns(j) PROVE Goal
  <2>1. PICK status \in Terminal \ {"interrupted"} : Finish(j, status)
    BY <1>13, ReturnStatus
  <2>2. Owned(j) /\ at[j] = "handler" /\ UNCHANGED <<enq, spawnq, started>>
    BY <1>13 DEF HandlerReturns, Owned
  <2> QED
    BY <2>1, <2>2, <1>0, FinishMaps
<1>14. ASSUME NEW j \in Jobs, ReconcileNothingBuilt(j) PROVE Goal
  <2>1. /\ about[j] \in Jobs /\ row[about[j]] = "unknown"
        /\ row' = [row EXCEPT ![about[j]] = "failed"]
        /\ UNCHANGED <<enq, spawnq, at, started>>
    BY <1>14 DEF ReconcileNothingBuilt, IInv, Core, AboutKnown, Untouched
  <2> QED
    BY <2>1, <1>0, AnswerMaps
<1>15. ASSUME NEW j \in Jobs, ReconcileFound(j) PROVE Goal
  <2>1. \A k \in Jobs : Same(k)
    BY <1>15 DEF ReconcileFound, Same, StageOf, Owned, IInv, TypeOK
  <2> QED
    BY <2>1, <1>0
<1>16. ASSUME NEW j \in Jobs, RecordLands(j) PROVE Goal
  <2>1. about[j] \in Jobs /\ UNCHANGED <<enq, spawnq, at, started>>
    BY <1>16 DEF RecordLands, IInv, Core, AboutKnown
  <2>2. CASE row[about[j]] = "unknown"
    BY <1>16, <2>1, <2>2, <1>0, AnswerMaps DEF RecordLands
  <2>3. CASE row[about[j]] # "unknown"
    <3>1. \A k \in Jobs : Same(k)
      BY <1>16, <2>1, <2>3 DEF RecordLands, Same, StageOf, Owned
    <3> QED
      BY <3>1, <1>0
  <2> QED
    BY <2>2, <2>3
<1>17. ASSUME NEW j \in Jobs, LoopCancel(j) PROVE Goal
  <2>1. \A k \in Jobs : Same(k)
    BY <1>17 DEF LoopCancel, Same, StageOf, Owned, IInv, TypeOK
  <2> QED
    BY <2>1, <1>0
<1>18. ASSUME NEW c \in Clients, CancelRead(c) PROVE Goal
  <2>1. \A k \in Jobs : Same(k)
    BY <1>18 DEF CancelRead, Same, StageOf, Owned, IInv, TypeOK
  <2> QED
    BY <2>1, <1>0
<1>19. ASSUME NEW c \in Clients, CancelGetTask(c) PROVE Goal
  <2>1. \A k \in Jobs : Same(k)
    BY <1>19 DEF CancelGetTask, Move, Same, StageOf, Owned, IInv, TypeOK
  <2> QED
    BY <2>1, <1>0
<1>20. ASSUME NEW c \in Clients, CancelTask(c) PROVE Goal
  <2>1. \A k \in Jobs : Same(k)
    BY <1>20 DEF CancelTask, Move, Idle, Same, StageOf, Owned, IInv, TypeOK
  <2> QED
    BY <2>1, <1>0
<1>21. ASSUME NEW c \in Clients, CancelCheckPending(c) PROVE Goal
  <2>1. \A k \in Jobs : Same(k)
    BY <1>21 DEF CancelCheckPending, Move, Same, StageOf, Owned, IInv, TypeOK
  <2> QED
    BY <2>1, <1>0
<1>22. ASSUME NEW c \in Clients, CancelNote(c) PROVE Goal
  <2>1. \A k \in Jobs : Same(k)
    BY <1>22 DEF CancelNote, Idle, Same, StageOf, Owned, IInv, TypeOK
  <2> QED
    BY <2>1, <1>0
<1>23. ASSUME NEW c \in Clients, CancelUpdate(c) PROVE Goal
  <2>1. UNCHANGED <<enq, spawnq, at, started>> /\ \A k \in Jobs : Owned(k)' <=> Owned(k)
    BY <1>23 DEF CancelUpdate, Owned
  <2>0. cl[c].job \in Jobs /\ row[cl[c].job] # "none"
    BY <1>23 DEF CancelUpdate, IInv, Core, CancelKnown
  <2>2. PICK j \in Jobs : j = cl[c].job /\ row[j] # "none"
    BY <2>0
  <2>3. row' = IF row[j] \notin Terminal THEN [row EXCEPT ![j] = "canceled"] ELSE row
    BY <1>23, <2>2 DEF CancelUpdate, Cancelable, DirectStatus
  <2>4. \A k \in Jobs \ {j} : Same(k)
    BY <2>1, <2>3 DEF Same, StageOf, IInv, TypeOK
  <2>5. CASE row[j] \in Terminal \/ Owned(j)
    <3>1. Same(j)
      BY <2>1, <2>2, <2>3, <2>5 DEF Same, StageOf, IInv, TypeOK
    <3> QED
      BY <2>4, <3>1, <1>0
  <2>6. CASE row[j] \notin Terminal /\ ~Owned(j)
    <3>1. /\ row'[j] = "canceled" /\ "canceled" \in Terminal
          /\ StageOf(j) \in {"accepted", "executing"}
      BY <2>2, <2>3, <2>6 DEF StageOf, IInv, TypeOK, Terminal
    <3>2. StageOf(j)' = "over"
      BY <2>1, <2>2, <2>6, <3>1 DEF StageOf
    <3> QED
      BY <2>2, <2>4, <3>1, <3>2, <1>0, SettleMaps
  <2> QED
    BY <2>5, <2>6
<1>24. CASE Stop
  <2>1. \A k \in Jobs : Same(k)
    BY <1>24 DEF Stop, Same, StageOf, Owned, IInv, TypeOK
  <2> QED
    BY <2>1, <1>0
<1>25. CASE Die
  <2> DEFINE S == {k \in Jobs : Owned(k) /\ row[k] \in Terminal}
  <2>1. row' = row /\ started' = started /\ \A k \in Jobs : ~Owned(k)'
    BY <1>25 DEF Die, Owned
  <2>2. \A k \in S : row[k] \in {"canceled"}
    BY DEF IInv, Core, RowFollows, Terminal, Owned
  <2>3. \A k \in Jobs \ S : Same(k)
    BY <2>1 DEF Same, StageOf
  <2>4. \A k \in S : /\ StageOf(k) \in {"accepted", "executing"} /\ StageOf(k)' = "over"
                     /\ row'[k] = "canceled"
    BY <2>1, <2>2 DEF StageOf, Terminal
  <2>5. CASE S = {}
    BY <2>3, <2>5, <1>0
  <2>6. CASE S # {}
    <3>1. S \in SUBSET Jobs
      OBVIOUS
    <3> HIDE DEF S
    <3> QED
      BY <2>3, <2>4, <2>6, <3>1, <1>0, OrphansMap
  <2> QED
    BY <2>5, <2>6
<1>26. CASE Sweep
  <2>1. /\ UNCHANGED <<at, enq, spawnq, started>>
        /\ \A k \in Jobs : ~Owned(k) /\ ~Owned(k)' /\ row'[k] = Swept(k)
    BY <1>26 DEF Sweep, IInv, Core, RowsKept, Owned
  <2>2. \A k \in Jobs \ Orphans : Same(k)
    BY <2>1 DEF Swept, Same, StageOf
  <2>3. \A k \in Orphans :
          /\ StageOf(k) \in {"accepted", "executing"} /\ StageOf(k)' = "over"
          /\ row'[k] \in {"interrupted", "unknown", "canceled"}
          /\ row'[k] = "unknown" => StageOf(k) = "executing"
    BY <2>1 DEF Orphans, Swept, StageOf, Terminal, IInv, Core, DispatchFollows
  <2>4. CASE Orphans = {}
    BY <2>2, <2>4, <1>0
  <2>5. CASE Orphans # {}
    <3>1. Orphans \in SUBSET Jobs
      BY DEF Orphans
    <3> QED
      BY <2>2, <2>3, <2>5, <3>1, <1>0, OrphansMap
  <2> QED
    BY <2>4, <2>5
<1>27. CASE Serve
  <2>1. \A k \in Jobs : Same(k)
    BY <1>27 DEF Serve, Same, StageOf, Owned, IInv, TypeOK
  <2> QED
    BY <2>1, <1>0
<1>28. CASE UNCHANGED vars
  <2>1. \A k \in Jobs : Same(k)
    BY <1>28 DEF vars, Same, StageOf, Owned, IInv, TypeOK
  <2> QED
    BY <2>1, <1>0
<1> QED
  BY <1>1, <1>2, <1>3, <1>4, <1>5, <1>6, <1>7, <1>8, <1>9, <1>10, <1>11, <1>12, <1>13, <1>14,
     <1>15, <1>16, <1>17, <1>18, <1>19, <1>20, <1>21, <1>22, <1>23, <1>24, <1>25, <1>26, <1>27, <1>28 DEF Next, JobStep, CancelStep

\* The runner implements the lifecycle: whatever is cancelled and whenever the
\* process dies, no verdict comes without a run behind it, and none is replaced
\* but by a reconciliation's answer.
THEOREM LifecycleImplemented == Spec => Lifecycle!Spec
<1>1. Init => Lifecycle!Init
  BY DEF Init, Lifecycle!Init, StageOf
<1>2. IInv /\ [Next]_vars => [Lifecycle!Next]_(Lifecycle!vars)
  BY LifecycleStep
<1> QED
  BY <1>1, <1>2, Invariance, PTL DEF Spec, Lifecycle!Spec

==============================================================================
