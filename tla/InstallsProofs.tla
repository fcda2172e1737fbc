---------------------------- MODULE InstallsProofs ----------------------------
(***************************************************************************)
(* The records of Installs for any number of installs, ids and mishaps.    *)
(* What OneRecord and RecordsAgree say of rows rests on what a handler and *)
(* a check know of the node at each of their stages, which InstallInv adds: *)
(* an install that has filed nothing yet is running or was never resolved, *)
(* and whoever asks again sees at least what was seen before.              *)
(***************************************************************************)
EXTENDS Installs, TLAPS

(* Handler and check take turns: one ends before the other is queued. *)
TaskKnown ==
  \A j \in Installs :
    /\ pc[j] # "none" <=> job[j] = "running"
    /\ rec[j] # "none" => job[j] = "unknown"
    /\ job[j] \in {"none", "queued"} => j \notin dispatched /\ script[j] = "off"
    /\ pc[j] \in {"ssh", "exited", "counted", "filed"} => j \in dispatched
    /\ job[j] = "none" => pin[j] = NoId
    /\ \A k \in overlap[j] : job[k] \notin {"none", "queued"}

(* What was read of the node is there; a script builds what it was told. *)
NodeKnown ==
  /\ \A j \in Installs : before[j] \subseteq Present /\ after[j] \subseteq Present
  /\ \A c \in Ids : maker[c] # Nobody =>
       /\ script[maker[c]] # "off"
       /\ pin[maker[c]] # NoId => c = pin[maker[c]]

(* The container an install, or the check of it, has settled on. *)
PickKnown ==
  \A j \in Installs :
    /\ pc[j] = "filed" => pick[j] \in Ids /\ app[pick[j]] = j
    /\ rec[j] \in {"looking", "filing", "filed"} =>
         /\ pick[j] \in Ids /\ pick[j] \in Present
         /\ pin[j] # NoId => pick[j] = pin[j]
         /\ pin[j] = NoId => pick[j] \notin before[j] /\ ~ToldToAnother(j, pick[j])
    /\ rec[j] = "filed" => Tracked(pick[j])

(* Whatever an install has filed before, its check settles on the same. *)
FiledKnown ==
  \A c \in Ids : app[c] \in Installs =>
    LET j == app[c] IN
    /\ c \in Present
    /\ job[j] \notin {"none", "queued"}
    /\ job[j] = "running" => pc[j] = "filed" /\ pick[j] = c
    /\ pin[j] # NoId => c = pin[j]
    /\ pin[j] = NoId => c \notin before[j]
    /\ rec[j] = "asked" => c \in after[j]
    /\ rec[j] \in {"looking", "filing", "filed"} => c = pick[j] \/ ToldToAnother(j, c)

(* A success names what it was told to build, if it was told. *)
ResultKnown ==
  \A j \in Installs : job[j] = "succeeded" /\ pin[j] # NoId => result[j] = pin[j]

InstallInv ==
  TypeOK /\ OneRecord /\ FiledIsSettled /\ SuccessIsTracked
  /\ TaskKnown /\ NodeKnown /\ PickKnown /\ FiledKnown /\ ResultKnown
-----------------------------------------------------------------------------
(* Nothing is filed, built or known yet. *)
LEMMA InstallsInitInv == Init => InstallInv
  BY PinAssumption, NoIdAssumption, PeopleAssumption, BoundsAssumption
  DEF Init, InstallInv, TypeOK, OneRecord, FiledIsSettled, SuccessIsTracked, TaskKnown,
      NodeKnown, PickKnown, FiledKnown, ResultKnown, Finished, Present, Tracked

(* Every handler, check, script and crash keeps the types. *)
LEMMA InstallsTypeStep == TypeOK /\ [Next]_vars => TypeOK'
  <1> SUFFICES ASSUME TypeOK, [Next]_vars PROVE TypeOK'
    OBVIOUS
  <1> USE PinAssumption, NoIdAssumption, PeopleAssumption, BoundsAssumption
      DEF TypeOK, Finished, node, Present
  <1>1. ASSUME NEW j \in Installs, ScriptBuilds(j) PROVE TypeOK'
    BY <1>1 DEF ScriptBuilds
  <1>2. ASSUME NEW j \in Installs, ScriptEnds(j) PROVE TypeOK'
    BY <1>2 DEF ScriptEnds
  <1>3. ASSUME NEW j \in Installs, Accept(j) PROVE TypeOK'
    BY <1>3 DEF Accept
  <1>4. ASSUME NEW j \in Installs, Start(j) PROVE TypeOK'
    BY <1>4 DEF Start, Running
  <1>5. ASSUME NEW j \in Installs, ReadBefore(j) PROVE TypeOK'
    BY <1>5 DEF ReadBefore, Ends
  <1>6. ASSUME NEW j \in Installs, FailsEarly(j) PROVE TypeOK'
    BY <1>6 DEF FailsEarly, Ends
  <1>7. ASSUME NEW j \in Installs, Dispatch(j) PROVE TypeOK'
    BY <1>7 DEF Dispatch, Checkpoint
  <1>8. ASSUME NEW j \in Installs, Connects(j) PROVE TypeOK'
    BY <1>8 DEF Connects
  <1>9. ASSUME NEW j \in Installs, NeverConnects(j) PROVE TypeOK'
    BY <1>9 DEF NeverConnects, Fails, Ends
  <1>10. ASSUME NEW j \in Installs, ConnectionLost(j) PROVE TypeOK'
    BY <1>10 DEF ConnectionLost, Fails, Ends
  <1>11. ASSUME NEW j \in Installs, ExitStatus(j) PROVE TypeOK'
    BY <1>11 DEF ExitStatus, Ends
  <1>12. ASSUME NEW j \in Installs, ReadAfter(j) PROVE TypeOK'
    BY <1>12 DEF ReadAfter
  <1>13. ASSUME NEW j \in Installs, ReadAfterFails(j) PROVE TypeOK'
    BY <1>13 DEF ReadAfterFails, Ends
  <1>14. ASSUME NEW j \in Installs, FileApp(j) PROVE TypeOK'
    BY <1>14 DEF FileApp, Ends, Mine, Appeared
  <1>15. ASSUME NEW j \in Installs, Succeeds(j) PROVE TypeOK'
    BY <1>15 DEF Succeeds, Ends
  <1>16. ASSUME NEW j \in Installs, Canceled(j) PROVE TypeOK'
    BY <1>16 DEF Canceled, Ends
  <1>17. ASSUME NEW j \in Installs, Ask(j) PROVE TypeOK'
    BY <1>17 DEF Ask
  <1>18. ASSUME NEW j \in Installs, AskFails(j) PROVE TypeOK'
    BY <1>18 DEF AskFails
  <1>19. ASSUME NEW j \in Installs, NothingBuilt(j) PROVE TypeOK'
    BY <1>19 DEF NothingBuilt, Resolve, Candidates, Appeared, Concurrent
  <1>20. ASSUME NEW j \in Installs, Ambiguous(j) PROVE TypeOK'
    BY <1>20 DEF Ambiguous
  <1>21. ASSUME NEW j \in Installs, Found(j) PROVE TypeOK'
    BY <1>21 DEF Found, Candidates, Appeared, Concurrent
  <1>22. ASSUME NEW j \in Installs, Look(j) PROVE TypeOK'
    BY <1>22 DEF Look, Resolve, Existing
  <1>23. ASSUME NEW j \in Installs, File(j) PROVE TypeOK'
    BY <1>23 DEF File
  <1>24. ASSUME NEW j \in Installs, Answer(j) PROVE TypeOK'
    BY <1>24 DEF Answer, Resolve
  <1>25. ASSUME NEW c \in Ids, Adopt(c) PROVE TypeOK'
    BY <1>25 DEF Adopt
  <1>26. CASE Restart
    BY <1>26 DEF Restart, Swept
  <1>27. CASE UNCHANGED vars
    BY <1>27 DEF vars
  <1>28. QED
    BY <1>1, <1>2, <1>3, <1>4, <1>5, <1>6, <1>7, <1>8, <1>9, <1>10, <1>11,
       <1>12, <1>13, <1>14, <1>15, <1>16, <1>17, <1>18, <1>19, <1>20, <1>21,
       <1>22, <1>23, <1>24, <1>25, <1>26, <1>27 DEF Next, InstallStep,
       ReconcileStep

(* Whoever has counted but not filed has no app yet ... *)
LEMMA NothingFiledYet ==
  ASSUME InstallInv, NEW j \in Installs, pc[j] = "counted"
  PROVE  \A c \in Ids : app[c] # j
  BY DEF InstallInv, TaskKnown, FiledKnown

(* ... and a check about to file finds none but what was another's to build. *)
LEMMA FiledBefore ==
  ASSUME InstallInv, NEW j \in Installs, rec[j] = "filing", ~Tracked(pick[j])
  PROVE  /\ job[j] = "unknown" /\ pick[j] \in Ids
         /\ \A c \in Ids : app[c] = j => ToldToAnother(j, c)
  BY PeopleAssumption DEF InstallInv, TaskKnown, PickKnown, FiledKnown, Tracked

(* So neither gives an install a second record. *)
LEMMA FileAppRecord ==
  ASSUME InstallInv, NEW j \in Installs, FileApp(j)
  PROVE  OneRecord'
  <1>1. \A c \in Ids : app[c] # j
    BY NothingFiledYet DEF FileApp
  <1>2. app \in [Ids -> Installs \cup {Operator, Nobody}] /\ OneRecord
    BY DEF InstallInv, TypeOK
  <1>3. \A i, c : ToldToAnother(i, c)' <=> ToldToAnother(i, c)
    BY DEF FileApp, ToldToAnother
  <1>4. CASE app' = app
    BY <1>2, <1>3, <1>4 DEF OneRecord
  <1>5. ASSUME NEW c \in Ids, app' = [app EXCEPT ![c] = j] PROVE OneRecord'
    BY <1>1, <1>2, <1>3, <1>5 DEF OneRecord
  <1>6. QED
    BY <1>4, <1>5 DEF FileApp

(* What run_install files is one app, of a job that is settled with it. *)
LEMMA FileRecord ==
  ASSUME InstallInv, NEW j \in Installs, File(j)
  PROVE  OneRecord' /\ FiledIsSettled'
  <1>2. app \in [Ids -> Installs \cup {Operator, Nobody}] /\ OneRecord /\ FiledIsSettled
    BY DEF InstallInv, TypeOK
  <1>3. job' = job /\ \A i, c : ToldToAnother(i, c)' <=> ToldToAnother(i, c)
    BY DEF File, ToldToAnother
  <1>4. CASE app' = app
    BY <1>2, <1>3, <1>4 DEF OneRecord, FiledIsSettled
  <1>5. CASE ~Tracked(pick[j]) /\ app' = [app EXCEPT ![pick[j]] = j]
    <2>1. /\ job[j] = "unknown" /\ pick[j] \in Ids
          /\ \A c \in Ids : app[c] = j => ToldToAnother(j, c)
      BY <1>5, FiledBefore DEF File
    <2>2. OneRecord'
      BY <1>2, <1>3, <1>5, <2>1 DEF OneRecord
    <2>3. FiledIsSettled'
      BY <1>2, <1>3, <1>5, <2>1 DEF FiledIsSettled
    <2>4. QED
      BY <2>2, <2>3
  <1>6. QED
    BY <1>4, <1>5 DEF File

(* What it files it counted among the new, or was told to build. *)
LEMMA FileAppKnown ==
  ASSUME InstallInv, NEW j \in Installs, FileApp(j)
  PROVE  FiledKnown'
  <1>1. /\ \A c \in Ids : app[c] # j
        /\ job[j] = "running" /\ rec[j] = "none"
    BY NothingFiledYet DEF FileApp, InstallInv, TaskKnown
  <1>2. /\ app \in [Ids -> Installs \cup {Operator, Nobody}]
        /\ pc \in [Installs -> {"none", "started", "checked", "ssh", "exited", "counted", "filed"}]
        /\ job \in [Installs -> {"none", "queued", "running"} \cup Finished]
        /\ pick \in [Installs -> Ids \cup {NoId}]
        /\ FiledKnown
    BY DEF InstallInv, TypeOK
  <1>3. /\ \A i, c : ToldToAnother(i, c)' <=> ToldToAnother(i, c)
        /\ Present' = Present
        /\ UNCHANGED <<pin, before, after, rec>>
    BY DEF FileApp, ToldToAnother, Present, node
  <1>4. ASSUME UNCHANGED <<app, pick>>, Ends(j, "failed") PROVE FiledKnown'
    BY <1>1, <1>2, <1>3, <1>4 DEF FiledKnown, Ends, Finished
  <1>5. ASSUME NEW c \in Ids, Mine(j) = {c}, app' = [app EXCEPT ![c] = j],
               pick' = [pick EXCEPT ![j] = c], pc' = [pc EXCEPT ![j] = "filed"], job' = job
        PROVE  FiledKnown'
    <2>1. /\ c \in Present
          /\ pin[j] # NoId => c = pin[j]
          /\ pin[j] = NoId => c \notin before[j]
      BY <1>5 DEF InstallInv, NodeKnown, Mine, Appeared
    <2>2. QED
      BY <1>1, <1>2, <1>3, <1>5, <2>1 DEF FiledKnown
  <1>6. QED
    BY <1>4, <1>5 DEF FileApp

(* ... and what rows, handlers and checks know of each other. *)
LEMMA InstallsStepInv == InstallInv /\ [Next]_vars => InstallInv'
  <1> SUFFICES ASSUME InstallInv, [Next]_vars PROVE InstallInv'
    OBVIOUS
  <1>0. TypeOK /\ TypeOK'
    BY InstallsTypeStep DEF InstallInv
  <1> USE <1>0, PinAssumption, NoIdAssumption, PeopleAssumption
      DEF TypeOK, InstallInv, OneRecord, FiledIsSettled, SuccessIsTracked, TaskKnown,
          NodeKnown, PickKnown, FiledKnown, ResultKnown, ToldToAnother, Tracked, Present,
          Finished, node
  <1>1. ASSUME NEW j \in Installs, ScriptBuilds(j) PROVE InstallInv'
    BY <1>1 DEF ScriptBuilds
  <1>2. ASSUME NEW j \in Installs, ScriptEnds(j) PROVE InstallInv'
    BY <1>2 DEF ScriptEnds
  <1>3. ASSUME NEW j \in Installs, Accept(j) PROVE InstallInv'
    <2>1. OneRecord'
      BY <1>3 DEF Accept
    <2>2. FiledIsSettled'
      BY <1>3 DEF Accept
    <2>3. SuccessIsTracked'
      BY <1>3 DEF Accept
    <2>4. TaskKnown'
      BY <1>3 DEF Accept
    <2>5. NodeKnown'
      BY <1>3 DEF Accept
    <2>6. PickKnown'
      BY <1>3 DEF Accept
    <2>7. FiledKnown'
      BY <1>3 DEF Accept
    <2>8. ResultKnown'
      BY <1>3 DEF Accept
    <2>9. QED
      BY <2>1, <2>2, <2>3, <2>4, <2>5, <2>6, <2>7, <2>8
  <1>4. ASSUME NEW j \in Installs, Start(j) PROVE InstallInv'
    BY <1>4 DEF Start, Running
  <1>5. ASSUME NEW j \in Installs, ReadBefore(j) PROVE InstallInv'
    BY <1>5 DEF ReadBefore, Ends
  <1>6. ASSUME NEW j \in Installs, FailsEarly(j) PROVE InstallInv'
    BY <1>6 DEF FailsEarly, Ends
  <1>7. ASSUME NEW j \in Installs, Dispatch(j) PROVE InstallInv'
    BY <1>7 DEF Dispatch, Checkpoint
  <1>8. ASSUME NEW j \in Installs, Connects(j) PROVE InstallInv'
    BY <1>8 DEF Connects
  <1>9. ASSUME NEW j \in Installs, NeverConnects(j) PROVE InstallInv'
    BY <1>9 DEF NeverConnects, Fails, Ends
  <1>10. ASSUME NEW j \in Installs, ConnectionLost(j) PROVE InstallInv'
    BY <1>10 DEF ConnectionLost, Fails, Ends
  <1>11. ASSUME NEW j \in Installs, ExitStatus(j) PROVE InstallInv'
    BY <1>11 DEF ExitStatus, Ends
  <1>12. ASSUME NEW j \in Installs, ReadAfter(j) PROVE InstallInv'
    BY <1>12 DEF ReadAfter
  <1>13. ASSUME NEW j \in Installs, ReadAfterFails(j) PROVE InstallInv'
    BY <1>13 DEF ReadAfterFails, Ends
  <1>14. ASSUME NEW j \in Installs, FileApp(j) PROVE InstallInv'
    <2>1. OneRecord'
      BY <1>14, FileAppRecord DEF InstallInv
    <2>2. FiledIsSettled'
      BY <1>14 DEF FileApp, Ends, Mine, Appeared
    <2>3. SuccessIsTracked'
      BY <1>14 DEF FileApp, Ends, Mine, Appeared
    <2>4. TaskKnown'
      BY <1>14 DEF FileApp, Ends, Mine, Appeared
    <2>5. NodeKnown'
      BY <1>14 DEF FileApp, Ends, Mine, Appeared
    <2>6. PickKnown'
      BY <1>14 DEF FileApp, Ends, Mine, Appeared
    <2>7. FiledKnown'
      BY <1>14, FileAppKnown DEF InstallInv
    <2>8. ResultKnown'
      BY <1>14 DEF FileApp, Ends, Mine, Appeared
    <2>9. QED
      BY <2>1, <2>2, <2>3, <2>4, <2>5, <2>6, <2>7, <2>8
  <1>15. ASSUME NEW j \in Installs, Succeeds(j) PROVE InstallInv'
    BY <1>15 DEF Succeeds, Ends
  <1>16. ASSUME NEW j \in Installs, Canceled(j) PROVE InstallInv'
    BY <1>16 DEF Canceled, Ends
  <1>17. ASSUME NEW j \in Installs, Ask(j) PROVE InstallInv'
    BY <1>17 DEF Ask
  <1>18. ASSUME NEW j \in Installs, AskFails(j) PROVE InstallInv'
    BY <1>18 DEF AskFails
  <1>19. ASSUME NEW j \in Installs, NothingBuilt(j) PROVE InstallInv'
    <2>1. OneRecord'
      BY <1>19 DEF NothingBuilt, Resolve, Candidates, Appeared, Concurrent
    <2>2. FiledIsSettled'
      BY <1>19 DEF NothingBuilt, Resolve, Candidates, Appeared, Concurrent
    <2>3. SuccessIsTracked'
      BY <1>19 DEF NothingBuilt, Resolve, Candidates, Appeared, Concurrent
    <2>4. TaskKnown'
      BY <1>19 DEF NothingBuilt, Resolve, Candidates, Appeared, Concurrent
    <2>5. NodeKnown'
      BY <1>19 DEF NothingBuilt, Resolve, Candidates, Appeared, Concurrent
    <2>6. PickKnown'
      BY <1>19 DEF NothingBuilt, Resolve, Candidates, Appeared, Concurrent
    <2>7. FiledKnown'
      BY <1>19 DEF NothingBuilt, Resolve, Candidates, Appeared, Concurrent
    <2>8. ResultKnown'
      BY <1>19 DEF NothingBuilt, Resolve, Candidates, Appeared, Concurrent
    <2>9. QED
      BY <2>1, <2>2, <2>3, <2>4, <2>5, <2>6, <2>7, <2>8
  <1>20. ASSUME NEW j \in Installs, Ambiguous(j) PROVE InstallInv'
    BY <1>20 DEF Ambiguous
  <1>21. ASSUME NEW j \in Installs, Found(j) PROVE InstallInv'
    BY <1>21 DEF Found, Candidates, Appeared, Concurrent
  <1>22. ASSUME NEW j \in Installs, Look(j) PROVE InstallInv'
    <2>1. OneRecord'
      BY <1>22 DEF Look, Resolve, Existing
    <2>2. FiledIsSettled'
      BY <1>22 DEF Look, Resolve, Existing
    <2>3. SuccessIsTracked'
      BY <1>22 DEF Look, Resolve, Existing
    <2>4. TaskKnown'
      BY <1>22 DEF Look, Resolve, Existing
    <2>5. NodeKnown'
      BY <1>22 DEF Look, Resolve, Existing
    <2>6. PickKnown'
      BY <1>22 DEF Look, Resolve, Existing
    <2>7. FiledKnown'
      BY <1>22 DEF Look, Resolve, Existing
    <2>8. ResultKnown'
      BY <1>22 DEF Look, Resolve, Existing
    <2>9. QED
      BY <2>1, <2>2, <2>3, <2>4, <2>5, <2>6, <2>7, <2>8
  <1>23. ASSUME NEW j \in Installs, File(j) PROVE InstallInv'
    <2>1. OneRecord'
      BY <1>23, FileRecord DEF InstallInv
    <2>2. FiledIsSettled'
      BY <1>23, FileRecord DEF InstallInv
    <2>3. SuccessIsTracked'
      BY <1>23 DEF File
    <2>4. TaskKnown'
      BY <1>23 DEF File
    <2>5. NodeKnown'
      BY <1>23 DEF File
    <2>6. PickKnown'
      BY <1>23 DEF File
    <2>7. FiledKnown'
      BY <1>23 DEF File
    <2>8. ResultKnown'
      BY <1>23 DEF File
    <2>9. QED
      BY <2>1, <2>2, <2>3, <2>4, <2>5, <2>6, <2>7, <2>8
  <1>24. ASSUME NEW j \in Installs, Answer(j) PROVE InstallInv'
    <2>1. OneRecord'
      BY <1>24 DEF Answer, Resolve
    <2>2. FiledIsSettled'
      BY <1>24 DEF Answer, Resolve
    <2>3. SuccessIsTracked'
      BY <1>24 DEF Answer, Resolve
    <2>4. TaskKnown'
      BY <1>24 DEF Answer, Resolve
    <2>5. NodeKnown'
      BY <1>24 DEF Answer, Resolve
    <2>6. PickKnown'
      BY <1>24 DEF Answer, Resolve
    <2>7. FiledKnown'
      BY <1>24 DEF Answer, Resolve
    <2>8. ResultKnown'
      BY <1>24 DEF Answer, Resolve
    <2>9. QED
      BY <2>1, <2>2, <2>3, <2>4, <2>5, <2>6, <2>7, <2>8
  <1>25. ASSUME NEW c \in Ids, Adopt(c) PROVE InstallInv'
    BY <1>25 DEF Adopt
  <1>26. CASE Restart
    BY <1>26 DEF Restart, Swept
  <1>27. CASE UNCHANGED vars
    BY <1>27 DEF vars
  <1>28. QED
    BY <1>1, <1>2, <1>3, <1>4, <1>5, <1>6, <1>7, <1>8, <1>9, <1>10, <1>11,
       <1>12, <1>13, <1>14, <1>15, <1>16, <1>17, <1>18, <1>19, <1>20, <1>21,
       <1>22, <1>23, <1>24, <1>25, <1>26, <1>27 DEF Next, InstallStep,
       ReconcileStep

-----------------------------------------------------------------------------
(* The inductive invariant holds in every state of every behaviour. *)
THEOREM InstallsInvariant == Spec => []InstallInv
  <1>1. QED
    BY InstallsInitInv, InstallsStepInv, PTL DEF Spec

(* However many installs there are, wherever the process dies and whatever *)
(* operators adopt, an install files one app, or one more it was not told   *)
(* was another's.                                                           *)
THEOREM InstallsFileOneApp == Spec => []OneRecord
  <1>1. InstallInv => OneRecord
    BY DEF InstallInv
  <1>2. QED
    BY InstallsInvariant, <1>1, PTL

(* The rows of jobs and apps never contradict each other. *)
THEOREM InstallsRecordsAgree == Spec => []RecordsAgree
  <1>1. InstallInv => OverlapExcluded
    <2>1. SUFFICES ASSUME InstallInv,
                          NEW j \in Installs, rec[j] \in {"looking", "filing", "filed"},
                          NEW k \in overlap[j] \ {j}, pin[k] = pick[j]
                   PROVE  pin[j] = pick[j]
      BY DEF OverlapExcluded
    <2>2. CASE pin[j] # NoId
      BY <2>1, <2>2 DEF InstallInv, PickKnown
    <2>3. CASE pin[j] = NoId
      BY <2>1, <2>3 DEF InstallInv, PickKnown, ToldToAnother
    <2>4. QED
      BY <2>2, <2>3
  <1>2. InstallInv => RecordsAgree
    BY <1>1 DEF InstallInv, RecordsAgree
  <1>3. QED
    BY InstallsInvariant, <1>2, PTL

(* Operators who pin distinct ids get what they asked for: a script whose   *)
(* container were taken for another's would have been told the same id.     *)
THEOREM InstallsAreAttributed == Spec => []Attributed
  <1>1. InstallInv => Attributed
    <2>1. SUFFICES ASSUME InstallInv,
                          \A j, k \in Installs :
                            j # k /\ job[j] # "none" /\ job[k] # "none"
                              => pin[j] # NoId /\ pin[j] # pin[k],
                          NEW j \in Installs, job[j] = "succeeded",
                          maker[result[j]] # j
                   PROVE  FALSE
      BY DEF Attributed
    <2>2. result[j] \in Ids /\ maker[result[j]] # Nobody
      BY <2>1 DEF InstallInv, SuccessIsTracked, Present
    <2>. DEFINE k == maker[result[j]]
    <2>3. k \in Installs
      BY <2>1, <2>2 DEF InstallInv, TypeOK
    <2>4. job[k] # "none"
      BY <2>1, <2>2, <2>3 DEF InstallInv, NodeKnown, TaskKnown
    <2>5. pin[j] # NoId /\ pin[k] # NoId /\ pin[j] # pin[k]
      BY <2>1, <2>3, <2>4
    <2>6. result[j] = pin[j]
      BY <2>1, <2>5 DEF InstallInv, ResultKnown
    <2>7. result[j] = pin[k]
      BY <2>1, <2>2, <2>3, <2>5 DEF InstallInv, NodeKnown
    <2>8. QED
      BY <2>5, <2>6, <2>7
  <1>2. QED
    BY InstallsInvariant, <1>1, PTL
=============================================================================
