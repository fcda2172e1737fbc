--------------------------- MODULE OperationsProofs ---------------------------
(***************************************************************************)
(* What goes on by itself, proved: guest status, alerts, app scripts,      *)
(* backups and migrations, for every number of guests, cycles, rules,      *)
(* targets, channels, refreshes, updates, archives, jobs, migrations and   *)
(* steps.  Each section has the inductive invariant of one component, the  *)
(* lemmas it needs, one lemma per action or group of actions, and the      *)
(* theorems.                                                               *)
(***************************************************************************)
EXTENDS Migration, GuestStatus, Alerts, AppScripts, Backups, Extremes,
        SequenceTheorems, FiniteSetTheorems, TLAPS

-----------------------------------------------------------------------------
(***************************************************************************)
(* Guest status (pollers/, services/lifecycle.py).  A row goes when a      *)
(* cycle files an absence it trusts, or an uninstall forgets: minutes      *)
(* after what either goes by was read.  What is gone stays gone, so the    *)
(* invariant says of each reading under way that it was right when it was  *)
(* made.                                                                   *)
(***************************************************************************)
(* Proxmox' list may lag behind its guests, but it invents no loss, *)
ListFollows == \A g \in Guests : listed[g] = "gone" => truth[g] = "gone"
(* an absence that a cycle takes for evidence is a loss, *)
AbsenceTold ==
  \A t \in Threads, g \in Guests :
     cycle[t].trust /\ cycle[t].seen[g] = "absent" => truth[g] = "gone"
(* and an uninstall that has come to its end has destroyed its container. *)
DestroyTold ==
  \A j \in Jobs :
     /\ job[j].st = "destroy" => task[j] = "destroy" \/ truth[job[j].guest] = "gone"
     /\ job[j].st = "forget" => truth[job[j].guest] = "gone"
GuestInv == TypeOK /\ ListFollows /\ AbsenceTold /\ DestroyTold

(* What is gone stays gone, and what else was known of it with it. *)
GoneStays == \A g \in Guests : truth[g] = "gone" => truth'[g] = "gone"

(* The records that a cycle begins with, *)
LEMMA BlankCycle == NoCycle \in Cycle /\ NoCycle.trust = FALSE /\ NoCycle.pc = "off"
  BY DEF NoCycle, Cycle, Known

(* and a job. *)
LEMMA BlankJob == NoJob \in Job /\ NoJob.st = "none"
  BY GuestAssumption DEF NoJob, Job, Active

(* A new process knows nothing it could be wrong about. *)
LEMMA GuestsInit == Init => GuestInv
  <1> SUFFICES ASSUME Init PROVE GuestInv
    OBVIOUS
  <1>1. TypeOK
    <2>1. cycle \in [Threads -> Cycle]
      BY BlankCycle DEF Init
    <2>2. job \in [Jobs -> Job]
      BY BlankJob DEF Init
    <2>3. task \in [Jobs -> {"none", "start", "stop", "destroy"}]
      BY DEF Init
    <2>4. mishaps \in 0..MaxMishaps
      BY MishapAssumption DEF Init
    <2>5. row \subseteq Guests /\ status \in [Guests -> Known \cup {"unknown"}]
      BY GuestAssumption DEF Init, Known
    <2>6. truth \in [Guests -> Known \cup {"gone"}] /\ listed \in [Guests -> Known \cup {"gone"}]
      BY DEF Init, Known
    <2> QED
      BY <2>1, <2>2, <2>3, <2>4, <2>5, <2>6 DEF Init, TypeOK
  <1>2. ListFollows
    BY DEF Init, ListFollows
  <1>3. AbsenceTold
    BY BlankCycle DEF Init, AbsenceTold
  <1>4. DestroyTold
    BY BlankJob DEF Init, DestroyTold
  <1> QED
    BY <1>1, <1>2, <1>3, <1>4 DEF GuestInv

(* Mishaps are counted. *)
LEMMA MishapsCount ==
  ASSUME TypeOK, Mishap \/ mishaps' = mishaps
  PROVE  mishaps' \in 0..MaxMishaps
  BY MishapAssumption DEF TypeOK, Mishap

(* The guests themselves: tasks end, people act, the list catches up. *)
LEMMA GuestsMove ==
  ASSUME GuestInv,
         \/ \E g \in Guests : OutsideChange(g) \/ ListCatchesUp(g)
         \/ \E j \in Jobs : TaskEnds(j)
  PROVE  GuestInv' /\ GoneStays
  <1>0. TypeOK /\ ListFollows /\ AbsenceTold /\ DestroyTold
    BY DEF GuestInv
  <1>1. ASSUME NEW g \in Guests, OutsideChange(g) PROVE GuestInv' /\ GoneStays
    <2>1. truth' \in [Guests -> Known \cup {"gone"}] /\ GoneStays
      BY <1>0, <1>1 DEF OutsideChange, TypeOK, GoneStays, Known
    <2>2. mishaps' \in 0..MaxMishaps
      BY <1>0, <1>1, MishapAssumption DEF OutsideChange, Mishap, TypeOK
    <2>3. UNCHANGED <<listed, up, member, row, status, missing, host, loop, wake, cycle, job, task>>
      BY <1>1 DEF OutsideChange, dbVars, pollVars, jobVars
    <2>4. TypeOK'
      BY <1>0, <2>1, <2>2, <2>3 DEF TypeOK
    <2>5. \A j \in Jobs : job[j].guest \in Guests
      BY <1>0 DEF TypeOK, Job
    <2> QED
      BY <1>0, <2>1, <2>3, <2>4, <2>5 DEF GuestInv, ListFollows, AbsenceTold, DestroyTold, GoneStays
  <1>2. ASSUME NEW g \in Guests, ListCatchesUp(g) PROVE GuestInv' /\ GoneStays
    <2>1. UNCHANGED <<truth, up, member, row, status, missing, host, loop, wake, cycle, job, task, mishaps>>
      BY <1>2 DEF ListCatchesUp, dbVars, pollVars, jobVars
    <2>2. listed' \in [Guests -> Known \cup {"gone"}] /\ ListFollows'
      BY <1>0, <1>2, <2>1 DEF ListCatchesUp, TypeOK, ListFollows
    <2> QED
      BY <1>0, <2>1, <2>2 DEF GuestInv, TypeOK, AbsenceTold, DestroyTold, GoneStays
  <1>3. ASSUME NEW j \in Jobs, TaskEnds(j) PROVE GuestInv' /\ GoneStays
    <2> DEFINE g == job[j].guest
    <2>1. /\ UNCHANGED <<listed, up, member, row, status, missing, host, loop, wake, cycle, mishaps>>
          /\ task[j] # "none" /\ task' = [task EXCEPT ![j] = "none"]
          /\ \/ truth' = truth
             \/ truth' = [truth EXCEPT ![g] = Effect(g, task[j])]
      BY <1>3 DEF TaskEnds, dbVars, pollVars
    <2>2. g \in Guests /\ \A k \in Jobs : job[k] \in Job /\ job[k].guest \in Guests
      BY <1>0 DEF TypeOK, Job
    <2>3. Effect(g, task[j]) \in Known \cup {"gone"} /\ (truth[g] = "gone" => Effect(g, task[j]) = "gone")
      BY <1>0, <2>2 DEF TypeOK, Effect, Want, Known
    <2>4. truth' \in [Guests -> Known \cup {"gone"}] /\ GoneStays
      BY <1>0, <2>1, <2>2, <2>3 DEF TypeOK, GoneStays
    <2>5. \/ UNCHANGED job
          \/ job' = [job EXCEPT ![j] = [job[j] EXCEPT !.st = "ended"]]
      BY <1>0, <1>3 DEF TaskEnds, TypeOK, Job
    <2>6. job' \in [Jobs -> Job] /\ \A k \in Jobs : /\ job'[k].guest = job[k].guest
                                                    /\ job'[k].st \in {job[k].st, "ended"}
      <3>1. /\ [job[j] EXCEPT !.st = "ended"] \in Job
            /\ [job[j] EXCEPT !.st = "ended"].guest = g /\ [job[j] EXCEPT !.st = "ended"].st = "ended"
        BY <2>2 DEF Job
      <3>2. job \in [Jobs -> Job]
        BY <1>0 DEF TypeOK
      <3>3. CASE UNCHANGED job
        BY <3>2, <3>3
      <3>4. CASE job' = [job EXCEPT ![j] = [job[j] EXCEPT !.st = "ended"]]
        BY <3>1, <3>2, <3>4
      <3> QED
        BY <2>5, <3>3, <3>4
    <2>7. job'[j].st = "destroy" => truth'[g] = "gone"
      <3>1. SUFFICES ASSUME job'[j].st = "destroy" PROVE truth'[g] = "gone"
        OBVIOUS
      <3>2. job[j].st = "destroy"
        BY <2>6, <3>1
      <3>3. job' = job \/ job'[j].st = "ended"
        BY <1>0, <2>5 DEF TypeOK, Job
      <3>4. CASE task[j] = "destroy"
        <4>1. CASE truth'[g] = "gone"
          BY <4>1
        <4>2. CASE truth'[g] # "gone"
          <5>1. job' = [job EXCEPT ![j].st = "ended"]
            BY <1>3, <3>2, <3>4, <4>2 DEF TaskEnds
          <5> QED
            BY <1>0, <3>1, <5>1 DEF TypeOK, Job
        <4> QED
          BY <4>1, <4>2
      <3>5. CASE task[j] # "destroy"
        BY <1>0, <2>2, <2>4, <3>2, <3>5 DEF DestroyTold, GoneStays
      <3> QED
        BY <3>4, <3>5
    <2>8. DestroyTold'
      BY <1>0, <2>1, <2>2, <2>4, <2>6, <2>7 DEF DestroyTold, GoneStays, TypeOK
    <2>9. TypeOK'
      BY <1>0, <2>1, <2>4, <2>6 DEF TypeOK
    <2> QED
      BY <1>0, <2>1, <2>4, <2>8, <2>9 DEF GuestInv, ListFollows, AbsenceTold, GoneStays
  <1> QED
    BY <1>1, <1>2, <1>3

(* The cluster around them. *)
LEMMA ClusterMoves ==
  ASSUME GuestInv, Outage \/ Answers \/ MemberLeaves \/ MemberReturns
  PROVE  GuestInv' /\ GoneStays
  <1>0. Mishap \/ mishaps' = mishaps
    BY DEF Outage, Answers, MemberLeaves, MemberReturns
  <1>a. mishaps' \in 0..MaxMishaps
    BY <1>0, MishapsCount DEF GuestInv
  <1>1. TypeOK'
    BY <1>a DEF GuestInv, TypeOK, Outage, Answers, MemberLeaves, MemberReturns, dbVars, pollVars, jobVars
  <1>2. UNCHANGED <<truth, listed, cycle, job, task>>
    BY DEF Outage, Answers, MemberLeaves, MemberReturns, pollVars, jobVars
  <1> QED
    BY <1>1, <1>2 DEF GuestInv, ListFollows, AbsenceTold, DestroyTold, GoneStays

(* The poll loop and its threads.  The list is trusted where no member is *)
(* away, unless one can vanish while /cluster/status is refused.          *)
LEMMA PollMoves ==
  ASSUME GuestInv, ~BlindVanish,
         \/ Poll \/ GiveUp
         \/ \E g \in Guests : AbsenceAges(g)
  PROVE  GuestInv' /\ GoneStays
  <1>0. TypeOK /\ ListFollows /\ AbsenceTold /\ DestroyTold
    BY DEF GuestInv
  <1>1. UNCHANGED <<truth, listed, up, member, job, task>>
    BY DEF Poll, Thread, GiveUp, AbsenceAges, StartCycle, MarkUnreachable, Rest, TakeList, NoAnswer,
           BeginFiling, File, FilingFails, pveVars, jobVars
  <1>a. Mishap \/ mishaps' = mishaps
    BY DEF Poll, Thread, GiveUp, AbsenceAges, StartCycle, MarkUnreachable, Rest, TakeList, NoAnswer,
           BeginFiling, File, FilingFails
  <1>2. mishaps' \in 0..MaxMishaps
    BY <1>0, <1>a, MishapsCount
  <1>3. /\ \A c \in Cycle : /\ [c EXCEPT !.pc = "asking"] \in Cycle
                            /\ [c EXCEPT !.pc = "asking"].trust = c.trust
        /\ \A t \in Threads : cycle[t] \in Cycle
        /\ {"awaited", "late"} = Threads
    BY <1>0 DEF Cycle, TypeOK, Threads
  <1>4. /\ cycle' \in [Threads -> Cycle]
        /\ \A t \in Threads, g \in Guests :
             cycle'[t].trust /\ cycle'[t].seen[g] = "absent" => truth[g] = "gone"
    <2>1. CASE StartCycle
      BY <1>0, <1>3, <2>1, BlankCycle DEF StartCycle, TypeOK, AbsenceTold
    <2>2. ASSUME NEW t \in Threads, TakeList(t)
          PROVE  /\ cycle' \in [Threads -> Cycle]
                 /\ \A u \in Threads, g \in Guests :
                      cycle'[u].trust /\ cycle'[u].seen[g] = "absent" => truth[g] = "gone"
      <3>1. PICK degraded \in BOOLEAN, counted \in BOOLEAN :
              /\ ~(member = "vanished" /\ ~counted)
              /\ cycle' = [cycle EXCEPT ![t].pc = "read",
                             ![t].seen = [g \in Guests |-> Shows(g)],
                             ![t].trust = Trustworthy(degraded, counted)]
        BY <2>2 DEF TakeList
      <3> DEFINE c == [cycle[t] EXCEPT !.pc = "read", !.seen = [g \in Guests |-> Shows(g)],
                                       !.trust = Trustworthy(degraded, counted)]
      <3>2. cycle' = [cycle EXCEPT ![t] = c]
        BY <1>0, <3>1 DEF TypeOK
      <3>3. [g \in Guests |-> Shows(g)] \in [Guests -> Known \cup {"absent"}]
        BY <1>0 DEF Shows, TypeOK
      <3>4. Trustworthy(degraded, counted) \in BOOLEAN
        BY DEF Trustworthy
      <3>5. /\ c \in Cycle /\ c.trust = Trustworthy(degraded, counted)
            /\ c.seen = [g \in Guests |-> Shows(g)]
        <4>1. cycle[t] \in Cycle
          BY <1>3
        <4>2. c \in Cycle
          BY <4>1, <3>3, <3>4 DEF Cycle
        <4>3. c.trust = Trustworthy(degraded, counted)
          BY <4>1 DEF Cycle
        <4>4. c.seen = [g \in Guests |-> Shows(g)]
          BY <4>1 DEF Cycle
        <4> QED
          BY <4>2, <4>3, <4>4
      <3>6. ASSUME NEW g \in Guests, Trustworthy(degraded, counted), Shows(g) = "absent"
            PROVE  truth[g] = "gone"
        <4>1. member = "online"
          BY <1>0, <3>1, <3>6 DEF Trustworthy, TypeOK
        <4>2. listed[g] = "gone"
          BY <1>0, <3>6, <4>1 DEF Shows, TypeOK, Known
        <4> QED
          BY <1>0, <4>2 DEF ListFollows
      <3> HIDE DEF c
      <3>7. cycle' \in [Threads -> Cycle]
            /\ \A u \in Threads : cycle'[u] = IF u = t THEN c ELSE cycle[u]
        BY <1>0, <3>2, <3>5 DEF TypeOK
      <3> QED
        BY <1>0, <3>5, <3>6, <3>7 DEF AbsenceTold
    <2>3. ASSUME NEW t \in Threads, NoAnswer(t) \/ File(t) \/ FilingFails(t)
          PROVE  /\ cycle' \in [Threads -> Cycle]
                 /\ \A u \in Threads, g \in Guests :
                      cycle'[u].trust /\ cycle'[u].seen[g] = "absent" => truth[g] = "gone"
      <3>1. cycle' = [cycle EXCEPT ![t] = NoCycle]
        BY <2>3 DEF NoAnswer, File, FilingFails
      <3> QED
        BY <1>0, <3>1, BlankCycle DEF TypeOK, AbsenceTold
    <2>4. ASSUME NEW t \in Threads, BeginFiling(t)
          PROVE  /\ cycle' \in [Threads -> Cycle]
                 /\ \A u \in Threads, g \in Guests :
                      cycle'[u].trust /\ cycle'[u].seen[g] = "absent" => truth[g] = "gone"
      <3> DEFINE c == [cycle[t] EXCEPT !.pc = "filing", !.fresh = FreshlyConfirmed,
                                       !.rows = row, !.loaded = status]
      <3>1. cycle' = [cycle EXCEPT ![t] = c]
        BY <1>0, <2>4 DEF BeginFiling, TypeOK
      <3>2. FreshlyConfirmed \in SUBSET Guests /\ row \in SUBSET Guests
            /\ status \in [Guests -> Known \cup {"unknown"}]
        BY <1>0 DEF FreshlyConfirmed, TypeOK
      <3>3. c \in Cycle /\ c.trust = cycle[t].trust /\ c.seen = cycle[t].seen
        <4>1. cycle[t] \in Cycle
          BY <1>3
        <4>2. c \in Cycle
          BY <4>1, <3>2 DEF Cycle
        <4>3. c.trust = cycle[t].trust
          BY <4>1 DEF Cycle
        <4>4. c.seen = cycle[t].seen
          BY <4>1 DEF Cycle
        <4> QED
          BY <4>2, <4>3, <4>4
      <3> HIDE DEF c
      <3>4. cycle' \in [Threads -> Cycle]
            /\ \A u \in Threads : cycle'[u] = IF u = t THEN c ELSE cycle[u]
        BY <1>0, <3>1, <3>3 DEF TypeOK
      <3> QED
        BY <1>0, <3>3, <3>4 DEF AbsenceTold
    <2>5. CASE GiveUp
      BY <1>0, <1>3, <2>5, BlankCycle DEF GiveUp, TypeOK, AbsenceTold
    <2>6. CASE UNCHANGED cycle
      BY <1>0, <2>6 DEF TypeOK, AbsenceTold
    <2>7. ASSUME MarkUnreachable \/ Rest \/ \E g \in Guests : AbsenceAges(g) PROVE UNCHANGED cycle
      BY <2>7 DEF MarkUnreachable, Rest, AbsenceAges, pollVars
    <2> QED
      BY <2>1, <2>2, <2>3, <2>4, <2>5, <2>6, <2>7 DEF Poll, Thread
  <1>5. /\ row' \subseteq Guests /\ status' \in [Guests -> Known \cup {"unknown"}]
        /\ missing' \in [Guests -> {"no", "counting", "due"}]
        /\ host' \in {"connected", "unreachable"}
    <2>1. ASSUME NEW t \in Threads, File(t)
          PROVE  /\ row' \subseteq Guests /\ status' \in [Guests -> Known \cup {"unknown"}]
                 /\ missing' \in [Guests -> {"no", "counting", "due"}] /\ host' = "connected"
      <3> DEFINE c == cycle[t]
      <3>1. c \in Cycle /\ c.seen \in [Guests -> Known \cup {"absent"}]
            /\ c.loaded \in [Guests -> Known \cup {"unknown"}]
        BY <1>3 DEF Cycle
      <3>2. NewVms(c) \subseteq Guests /\ \A g \in NewVms(c) : c.seen[g] \in Known
        BY <3>1 DEF NewVms
      <3>3. \A g \in Guests : Filed(c, g) \in Known \cup {"unknown"}
        BY <3>1 DEF Filed
      <3>4. \A g \in Guests : Counted(c, g) \in {"no", "counting", "due"}
        BY <1>0 DEF Counted, TypeOK
      <3> HIDE DEF c
      <3>5. row' = (row \ Reaped(c)) \cup NewVms(c) /\ host' = "connected"
        BY <2>1 DEF File, c
      <3>6. row' \subseteq Guests
        BY <1>0, <3>2, <3>5 DEF TypeOK
      <3>7. status' = [g \in Guests |->
               IF g \in NewVms(c) THEN c.seen[g]
               ELSE IF g \notin row' THEN "unknown"
               ELSE IF g \in c.rows /\ Filed(c, g) # c.loaded[g] THEN Filed(c, g) ELSE status[g]]
        BY <2>1, <3>5 DEF File, c
      <3>8. missing' = [g \in Guests |-> IF g \in c.rows \cap row' THEN Counted(c, g)
                                        ELSE IF g \in row' THEN missing[g] ELSE "no"]
        BY <2>1, <3>5 DEF File, c
      <3>9. status' \in [Guests -> Known \cup {"unknown"}]
        BY <1>0, <3>2, <3>3, <3>7 DEF TypeOK
      <3>10. missing' \in [Guests -> {"no", "counting", "due"}]
        BY <1>0, <3>4, <3>8 DEF TypeOK
      <3> QED
        BY <3>5, <3>6, <3>9, <3>10
    <2>2. ASSUME MarkUnreachable
          PROVE  /\ UNCHANGED <<row, missing>> /\ host' = "unreachable"
                 /\ status' \in [Guests -> Known \cup {"unknown"}]
      BY <2>2 DEF MarkUnreachable
    <2>3. ASSUME NEW g \in Guests, AbsenceAges(g)
          PROVE  /\ UNCHANGED <<row, status, host>>
                 /\ missing' \in [Guests -> {"no", "counting", "due"}]
      BY <1>0, <2>3 DEF AbsenceAges, TypeOK
    <2>4. CASE UNCHANGED dbVars
      BY <1>0, <2>4 DEF TypeOK, dbVars
    <2>5. ASSUME NEW t \in Threads, TakeList(t) \/ NoAnswer(t) \/ BeginFiling(t) \/ FilingFails(t)
          PROVE  UNCHANGED dbVars
      BY <2>5 DEF TakeList, NoAnswer, BeginFiling, FilingFails
    <2>6. ASSUME StartCycle \/ Rest \/ GiveUp PROVE UNCHANGED dbVars
      BY <2>6 DEF StartCycle, Rest, GiveUp
    <2>7. /\ row \subseteq Guests /\ status \in [Guests -> Known \cup {"unknown"}]
          /\ missing \in [Guests -> {"no", "counting", "due"}]
          /\ host \in {"connected", "unreachable"}
      BY <1>0 DEF TypeOK
    <2>8. CASE \E t \in Threads : File(t)
      BY <2>1, <2>8
    <2>9. CASE MarkUnreachable
      BY <2>2, <2>9, <2>7
    <2>10. CASE \E g \in Guests : AbsenceAges(g)
      BY <2>3, <2>10, <2>7
    <2>11. UNCHANGED dbVars \/ (\E t \in Threads : File(t)) \/ MarkUnreachable
           \/ \E g \in Guests : AbsenceAges(g)
      BY <2>5, <2>6 DEF Poll, Thread
    <2> QED
      BY <2>4, <2>8, <2>9, <2>10, <2>11
  <1>6. loop' \in {"ready", "cycle", "mark", "wait", "backoff"} /\ wake' \in BOOLEAN
    <2>1. loop \in {"ready", "cycle", "mark", "wait", "backoff"} /\ wake \in BOOLEAN
      BY <1>0 DEF TypeOK
    <2>2. ASSUME \E t \in Threads : Thread(t) PROVE loop' \in {loop, "mark", "wait"} /\ wake' = wake
      BY <2>2 DEF Thread, TakeList, NoAnswer, BeginFiling, File, FilingFails
    <2>3. ASSUME StartCycle \/ MarkUnreachable \/ GiveUp
          PROVE  loop' \in {"cycle", "backoff", "mark"} /\ wake' = wake
      BY <2>3 DEF StartCycle, MarkUnreachable, GiveUp
    <2>4. ASSUME Rest PROVE loop' = "ready" /\ wake' = FALSE
      BY <2>4 DEF Rest
    <2>5. ASSUME \E g \in Guests : AbsenceAges(g) PROVE UNCHANGED <<loop, wake>>
      BY <2>5 DEF AbsenceAges, pollVars
    <2> QED
      BY <2>1, <2>2, <2>3, <2>4, <2>5 DEF Poll
  <1>7. TypeOK'
    BY <1>0, <1>1, <1>2, <1>4, <1>5, <1>6 DEF TypeOK
  <1> QED
    BY <1>0, <1>1, <1>4, <1>7 DEF GuestInv, ListFollows, AbsenceTold, DestroyTold, GoneStays

(* A job that goes from one place to the next. *)
LEMMA JobSteps ==
  ASSUME TypeOK, NEW j \in Jobs, NEW to \in Active \cup {"none", "succeeded", "ended"},
         job' = [job EXCEPT ![j].st = to]
  PROVE  /\ job' \in [Jobs -> Job] /\ job'[j].st = to /\ job'[j].guest = job[j].guest
         /\ \A k \in Jobs \ {j} : job'[k] = job[k]
  <1>1. job' = [job EXCEPT ![j] = [job[j] EXCEPT !.st = to]]
    BY DEF TypeOK
  <1>2. [job[j] EXCEPT !.st = to] \in Job
    BY DEF TypeOK, Job
  <1> QED
    BY <1>1, <1>2 DEF TypeOK, Job

(* What the jobs' steps leave of the invariant to show: the place of the job *)
(* that went on, and what its uninstall was told.                            *)
LEMMA OneJob ==
  ASSUME GuestInv, NEW j \in Jobs, UNCHANGED <<truth, listed, up, member, cycle, mishaps, loop>>,
         job' \in [Jobs -> Job], job'[j].guest \in Guests,
         \A k \in Jobs \ {j} : job'[k] = job[k] /\ task'[k] = task[k],
         task' \in [Jobs -> {"none", "start", "stop", "destroy"}],
         row' \subseteq Guests, status' \in [Guests -> Known \cup {"unknown"}],
         missing' \in [Guests -> {"no", "counting", "due"}], host' = host, wake' \in BOOLEAN,
         job'[j].st = "destroy" => task'[j] = "destroy" \/ truth[job'[j].guest] = "gone",
         job'[j].st = "forget" => truth[job'[j].guest] = "gone"
  PROVE  GuestInv' /\ GoneStays
  <1>1. TypeOK'
    BY DEF GuestInv, TypeOK
  <1>2. DestroyTold'
    BY DEF GuestInv, DestroyTold
  <1> QED
    BY <1>1, <1>2 DEF GuestInv, ListFollows, AbsenceTold, GoneStays

(* The steps of a lifecycle job. *)
LEMMA JobMoves ==
  ASSUME GuestInv, NEW j \in Jobs,
         Act(j) \/ Abandon(j) \/ FreshEnds(j) \/ Ages(j)
  PROVE  GuestInv' /\ GoneStays
  <1>0. TypeOK /\ DestroyTold /\ job[j] \in Job /\ job[j].guest \in Guests
    BY DEF GuestInv, TypeOK, Job
  <1>t. /\ row \subseteq Guests /\ status \in [Guests -> Known \cup {"unknown"}]
        /\ missing \in [Guests -> {"no", "counting", "due"}] /\ wake \in BOOLEAN
        /\ task \in [Jobs -> {"none", "start", "stop", "destroy"}]
    BY <1>0 DEF TypeOK
  <1>1. CASE Begin(j)
    <2>1. PICK to \in {"running", "ended"} : job' = [job EXCEPT ![j].st = to]
      BY <1>1 DEF Begin, Step
    <2>2. UNCHANGED <<truth, listed, up, member, cycle, mishaps, loop, row, status, missing, host, wake, task>>
      BY <1>1 DEF Begin, pveVars, dbVars, pollVars
    <2>3. /\ job' \in [Jobs -> Job] /\ job'[j].st = to /\ job'[j].guest = job[j].guest
          /\ \A k \in Jobs \ {j} : job'[k] = job[k]
      BY <1>0, <2>1, JobSteps DEF Active
    <2> QED
      BY <1>0, <1>t, <2>2, <2>3, OneJob
  <1>2. CASE Post(j)
    <2>1. PICK to \in {"running", "task", "returned", "ended"} : job' = [job EXCEPT ![j].st = to]
      BY <1>2 DEF Post, Step
    <2>2. /\ UNCHANGED <<truth, listed, up, member, cycle, mishaps, loop, row, status, missing, host>>
          /\ wake' \in BOOLEAN
          /\ task' = task \/ \E what \in {"start", "stop"} : task' = [task EXCEPT ![j] = what]
      BY <1>2, <1>t DEF Post, pveVars, dbVars, pollVars
    <2>3. /\ job' \in [Jobs -> Job] /\ job'[j].st = to /\ job'[j].guest = job[j].guest
          /\ \A k \in Jobs \ {j} : job'[k] = job[k]
      BY <1>0, <2>1, JobSteps DEF Active
    <2>4. /\ task' \in [Jobs -> {"none", "start", "stop", "destroy"}]
          /\ \A k \in Jobs \ {j} : task'[k] = task[k]
      BY <1>t, <2>2
    <2> QED
      BY <1>0, <1>t, <2>2, <2>3, <2>4, OneJob
  <1>3. CASE TaskSeen(j)
    <2>1. PICK to \in {"observe", "destroy", "ended", "forget"} : job' = [job EXCEPT ![j].st = to]
      BY <1>3 DEF TaskSeen, Step
    <2>2. /\ UNCHANGED <<truth, listed, up, member, cycle, mishaps, loop, row, status, missing, host, wake>>
          /\ task' = task \/ \E what \in {"none", "destroy"} : task' = [task EXCEPT ![j] = what]
      BY <1>3, <1>t DEF TaskSeen, pveVars, dbVars, pollVars
    <2>3. /\ job' \in [Jobs -> Job] /\ job'[j].st = to /\ job'[j].guest = job[j].guest
          /\ \A k \in Jobs \ {j} : job'[k] = job[k]
      BY <1>0, <2>1, JobSteps DEF Active
    <2>4. /\ task' \in [Jobs -> {"none", "start", "stop", "destroy"}]
          /\ \A k \in Jobs \ {j} : task'[k] = task[k]
      BY <1>t, <2>2
    <2>5. to = "destroy" => task'[j] = "destroy"
      <3>1. SUFFICES ASSUME to = "destroy" PROVE task'[j] = "destroy"
        OBVIOUS
      <3>2. job'[j].st = "destroy"
        BY <2>3, <3>1
      <3>3. /\ job[j].verb = "uninstall" /\ Step(j, "task", IF up THEN "destroy" ELSE "ended")
            /\ task' = [task EXCEPT ![j] = IF up THEN "destroy" ELSE "none"]
        <4>1. \A w \in {"observe", "forget"}, f \in {"task", "destroy"} : ~Step(j, f, w)
          BY <1>0, <3>2, JobSteps DEF Step, Active
        <4> QED
          BY <1>3, <4>1 DEF TaskSeen
      <3>4. up
        <4>1. CASE ~up
          <5>1. job' = [job EXCEPT ![j].st = "ended"]
            BY <3>3, <4>1 DEF Step
          <5>2. "ended" \in Active \cup {"none", "succeeded", "ended"}
            OBVIOUS
          <5>3. job'[j].st = "ended"
            BY <1>0, <5>1, <5>2, JobSteps
          <5> QED
            BY <3>2, <5>3
        <4> QED
          BY <4>1
      <3> QED
        BY <1>t, <3>3, <3>4
    <2>6. to = "forget" => truth[job[j].guest] = "gone"
      <3>1. SUFFICES ASSUME to = "forget" PROVE truth[job[j].guest] = "gone"
        OBVIOUS
      <3>2. job'[j].st = "forget"
        BY <2>3, <3>1
      <3>3. \A w \in {"observe", "destroy", "ended"} : ~Step(j, "task", w)
        BY <1>0, <3>2, JobSteps DEF Step, Active
      <3>4. task[j] = "none" /\ job[j].st = "destroy"
        BY <1>3, <3>3 DEF TaskSeen, Step
      <3> QED
        BY <1>0, <3>4 DEF DestroyTold
    <2> QED
      BY <1>0, <1>t, <2>2, <2>3, <2>4, <2>5, <2>6, OneJob
  <1>4. CASE Observe(j)
    <2> DEFINE g == job[j].guest
    <2>1. /\ UNCHANGED <<truth, listed, up, member, cycle, mishaps, loop, row, missing, host, wake, task>>
          /\ status' = status \/ \E answer \in Known : status' = [status EXCEPT ![g] = answer]
      BY <1>4 DEF Observe, pveVars, pollVars
    <2>2. status' \in [Guests -> Known \cup {"unknown"}]
      BY <1>t, <2>1
    <2>3. \/ job' = [job EXCEPT ![j] = [job[j] EXCEPT !.st = "settle", !.seen = "want"]]
          \/ job' = [job EXCEPT ![j] = [job[j] EXCEPT !.seen = "other"]]
          \/ job' = [job EXCEPT ![j] = [job[j] EXCEPT !.st = "settle"]]
      BY <1>0, <1>4 DEF Observe, TypeOK
    <2>4. job[j].st = "observe"
      BY <1>4 DEF Observe
    <2>5. PICK c \in Job : job' = [job EXCEPT ![j] = c] /\ c.guest = g /\ c.st \in {"settle", "observe"}
      <3>1. /\ [job[j] EXCEPT !.st = "settle", !.seen = "want"] \in Job
            /\ [job[j] EXCEPT !.seen = "other"] \in Job
            /\ [job[j] EXCEPT !.st = "settle"] \in Job
        BY <1>0 DEF Job, Active
      <3>2. /\ [job[j] EXCEPT !.st = "settle", !.seen = "want"].guest = g
            /\ [job[j] EXCEPT !.seen = "other"].guest = g
            /\ [job[j] EXCEPT !.st = "settle"].guest = g
            /\ [job[j] EXCEPT !.st = "settle", !.seen = "want"].st = "settle"
            /\ [job[j] EXCEPT !.seen = "other"].st = "observe"
            /\ [job[j] EXCEPT !.st = "settle"].st = "settle"
        BY <1>0, <2>4 DEF Job
      <3> QED
        BY <2>3, <3>1, <3>2
    <2>6. /\ job' \in [Jobs -> Job] /\ job'[j] = c /\ \A k \in Jobs \ {j} : job'[k] = job[k]
      BY <1>0, <2>5 DEF TypeOK
    <2> QED
      BY <1>0, <1>t, <2>1, <2>2, <2>5, <2>6, OneJob
  <1>5. CASE Settle(j)
    <2>1. job' = [job EXCEPT ![j].st = "returned"]
      BY <1>5 DEF Settle, Step
    <2>2. /\ UNCHANGED <<truth, listed, up, member, cycle, mishaps, loop, row, status, missing, host, task>>
          /\ wake' \in BOOLEAN
      BY <1>5 DEF Settle, pveVars, dbVars
    <2>3. /\ job' \in [Jobs -> Job] /\ job'[j].st = "returned" /\ job'[j].guest = job[j].guest
          /\ \A k \in Jobs \ {j} : job'[k] = job[k]
      BY <1>0, <2>1, JobSteps DEF Active
    <2> QED
      BY <1>0, <1>t, <2>2, <2>3, OneJob
  <1>6. CASE Forget(j)
    <2>1. job' = [job EXCEPT ![j].st = "returned"]
      BY <1>6 DEF Forget, Step
    <2>2. /\ UNCHANGED <<truth, listed, up, member, cycle, mishaps, loop, host, task>>
          /\ wake' \in BOOLEAN /\ row' \subseteq Guests
          /\ status' \in [Guests -> Known \cup {"unknown"}]
          /\ missing' \in [Guests -> {"no", "counting", "due"}]
      BY <1>6, <1>t DEF Forget, pveVars
    <2>3. /\ job' \in [Jobs -> Job] /\ job'[j].st = "returned" /\ job'[j].guest = job[j].guest
          /\ \A k \in Jobs \ {j} : job'[k] = job[k]
      BY <1>0, <2>1, JobSteps DEF Active
    <2> QED
      BY <1>0, <1>t, <2>2, <2>3, OneJob
  <1>7. CASE Abandon(j)
    <2>1. job' = [job EXCEPT ![j].st = "ended"]
      BY <1>7 DEF Abandon
    <2>2. UNCHANGED <<truth, listed, up, member, cycle, mishaps, loop, row, status, missing, host, wake, task>>
      BY <1>7 DEF Abandon, pveVars, dbVars, pollVars
    <2>3. /\ job' \in [Jobs -> Job] /\ job'[j].st = "ended" /\ job'[j].guest = job[j].guest
          /\ \A k \in Jobs \ {j} : job'[k] = job[k]
      BY <1>0, <2>1, JobSteps DEF Active
    <2> QED
      BY <1>0, <1>t, <2>2, <2>3, OneJob
  <1>8. CASE Succeed(j) \/ FreshEnds(j) \/ Ages(j)
    <2>1. UNCHANGED <<truth, listed, up, member, cycle, mishaps, loop, row, status, missing, host, wake, task>>
      BY <1>8 DEF Succeed, FreshEnds, Ages, pveVars, dbVars, pollVars
    <2>2. \/ job' = [job EXCEPT ![j] = [job[j] EXCEPT !.st = "succeeded", !.fresh = TRUE]]
          \/ job' = [job EXCEPT ![j] = [job[j] EXCEPT !.fresh = FALSE]]
          \/ \E tier \in {"error", "forgotten"} : job' = [job EXCEPT ![j] = [job[j] EXCEPT !.tier = tier]]
      BY <1>0, <1>8 DEF Succeed, FreshEnds, Ages, TypeOK
    <2>3. PICK c \in Job : /\ job' = [job EXCEPT ![j] = c] /\ c.guest = job[j].guest
                           /\ c.st \in {job[j].st, "succeeded"}
      <3>1. /\ [job[j] EXCEPT !.st = "succeeded", !.fresh = TRUE] \in Job
            /\ [job[j] EXCEPT !.fresh = FALSE] \in Job
            /\ \A tier \in {"error", "forgotten"} : [job[j] EXCEPT !.tier = tier] \in Job
        BY <1>0 DEF Job
      <3>2. /\ [job[j] EXCEPT !.st = "succeeded", !.fresh = TRUE].guest = job[j].guest
            /\ [job[j] EXCEPT !.fresh = FALSE].guest = job[j].guest
            /\ \A tier \in {"error", "forgotten"} : [job[j] EXCEPT !.tier = tier].guest = job[j].guest
            /\ [job[j] EXCEPT !.st = "succeeded", !.fresh = TRUE].st = "succeeded"
            /\ [job[j] EXCEPT !.fresh = FALSE].st = job[j].st
            /\ \A tier \in {"error", "forgotten"} : [job[j] EXCEPT !.tier = tier].st = job[j].st
        BY <1>0 DEF Job
      <3> QED
        BY <2>2, <3>1, <3>2
    <2>4. /\ job' \in [Jobs -> Job] /\ job'[j] = c /\ \A k \in Jobs \ {j} : job'[k] = job[k]
      BY <1>0, <2>3 DEF TypeOK
    <2>5. /\ c.st = "destroy" => task[j] = "destroy" \/ truth[c.guest] = "gone"
          /\ c.st = "forget" => truth[c.guest] = "gone"
      BY <1>0, <2>3 DEF DestroyTold
    <2> QED
      BY <1>0, <1>t, <2>1, <2>3, <2>4, <2>5, OneJob
  <1> QED
    BY <1>1, <1>2, <1>3, <1>4, <1>5, <1>6, <1>7, <1>8 DEF Act

(* A request queues a job; a restart files those under way. *)
LEMMA JobsComeAndGo ==
  ASSUME GuestInv,
         Restart \/ \E j \in Jobs, g \in Guests, verb \in Verbs : Enqueue(j, g, verb)
  PROVE  GuestInv' /\ GoneStays
  <1>0. TypeOK /\ DestroyTold
    BY DEF GuestInv
  <1>1. ASSUME NEW j \in Jobs, NEW g \in Guests, NEW verb \in Verbs, Enqueue(j, g, verb)
        PROVE  GuestInv' /\ GoneStays
    <2> DEFINE c == [NoJob EXCEPT !.st = "queued", !.guest = g, !.verb = verb]
    <2>1. job' = [job EXCEPT ![j] = c]
      BY <1>1 DEF Enqueue
    <2>2. UNCHANGED <<truth, listed, up, member, cycle, mishaps, loop, row, status, missing, host, wake, task>>
      BY <1>1 DEF Enqueue, pveVars, dbVars, pollVars
    <2>3. c \in Job /\ c.st = "queued" /\ c.guest = g
      BY BlankJob DEF Job, Active
    <2> HIDE DEF c
    <2>4. job' \in [Jobs -> Job] /\ job'[j] = c /\ \A k \in Jobs \ {j} : job'[k] = job[k]
      BY <1>0, <2>1, <2>3 DEF TypeOK
    <2>5. /\ row \subseteq Guests /\ status \in [Guests -> Known \cup {"unknown"}]
          /\ missing \in [Guests -> {"no", "counting", "due"}] /\ wake \in BOOLEAN
          /\ task \in [Jobs -> {"none", "start", "stop", "destroy"}]
      BY <1>0 DEF TypeOK
    <2> QED
      BY <2>2, <2>3, <2>4, <2>5, OneJob
  <1>2. CASE Restart
    <2>1. mishaps' \in 0..MaxMishaps
      BY <1>0, <1>2, MishapsCount DEF Restart
    <2>2. /\ UNCHANGED <<truth, listed, up, member, row, status, missing, host, task>>
          /\ loop' = "ready" /\ wake' = FALSE /\ cycle' = [t \in Threads |-> NoCycle]
      BY <1>2 DEF Restart, pveVars, dbVars
    <2>3. ASSUME NEW j \in Jobs PROVE [job[j] EXCEPT !.st = "ended"] \in Job
      <3>1. job[j] \in Job
        BY <1>0 DEF TypeOK
      <3> QED
        BY <3>1 DEF Job
    <2>4. job' \in [Jobs -> Job] /\ \A j \in Jobs : job'[j].st \notin {"destroy", "forget"}
      BY <1>0, <1>2, <2>3 DEF Restart, TypeOK, Job, Active
    <2>5. TypeOK'
      BY <1>0, <2>1, <2>2, <2>4, BlankCycle DEF TypeOK
    <2>6. AbsenceTold' /\ DestroyTold'
      BY <2>2, <2>4, BlankCycle DEF AbsenceTold, DestroyTold
    <2> QED
      BY <2>2, <2>5, <2>6 DEF GuestInv, ListFollows, GoneStays
  <1> QED
    BY <1>1, <1>2

(* Every step. *)
LEMMA GuestsStep ==
  ASSUME GuestInv, ~BlindVanish, [Next]_vars
  PROVE  GuestInv' /\ GoneStays
  <1>1. CASE UNCHANGED vars
    <2>1. UNCHANGED <<truth, listed, up, member, row, status, missing, host, loop, wake, cycle, job, task, mishaps>>
      BY <1>1 DEF vars, pveVars, dbVars, pollVars, jobVars
    <2> QED
      BY <2>1 DEF GuestInv, TypeOK, ListFollows, AbsenceTold, DestroyTold, GoneStays
  <1> QED
    BY <1>1, GuestsMove, ClusterMoves, PollMoves, JobMoves, JobsComeAndGo DEF Next, Clock

(* Only a filing and an uninstall remove rows, and both were told the truth. *)
LEMMA RowsGo ==
  ASSUME GuestInv, [Next]_vars, NEW g \in row \ row'
  PROVE  truth[g] = "gone"
  <1>0. TypeOK /\ g \in Guests /\ AbsenceTold /\ DestroyTold
    BY DEF GuestInv, TypeOK
  <1>1. ASSUME NEW t \in Threads, File(t) PROVE truth[g] = "gone"
    <2> DEFINE c == cycle[t]
    <2>1. g \in Reaped(c)
      BY <1>1 DEF File
    <2>2. c.seen[g] = "absent" /\ c.trust
      BY <2>1 DEF Reaped
    <2> QED
      BY <1>0, <2>2 DEF AbsenceTold
  <1>2. ASSUME NEW j \in Jobs, Forget(j) PROVE truth[g] = "gone"
    <2>1. g = job[j].guest /\ job[j].st = "forget"
      BY <1>2 DEF Forget, Step
    <2> QED
      BY <1>0, <2>1 DEF DestroyTold
  <1>3. ASSUME UNCHANGED dbVars \/ UNCHANGED row PROVE FALSE
    BY <1>3 DEF dbVars
  <1>4. ASSUME \/ UNCHANGED vars \/ Outage \/ Answers \/ MemberLeaves \/ MemberReturns \/ GiveUp \/ Restart
               \/ \E h \in Guests : OutsideChange(h) \/ ListCatchesUp(h) \/ AbsenceAges(h)
               \/ StartCycle \/ MarkUnreachable \/ Rest
               \/ \E t \in Threads : TakeList(t) \/ NoAnswer(t) \/ BeginFiling(t) \/ FilingFails(t)
        PROVE  FALSE
    BY <1>3, <1>4 DEF vars, Outage, Answers, MemberLeaves, MemberReturns, GiveUp, Restart, OutsideChange,
       ListCatchesUp, AbsenceAges, StartCycle, MarkUnreachable, Rest, TakeList, NoAnswer, BeginFiling, FilingFails
  <1>5. ASSUME \/ \E j \in Jobs : \/ Begin(j) \/ Post(j) \/ TaskSeen(j) \/ Observe(j) \/ Settle(j) \/ Succeed(j)
                                  \/ TaskEnds(j) \/ Abandon(j) \/ FreshEnds(j) \/ Ages(j)
               \/ \E j \in Jobs, h \in Guests, verb \in Verbs : Enqueue(j, h, verb)
        PROVE  FALSE
    BY <1>3, <1>5 DEF Begin, Post, TaskSeen, Observe, Settle, Succeed, TaskEnds, Abandon, FreshEnds, Ages, Enqueue
  <1> QED
    BY <1>1, <1>2, <1>4, <1>5 DEF Next, Poll, Thread, Clock, Act

(* Rows are removed when their guests are gone, and not before: through     *)
(* outages, late cycles, members that leave, tasks nobody waits for and     *)
(* restarts.  A member that vanishes from the list while the member count   *)
(* is refused as well (BlindVanish) cannot be told from guests that are gone. *)
THEOREM RemovalsAreReal ==
  ASSUME ~BlindVanish
  PROVE  Spec => RemovedWasGone
  <1>1. GuestInv /\ [Next]_vars => GuestInv'
    BY GuestsStep
  <1>2. GuestInv /\ [Next]_vars => [\A g \in row \ row' : truth[g] = "gone"]_vars
    BY RowsGo
  <1>3. GuestInv => TypeOK
    BY DEF GuestInv
  <1> QED
    BY <1>1, <1>2, <1>3, GuestsInit, PTL DEF Spec, RemovedWasGone

-----------------------------------------------------------------------------
(***************************************************************************)
(* Alerts (services/alerts.py, notifier.py).  What a pass has committed is *)
(* told at its end only: the invariant says of everything that is still to *)
(* be told that it comes after what was heard, and that the pass will not  *)
(* come back to its pair.                                                  *)
(***************************************************************************)
Pass == [pc : {"idle", "rules", "sweep", "publish", "notify"}, loaded : [Rules -> Rule],
         todo : SUBSET Rules, pairs : SUBSET Pairs, visited : SUBSET Pairs,
         sweep : SUBSET Nat, told : Seq(Transition)]
Pair(i) == <<alerts[i].rule, alerts[i].target>>
Begun == {<<>>, <<"firing">>}
(* Nobody has heard how an open alert ends, and of each alert it is known or *)
(* still to be told how it began and, of a resolved one, how it ended.       *)
AlertHolds(i) ==
    /\ InOrder(alerts[i].heard) /\ \A c \in Channels : InOrder(alerts[i].sent[c])
    /\ alerts[i].state = "firing" =>
         alerts[i].heard \in Begun /\ \A c \in Channels : alerts[i].sent[c] \in Begun
    /\ Passed(i, "firing")
    /\ alerts[i].state = "resolved" => Passed(i, "resolved")
(* What is still to be told of an alert comes after what was heard of it: of *)
(* a pair that this pass is through with.                                    *)
ToTell(t) ==
    /\ t.id \in DOMAIN alerts
    /\ t.state = "firing" =>
         /\ alerts[t.id].state \in {"firing", "deleted"}
         /\ alerts[t.id].heard = (IF pass.pc = "notify" THEN <<"firing">> ELSE <<>>)
         /\ \A c \in Channels : alerts[t.id].sent[c] = <<>>
    /\ t.state = "resolved" =>
         /\ alerts[t.id].state \in {"resolved", "deleted"}
         /\ alerts[t.id].heard \in IF pass.pc = "notify" THEN {<<"resolved">>, <<"firing", "resolved">>}
                                   ELSE Begun
         /\ \A c \in Channels : alerts[t.id].sent[c] \in Begun
    /\ pass.pc = "rules" => Pair(t.id) \in pass.visited \ pass.pairs
    /\ pass.pc = "sweep" => t.id \notin pass.sweep
PassHolds ==
    /\ pass.sweep \subseteq DOMAIN alerts
    /\ pass.pc = "idle" => pass.told = <<>>
    /\ pass.pc = "rules" => pass.pairs \subseteq pass.visited /\ \A p \in pass.visited : p[1] \notin pass.todo
    /\ pass.pc = "sweep" => \A i \in pass.sweep : alerts[i].state \in {"firing", "deleted"}
    /\ pass.pc # "publish"
    /\ \A k \in DOMAIN pass.told : ToTell(pass.told[k])
    /\ \A k, l \in DOMAIN pass.told : pass.told[k].id = pass.told[l].id => k = l
OneOpen == \A i, j \in DOMAIN alerts :
    alerts[i].state = "firing" /\ alerts[j].state = "firing" /\ Pair(i) = Pair(j) => i = j
AlertsInv ==
    /\ rules \in [Rules -> Rule] /\ targets \subseteq Targets
    /\ world \in [Pairs -> {"calm", "recent", "held"}]
    /\ channels \in [Channels -> {"none", "on", "off"}] /\ muted \in BOOLEAN /\ moves \in 0..MaxMoves
    /\ alerts \in Seq(Alert) /\ pass \in Pass
    /\ PassHolds /\ OneOpen /\ \A i \in DOMAIN alerts : AlertHolds(i)

(* A function on 1..n whose values are in S is a sequence over S. *)
LEMMA RowsOf ==
  ASSUME NEW S, NEW n \in Nat, NEW s, s = [i \in 1..n |-> s[i]], \A i \in 1..n : s[i] \in S
  PROVE  s \in Seq(S)
  <1> DEFINE e(i) == s[i]
  <1>1. \A i \in 1..n : e(i) \in S
    OBVIOUS
  <1>2. s = [i \in 1..n |-> e(i)]
    OBVIOUS
  <1> HIDE DEF e
  <1>3. [i \in 1..n |-> e(i)] \in Seq(S)
    BY <1>1, IsASeq
  <1> QED
    BY <1>2, <1>3

(* What all of the steps use. *)
LEMMA AlertsTypes ==
  ASSUME AlertsInv
  PROVE  /\ Len(alerts) \in Nat /\ DOMAIN alerts = 1..Len(alerts)
         /\ \A i \in DOMAIN alerts : alerts[i] \in Alert
         /\ Len(pass.told) \in Nat /\ DOMAIN pass.told = 1..Len(pass.told)
         /\ \A k \in DOMAIN pass.told : pass.told[k] \in Transition
         /\ NoRule \in Rule /\ NoPass \in Pass /\ MaxMoves \in Nat
         /\ Move => moves' \in 0..MaxMoves
  <1>1. alerts \in Seq(Alert) /\ pass.told \in Seq(Transition) /\ moves \in 0..MaxMoves
    BY DEF AlertsInv, Pass
  <1>2. NoRule \in Rule
    BY DEF NoRule, Rule
  <1>3. NoPass \in Pass
    BY <1>2 DEF NoPass, Pass
  <1>4. Move => moves' \in 0..MaxMoves
    BY <1>1, MovesAssumption DEF Move
  <1> QED
    BY <1>1, <1>2, <1>3, <1>4, MovesAssumption, LenProperties, ElementOfSeq

(* An installation with no alert satisfies the invariant. *)
LEMMA AlertsInitInv == AlertsInit => AlertsInv
  <1> SUFFICES ASSUME AlertsInit PROVE AlertsInv
    OBVIOUS
  <1>0. NoRule \in Rule
    BY DEF NoRule, Rule
  <1>1. rules \in [Rules -> Rule]
    BY <1>0 DEF AlertsInit, NoRule, Rule
  <1>2. pass \in Pass /\ alerts \in Seq(Alert) /\ DOMAIN alerts = {} /\ DOMAIN pass.told = {}
    BY <1>0 DEF AlertsInit, NoPass, Pass
  <1>3. PassHolds
    BY <1>2 DEF PassHolds, AlertsInit, NoPass
  <1>4. OneOpen /\ \A i \in DOMAIN alerts : AlertHolds(i)
    BY <1>2 DEF OneOpen
  <1>5. /\ targets \subseteq Targets /\ world \in [Pairs -> {"calm", "recent", "held"}]
        /\ channels \in [Channels -> {"none", "on", "off"}] /\ muted \in BOOLEAN
    BY DEF AlertsInit
  <1>6. moves \in 0..MaxMoves
    BY MovesAssumption DEF AlertsInit
  <1> QED
    BY <1>1, <1>2, <1>3, <1>4, <1>5, <1>6 DEF AlertsInv

(* The world moves, and the pass and its alerts do not. *)
LEMMA WorldStep ==
  ASSUME AlertsInv, UNCHANGED <<alerts, pass>>,
         rules' \in [Rules -> Rule], targets' \subseteq Targets,
         world' \in [Pairs -> {"calm", "recent", "held"}],
         channels' \in [Channels -> {"none", "on", "off"}], muted' \in BOOLEAN, moves' \in 0..MaxMoves
  PROVE  AlertsInv'
  <1>0. \A k \in DOMAIN pass.told : ToTell(pass.told[k])'
    <2>1. \A k \in DOMAIN pass.told : ToTell(pass.told[k])
      BY DEF AlertsInv, PassHolds
    <2> QED
      BY <2>1 DEF ToTell, Pair
  <1>1. PassHolds' /\ OneOpen'
    BY <1>0 DEF AlertsInv, PassHolds, OneOpen, Pair
  <1>2. \A i \in DOMAIN alerts' : AlertHolds(i)'
    BY DEF AlertsInv, AlertHolds, Passed
  <1> QED
    BY <1>1, <1>2 DEF AlertsInv

(* Samples, targets, rules and channels change. *)
LEMMA WorldInv ==
  ASSUME AlertsInv,
         \/ PatchTypes \/ UNCHANGED alertVars
         \/ \E p \in Pairs : Sample(p)
         \/ \E t \in Targets : TargetGoes(t)
         \/ \E r \in Rules : CreateRule(r) \/ PatchRule(r)
         \/ \E c \in Channels : EditChannel(c)
  PROVE  AlertsInv'
  <1>0. /\ rules \in [Rules -> Rule] /\ targets \subseteq Targets
        /\ world \in [Pairs -> {"calm", "recent", "held"}]
        /\ channels \in [Channels -> {"none", "on", "off"}] /\ muted \in BOOLEAN /\ moves \in 0..MaxMoves
        /\ (Move => moves' \in 0..MaxMoves)
    BY AlertsTypes DEF AlertsInv
  <1>1. CASE PatchTypes
    BY <1>0, <1>1, WorldStep DEF PatchTypes
  <1>2. CASE UNCHANGED alertVars
    BY <1>0, <1>2, WorldStep DEF alertVars
  <1>3. ASSUME NEW p \in Pairs, Sample(p) PROVE AlertsInv'
    BY <1>0, <1>3, WorldStep DEF Sample
  <1>4. ASSUME NEW t \in Targets, TargetGoes(t) PROVE AlertsInv'
    <2>1. targets' \subseteq Targets
      BY <1>0, <1>4 DEF TargetGoes
    <2>2. world' \in [Pairs -> {"calm", "recent", "held"}]
      BY <1>0, <1>4 DEF TargetGoes
    <2> QED
      BY <1>0, <1>4, <2>1, <2>2, WorldStep DEF TargetGoes
  <1>5. ASSUME NEW r \in Rules, CreateRule(r) \/ PatchRule(r) PROVE AlertsInv'
    <2>1. rules' \in [Rules -> Rule]
      BY <1>0, <1>5 DEF CreateRule, PatchRule
    <2> QED
      BY <1>0, <1>5, <2>1, WorldStep DEF CreateRule, PatchRule
  <1>6. ASSUME NEW c \in Channels, EditChannel(c) PROVE AlertsInv'
    BY <1>0, <1>6, WorldStep DEF EditChannel
  <1> QED
    BY <1>1, <1>2, <1>3, <1>4, <1>5, <1>6

(* Alerts are acknowledged or deleted, and the pass goes on. *)
LEMMA MarkedStep ==
  ASSUME AlertsInv, UNCHANGED pass, alerts' \in Seq(Alert), DOMAIN alerts' = DOMAIN alerts,
         \A i \in DOMAIN alerts :
           /\ alerts'[i].rule = alerts[i].rule /\ alerts'[i].target = alerts[i].target
           /\ alerts'[i].heard = alerts[i].heard /\ alerts'[i].sent = alerts[i].sent
           /\ alerts'[i].lost = alerts[i].lost
           /\ alerts'[i].state \in {alerts[i].state, "deleted"},
         rules' \in [Rules -> Rule], UNCHANGED <<targets, world, channels, muted>>, moves' \in 0..MaxMoves
  PROVE  AlertsInv'
  <1>1. ASSUME NEW k \in DOMAIN pass.told PROVE ToTell(pass.told[k])'
    <2>1. ToTell(pass.told[k])
      BY DEF AlertsInv, PassHolds
    <2>2. pass.told[k].id \in DOMAIN alerts
      BY <2>1 DEF ToTell
    <2> QED
      BY <2>1, <2>2 DEF ToTell, Pair
  <1>2. PassHolds'
    <2>1. pass.pc = "sweep" => \A i \in pass.sweep : alerts'[i].state \in {"firing", "deleted"}
      BY DEF AlertsInv, PassHolds
    <2> QED
      BY <1>1, <2>1 DEF AlertsInv, PassHolds
  <1>3. OneOpen'
    BY DEF AlertsInv, OneOpen, Pair
  <1>4. ASSUME NEW i \in DOMAIN alerts PROVE AlertHolds(i)'
    <2>1. AlertHolds(i)
      BY DEF AlertsInv
    <2> QED
      BY <2>1 DEF AlertHolds, Passed
  <1> QED
    BY <1>2, <1>3, <1>4 DEF AlertsInv

(* A rule goes with its alerts, and an alert is acknowledged. *)
LEMMA MarksInv ==
  ASSUME AlertsInv, (\E r \in Rules : DeleteRule(r)) \/ \E i \in DOMAIN alerts : Ack(i)
  PROVE  AlertsInv'
  <1>0. /\ rules \in [Rules -> Rule] /\ alerts \in Seq(Alert) /\ Len(alerts) \in Nat
        /\ DOMAIN alerts = 1..Len(alerts) /\ \A i \in DOMAIN alerts : alerts[i] \in Alert
        /\ NoRule \in Rule /\ (Move => moves' \in 0..MaxMoves)
    BY AlertsTypes DEF AlertsInv
  <1>1. ASSUME NEW r \in Rules, DeleteRule(r) PROVE AlertsInv'
    <2>1. DOMAIN alerts' = DOMAIN alerts
      BY <1>1 DEF DeleteRule
    <2>2. ASSUME NEW i \in DOMAIN alerts
          PROVE  /\ alerts'[i] \in Alert
                 /\ alerts'[i].rule = alerts[i].rule /\ alerts'[i].target = alerts[i].target
                 /\ alerts'[i].heard = alerts[i].heard /\ alerts'[i].sent = alerts[i].sent
                 /\ alerts'[i].lost = alerts[i].lost
                 /\ alerts'[i].state \in {alerts[i].state, "deleted"}
      <3>1. alerts'[i] = alerts[i] \/ alerts'[i] = [alerts[i] EXCEPT !.state = "deleted"]
        BY <1>1 DEF DeleteRule
      <3>2. alerts[i] \in Alert
        BY <1>0
      <3> QED
        BY <3>1, <3>2 DEF Alert
    <2>3. alerts' \in Seq(Alert)
      <3>1. alerts' = [i \in 1..Len(alerts) |-> alerts'[i]]
        BY <1>0, <1>1 DEF DeleteRule
      <3> QED
        BY <1>0, <2>2, <3>1, RowsOf
    <2>4. rules' \in [Rules -> Rule]
      BY <1>0, <1>1 DEF DeleteRule
    <2> QED
      BY <1>0, <1>1, <2>1, <2>2, <2>3, <2>4, MarkedStep DEF DeleteRule
  <1>2. ASSUME NEW n \in DOMAIN alerts, Ack(n) PROVE AlertsInv'
    <2>1. DOMAIN alerts' = DOMAIN alerts
      BY <1>2 DEF Ack
    <2>2. ASSUME NEW i \in DOMAIN alerts
          PROVE  /\ alerts'[i] \in Alert
                 /\ alerts'[i].rule = alerts[i].rule /\ alerts'[i].target = alerts[i].target
                 /\ alerts'[i].heard = alerts[i].heard /\ alerts'[i].sent = alerts[i].sent
                 /\ alerts'[i].lost = alerts[i].lost
                 /\ alerts'[i].state \in {alerts[i].state, "deleted"}
      <3>1. alerts'[i] = alerts[i] \/ alerts'[i] = [alerts[i] EXCEPT !.acked = TRUE]
        BY <1>2 DEF Ack
      <3>2. alerts[i] \in Alert
        BY <1>0
      <3> QED
        BY <3>1, <3>2 DEF Alert
    <2>3. alerts' \in Seq(Alert)
      <3>1. alerts' = [i \in 1..Len(alerts) |-> alerts'[i]]
        BY <1>0, <1>2 DEF Ack
      <3> QED
        BY <1>0, <2>2, <3>1, RowsOf
    <2> QED
      BY <1>0, <1>2, <2>1, <2>2, <2>3, MarkedStep DEF Ack
  <1> QED
    BY <1>1, <1>2

(* The pass goes on and has nothing more to tell. *)
LEMMA PassStep ==
  ASSUME AlertsInv, UNCHANGED <<rules, targets, world, alerts, channels, muted>>,
         moves' \in 0..MaxMoves, pass' \in Pass, PassHolds',
         pass'.told = pass.told
  PROVE  AlertsInv'
  <1>1. OneOpen'
    BY DEF AlertsInv, OneOpen, Pair
  <1>2. ASSUME NEW i \in DOMAIN alerts PROVE AlertHolds(i)'
    <2>1. AlertHolds(i)
      BY DEF AlertsInv
    <2> QED
      BY <2>1 DEF AlertHolds, Passed
  <1> QED
    BY <1>1, <1>2 DEF AlertsInv

(* A pass begins with the rules as they are, *)
LEMMA StartPassInv == ASSUME AlertsInv, StartPass PROVE AlertsInv'
  <1>0. rules \in [Rules -> Rule] /\ pass \in Pass /\ pass.told = <<>> /\ NoPass \in Pass /\ moves \in 0..MaxMoves
    BY AlertsTypes DEF AlertsInv, PassHolds, StartPass
  <1>1. pass' \in Pass /\ pass'.told = <<>> /\ pass'.pc = "rules" /\ pass'.pairs = {} /\ pass'.visited = {}
        /\ pass'.sweep = {}
    BY <1>0 DEF StartPass, NoPass, Pass
  <1>2. PassHolds'
    BY <1>1 DEF PassHolds
  <1> QED
    BY <1>0, <1>1, <1>2, PassStep DEF StartPass

(* takes one of them, *)
LEMMA TakeRuleInv == ASSUME AlertsInv, NEW r \in Rules, TakeRule(r) PROVE AlertsInv'
  <1> DEFINE pairs == {r} \X Covered(pass.loaded[r])
  <1>0. pass \in Pass /\ PassHolds /\ moves \in 0..MaxMoves
    BY DEF AlertsInv
  <1>1. pairs \subseteq Pairs /\ \A p \in pairs : p[1] = r
    <2>1. Covered(pass.loaded[r]) \subseteq Targets
      BY DEF Covered, AlertsInv
    <2> QED
      BY <2>1 DEF Pairs
  <1>2. pass' = [pass EXCEPT !.todo = pass.todo \ {r}, !.pairs = pairs, !.visited = pass.visited \cup pairs]
    BY DEF TakeRule
  <1> HIDE DEF pairs
  <1>3. /\ pass' \in Pass /\ pass'.told = pass.told /\ pass'.pc = "rules" /\ pass'.pairs = pairs
        /\ pass'.visited = pass.visited \cup pairs /\ pass'.todo = pass.todo \ {r} /\ pass'.sweep = pass.sweep
    <2> DEFINE todo == pass.todo \ {r}
               visited == pass.visited \cup pairs
    <2>1. todo \in SUBSET Rules /\ visited \in SUBSET Pairs /\ pairs \in SUBSET Pairs
      BY <1>0, <1>1 DEF Pass
    <2>2. pass' = [pass EXCEPT !.todo = todo, !.pairs = pairs, !.visited = visited]
      BY <1>2
    <2>3. pass.pc = "rules"
      BY DEF TakeRule
    <2> HIDE DEF todo, visited
    <2>4. /\ pass' \in Pass /\ pass'.told = pass.told /\ pass'.pc = "rules" /\ pass'.pairs = pairs
          /\ pass'.visited = visited /\ pass'.todo = todo /\ pass'.sweep = pass.sweep
      BY <1>0, <2>1, <2>2, <2>3 DEF Pass
    <2> QED
      BY <2>4 DEF todo, visited
  <1>4. pass.pc = "rules" /\ pass.pairs = {} /\ r \in pass.todo /\ UNCHANGED alerts
    BY DEF TakeRule
  <1>5. \A p \in pass.visited : p \notin pairs
    BY <1>0, <1>1, <1>4 DEF PassHolds
  <1>6. ASSUME NEW k \in DOMAIN pass.told PROVE ToTell(pass.told[k])'
    <2>1. ToTell(pass.told[k])
      BY <1>0 DEF PassHolds
    <2> QED
      BY <1>3, <1>4, <1>5, <2>1 DEF ToTell, Pair
  <1>7. PassHolds'
    BY <1>0, <1>1, <1>3, <1>4, <1>6 DEF PassHolds
  <1> QED
    BY <1>0, <1>3, <1>7, PassStep DEF TakeRule

(* lists what it did not visit, *)
LEMMA StartSweepInv == ASSUME AlertsInv, StartSweep PROVE AlertsInv'
  <1>0. pass \in Pass /\ PassHolds /\ moves \in 0..MaxMoves /\ DOMAIN alerts \subseteq Nat
    BY AlertsTypes DEF AlertsInv
  <1>1. /\ Orphans \subseteq DOMAIN alerts
        /\ \A i \in Orphans : alerts[i].state = "firing" /\ Pair(i) \notin pass.visited
    BY DEF Orphans, Pair
  <1>2. pass' = [pass EXCEPT !.pc = "sweep", !.sweep = Orphans] /\ pass.pc = "rules" /\ UNCHANGED alerts
    BY DEF StartSweep
  <1>3. pass' \in Pass /\ pass'.told = pass.told /\ pass'.pc = "sweep" /\ pass'.sweep = Orphans
    BY <1>0, <1>1, <1>2 DEF Pass
  <1>4. ASSUME NEW k \in DOMAIN pass.told PROVE ToTell(pass.told[k])'
    <2>1. ToTell(pass.told[k])
      BY <1>0 DEF PassHolds
    <2> QED
      BY <1>1, <1>2, <1>3, <2>1 DEF ToTell, Pair
  <1>5. PassHolds'
    BY <1>0, <1>1, <1>2, <1>3, <1>4 DEF PassHolds
  <1> QED
    BY <1>0, <1>3, <1>5, PassStep DEF StartSweep

(* and ends. *)
LEMMA EndPassInv == ASSUME AlertsInv, EndPass PROVE AlertsInv'
  <1>0. pass.told = <<>> /\ NoPass \in Pass /\ moves \in 0..MaxMoves
    BY AlertsTypes DEF AlertsInv, EndPass
  <1>1. pass' \in Pass /\ pass'.told = <<>> /\ PassHolds'
    BY <1>0 DEF EndPass, NoPass, PassHolds
  <1> QED
    BY <1>0, <1>1, PassStep DEF EndPass

(* A pass that is given up will not tell what it had to tell. *)
LEMMA BrokenInv ==
  ASSUME AlertsInv, pass' = NoPass, alerts' = Broken,
         UNCHANGED <<rules, targets, world, channels, muted>>, moves' \in 0..MaxMoves
  PROVE  AlertsInv'
  <1>0. /\ alerts \in Seq(Alert) /\ Len(alerts) \in Nat /\ DOMAIN alerts = 1..Len(alerts)
        /\ \A i \in DOMAIN alerts : alerts[i] \in Alert
        /\ \A k \in DOMAIN pass.told : pass.told[k] \in Transition
        /\ NoPass \in Pass
    BY AlertsTypes DEF AlertsInv
  <1> DEFINE cut(i) == {t.state : t \in {x \in ToSet(pass.told) : x.id = i}}
  <1>1. \A i \in DOMAIN alerts : cut(i) \subseteq {"firing", "resolved"}
    BY <1>0 DEF ToSet, Transition
  <1>2. ASSUME NEW i \in DOMAIN alerts PROVE alerts'[i] = [alerts[i] EXCEPT !.lost = alerts[i].lost \cup cut(i)]
    BY DEF Broken
  <1>3. DOMAIN alerts' = DOMAIN alerts
    BY DEF Broken
  <1>4. ASSUME NEW i \in DOMAIN alerts, NEW t \in ToSet(pass.told), t.id = i PROVE t.state \in cut(i)
    BY <1>4
  <1> HIDE DEF cut
  <1>5. ASSUME NEW i \in DOMAIN alerts
        PROVE  /\ alerts'[i] \in Alert
               /\ alerts'[i].rule = alerts[i].rule /\ alerts'[i].target = alerts[i].target
               /\ alerts'[i].heard = alerts[i].heard /\ alerts'[i].sent = alerts[i].sent
               /\ alerts'[i].lost = alerts[i].lost \cup cut(i) /\ alerts'[i].state = alerts[i].state
    <2>1. alerts[i] \in Alert
      BY <1>0
    <2> DEFINE lost == alerts[i].lost \cup cut(i)
    <2>2. lost \in SUBSET {"firing", "resolved"}
      BY <1>1, <2>1 DEF Alert
    <2>3. alerts'[i] = [alerts[i] EXCEPT !.lost = lost]
      BY <1>2
    <2> HIDE DEF lost
    <2>4. /\ alerts'[i] \in Alert
          /\ alerts'[i].rule = alerts[i].rule /\ alerts'[i].target = alerts[i].target
          /\ alerts'[i].heard = alerts[i].heard /\ alerts'[i].sent = alerts[i].sent
          /\ alerts'[i].lost = lost /\ alerts'[i].state = alerts[i].state
      BY <2>1, <2>2, <2>3 DEF Alert
    <2> QED
      BY <2>4 DEF lost
  <1>6. alerts' \in Seq(Alert)
    <2>1. alerts' = [i \in 1..Len(alerts) |-> alerts'[i]]
      BY <1>0 DEF Broken
    <2> QED
      BY <1>0, <1>5, <2>1, RowsOf
  <1>7. PassHolds'
    BY DEF NoPass, PassHolds
  <1>8. OneOpen'
    BY <1>3, <1>5 DEF AlertsInv, OneOpen, Pair
  <1>9. ASSUME NEW i \in DOMAIN alerts, NEW state, Passed(i, state) PROVE Passed(i, state)'
    <2>1. CASE state \in ToSet(alerts[i].heard) \cup alerts[i].lost
      BY <1>5, <2>1 DEF Passed
    <2>2. CASE \E t \in ToSet(pass.told) : t.id = i /\ t.state = state
      <3>1. state \in cut(i)
        BY <1>4, <2>2
      <3> QED
        BY <1>5, <3>1 DEF Passed
    <2> QED
      BY <1>9, <2>1, <2>2 DEF Passed
  <1>10. ASSUME NEW i \in DOMAIN alerts PROVE AlertHolds(i)'
    <2>1. AlertHolds(i)
      BY DEF AlertsInv
    <2> QED
      BY <1>5, <1>9, <2>1 DEF AlertHolds
  <1> QED
    BY <1>0, <1>3, <1>6, <1>7, <1>8, <1>10 DEF AlertsInv

(* What a pass adds to what it will tell. *)
LEMMA ToldIs ==
  ASSUME AlertsInv, NEW i \in Nat, NEW state \in {"firing", "resolved"}, NEW r \in Rule
  PROVE  /\ Told(i, state, r) \in Seq(Transition)
         /\ DOMAIN Told(i, state, r) = 1..(Len(pass.told) + 1)
         /\ \A k \in DOMAIN pass.told : Told(i, state, r)[k] = pass.told[k]
         /\ Told(i, state, r)[Len(pass.told) + 1].id = i
         /\ Told(i, state, r)[Len(pass.told) + 1].state = state
  <1> DEFINE t == [id |-> i, state |-> state, named |-> r.named]
  <1>1. t \in Transition
    BY DEF Rule, Transition
  <1>2. pass.told \in Seq(Transition) /\ Len(pass.told) \in Nat /\ DOMAIN pass.told = 1..Len(pass.told)
    BY AlertsTypes DEF AlertsInv, Pass
  <1>3. t.id = i /\ t.state = state
    OBVIOUS
  <1>4. Told(i, state, r) = Append(pass.told, t)
    BY DEF Told
  <1> HIDE DEF t
  <1>5. /\ Append(pass.told, t) \in Seq(Transition) /\ Len(Append(pass.told, t)) = Len(pass.told) + 1
        /\ Append(pass.told, t)[Len(pass.told) + 1] = t
        /\ \A k \in 1..Len(pass.told) : Append(pass.told, t)[k] = pass.told[k]
    BY <1>1, <1>2, AppendProperties
  <1>6. DOMAIN Append(pass.told, t) = 1..(Len(pass.told) + 1)
    BY <1>5, LenProperties
  <1> QED
    BY <1>2, <1>3, <1>4, <1>5, <1>6

(* An open alert is resolved, and that is still to be told. *)
LEMMA ResolvedStep ==
  ASSUME AlertsInv, UNCHANGED <<rules, targets, world, channels, muted, moves>>,
         NEW i \in DOMAIN alerts, alerts[i].state = "firing",
         \A k \in DOMAIN pass.told : pass.told[k].id # i,
         alerts' = [alerts EXCEPT ![i].state = "resolved"],
         NEW r \in Rule, pass' \in Pass, pass'.told = Told(i, "resolved", r),
         pass'.pc = pass.pc, pass'.visited = pass.visited, pass'.todo = pass.todo,
         \/ /\ pass.pc = "rules" /\ Pair(i) \in pass.pairs
            /\ pass'.pairs = pass.pairs \ {Pair(i)} /\ pass'.sweep = pass.sweep
         \/ /\ pass.pc = "sweep" /\ pass'.pairs = pass.pairs
            /\ pass'.sweep = pass.sweep \ {i}
  PROVE  AlertsInv'
  <1>0. /\ alerts \in Seq(Alert) /\ Len(alerts) \in Nat /\ DOMAIN alerts = 1..Len(alerts)
        /\ \A j \in DOMAIN alerts : alerts[j] \in Alert
        /\ Len(pass.told) \in Nat /\ DOMAIN pass.told = 1..Len(pass.told) /\ i \in Nat
        /\ PassHolds /\ AlertHolds(i)
    BY AlertsTypes DEF AlertsInv
  <1>1. DOMAIN alerts' = DOMAIN alerts
    OBVIOUS
  <1>2. ASSUME NEW j \in DOMAIN alerts
        PROVE  /\ alerts'[j] \in Alert
               /\ alerts'[j].rule = alerts[j].rule /\ alerts'[j].target = alerts[j].target
               /\ alerts'[j].heard = alerts[j].heard /\ alerts'[j].sent = alerts[j].sent
               /\ alerts'[j].lost = alerts[j].lost
               /\ alerts'[j].state = IF j = i THEN "resolved" ELSE alerts[j].state
    <2>1. alerts'[j] = IF j = i THEN [alerts[j] EXCEPT !.state = "resolved"] ELSE alerts[j]
      OBVIOUS
    <2>2. alerts[j] \in Alert
      BY <1>0
    <2> QED
      BY <2>1, <2>2 DEF Alert
  <1>3. alerts' \in Seq(Alert)
    <2>1. alerts' = [j \in 1..Len(alerts) |-> alerts'[j]]
      BY <1>0
    <2>2. \A j \in 1..Len(alerts) : alerts'[j] \in Alert
      BY <1>0, <1>2
    <2>3. Len(alerts) \in Nat
      BY <1>0
    <2> QED
      BY <2>1, <2>2, <2>3, RowsOf
  <1>4. /\ DOMAIN pass'.told = 1..(Len(pass.told) + 1)
        /\ \A k \in DOMAIN pass.told : pass'.told[k] = pass.told[k]
        /\ pass'.told[Len(pass.told) + 1].id = i
        /\ pass'.told[Len(pass.told) + 1].state = "resolved"
    BY <1>0, ToldIs
  <1>5. ASSUME NEW k \in DOMAIN pass.told PROVE ToTell(pass.told[k])'
    <2>1. ToTell(pass.told[k]) /\ pass.told[k].id # i
      BY <1>0 DEF PassHolds
    <2>2. pass'.told[k] = pass.told[k]
      BY <1>4
    <2>3. pass.told[k].id \in DOMAIN alerts
      BY <2>1 DEF ToTell
    <2> HIDE DEF Alert
    <2>4. /\ alerts'[pass.told[k].id].state = alerts[pass.told[k].id].state
          /\ alerts'[pass.told[k].id].heard = alerts[pass.told[k].id].heard
          /\ alerts'[pass.told[k].id].sent = alerts[pass.told[k].id].sent
          /\ alerts'[pass.told[k].id].rule = alerts[pass.told[k].id].rule
          /\ alerts'[pass.told[k].id].target = alerts[pass.told[k].id].target
      BY <1>2, <2>1, <2>3
    <2> QED
      BY <1>1, <2>1, <2>2, <2>3, <2>4 DEF ToTell, Pair
  <1>n. PICK n \in Nat : n = Len(pass.told) + 1
    BY <1>0
  <1>6. ToTell(pass.told[n])'
    <2>1. /\ alerts'[i].state = "resolved" /\ alerts'[i].heard = alerts[i].heard /\ alerts'[i].sent = alerts[i].sent
          /\ alerts'[i].rule = alerts[i].rule /\ alerts'[i].target = alerts[i].target
      BY <1>2
    <2>2. alerts[i].heard \in Begun /\ \A c \in Channels : alerts[i].sent[c] \in Begun
      BY <1>0 DEF AlertHolds
    <2>3. pass'.pc # "notify"
      OBVIOUS
    <2>4. pass'.pc = "rules" => Pair(i)' \in pass'.visited \ pass'.pairs
      <3>1. Pair(i)' = Pair(i)
        BY <2>1 DEF Pair
      <3> QED
        BY <1>0, <3>1 DEF PassHolds
    <2>5. pass'.pc = "sweep" => i \notin pass'.sweep
      OBVIOUS
    <2> DEFINE t == pass'.told[n]
    <2>6. t.id = i /\ t.state = "resolved" /\ i \in DOMAIN alerts'
      BY <1>1, <1>4, <1>n
    <2> HIDE DEF t
    <2>7. /\ t.id \in DOMAIN alerts' /\ alerts'[t.id].state = "resolved"
          /\ alerts'[t.id].heard \in Begun /\ \A c \in Channels : alerts'[t.id].sent[c] \in Begun
          /\ (pass'.pc = "rules" =>
                <<alerts'[t.id].rule, alerts'[t.id].target>> \in pass'.visited \ pass'.pairs)
          /\ (pass'.pc = "sweep" => t.id \notin pass'.sweep)
      <3>1. Pair(i)' = <<alerts'[i].rule, alerts'[i].target>>
        BY DEF Pair
      <3> QED
        BY <2>1, <2>2, <2>4, <2>5, <2>6, <3>1
    <2> QED
      BY <2>3, <2>6, <2>7 DEF ToTell, Pair, t
  <1>7. \A k \in DOMAIN pass'.told : k \in DOMAIN pass.told \/ k = n
    BY <1>0, <1>4, <1>n
  <1>8. ASSUME NEW k \in DOMAIN pass'.told PROVE ToTell(pass.told[k])'
    BY <1>5, <1>6, <1>7
  <1>9. ASSUME NEW k \in DOMAIN pass'.told, NEW l \in DOMAIN pass'.told, pass'.told[k].id = pass'.told[l].id
        PROVE  k = l
    <2>1. pass'.told[n].id = i /\ \A m \in DOMAIN pass.told : pass'.told[m].id # i
      BY <1>4, <1>n
    <2>2. CASE k = n \/ l = n
      BY <1>7, <1>9, <2>1, <2>2
    <2>3. CASE k # n /\ l # n
      <3>1. k \in DOMAIN pass.told /\ l \in DOMAIN pass.told
        BY <1>7, <2>3
      <3>2. pass.told[k].id = pass.told[l].id
        BY <1>4, <1>9, <3>1
      <3> QED
        BY <1>0, <3>1, <3>2 DEF PassHolds
    <2> QED
      BY <2>2, <2>3
  <1>10. PassHolds'
    <2>1. pass'.sweep \subseteq DOMAIN alerts' /\ pass'.pc \notin {"idle", "publish"}
      BY <1>0, <1>1 DEF PassHolds
    <2>2. pass'.pc = "rules" => pass'.pairs \subseteq pass'.visited /\ \A p \in pass'.visited : p[1] \notin pass'.todo
      BY <1>0 DEF PassHolds
    <2>3. pass'.pc = "sweep" => \A j \in pass'.sweep : alerts'[j].state \in {"firing", "deleted"}
      <3> SUFFICES ASSUME pass'.pc = "sweep", NEW j \in pass'.sweep
                   PROVE  alerts'[j].state \in {"firing", "deleted"}
        OBVIOUS
      <3>1. j \in pass.sweep /\ j # i /\ j \in DOMAIN alerts
        BY <1>0 DEF PassHolds
      <3> QED
        BY <1>0, <1>2, <3>1 DEF PassHolds
    <2> QED
      BY <1>8, <1>9, <2>1, <2>2, <2>3 DEF PassHolds
  <1>11. OneOpen'
    <2> SUFFICES ASSUME NEW j \in DOMAIN alerts, NEW l \in DOMAIN alerts,
                        alerts'[j].state = "firing", alerts'[l].state = "firing", Pair(j)' = Pair(l)'
                 PROVE  j = l
      BY <1>1 DEF OneOpen
    <2>1. alerts[j].state = "firing" /\ alerts[l].state = "firing" /\ Pair(j) = Pair(l)
      BY <1>2 DEF Pair
    <2> QED
      BY <2>1 DEF AlertsInv, OneOpen
  <1>12. ASSUME NEW j \in DOMAIN alerts, NEW state, Passed(j, state) PROVE Passed(j, state)'
    <2>1. CASE state \in ToSet(alerts[j].heard) \cup alerts[j].lost
      BY <1>2, <2>1 DEF Passed
    <2>2. CASE \E t \in ToSet(pass.told) : t.id = j /\ t.state = state
      <3>1. PICK k \in DOMAIN pass.told : pass.told[k].id = j /\ pass.told[k].state = state
        BY <2>2 DEF ToSet
      <3>2. k \in DOMAIN pass'.told /\ pass'.told[k] = pass.told[k]
        BY <1>0, <1>4
      <3>3. pass'.told[k] \in ToSet(pass'.told)
        BY <3>2 DEF ToSet
      <3> QED
        BY <3>1, <3>2, <3>3 DEF Passed
    <2> QED
      BY <1>12, <2>1, <2>2 DEF Passed
  <1>13. Passed(i, "resolved")'
    <2>1. n \in DOMAIN pass'.told /\ pass'.told[n].id = i /\ pass'.told[n].state = "resolved"
      BY <1>0, <1>4, <1>n
    <2>2. pass'.told[n] \in ToSet(pass'.told)
      BY <2>1 DEF ToSet
    <2> QED
      BY <2>1, <2>2 DEF Passed
  <1>14. ASSUME NEW j \in DOMAIN alerts PROVE AlertHolds(j)'
    <2>1. AlertHolds(j)
      BY DEF AlertsInv
    <2>2. Passed(j, "firing")' /\ (alerts[j].state = "resolved" => Passed(j, "resolved")')
      BY <1>12, <2>1 DEF AlertHolds
    <2> QED
      BY <1>2, <1>13, <2>1, <2>2 DEF AlertHolds
  <1> QED
    BY <1>1, <1>3, <1>10, <1>11, <1>14 DEF AlertsInv

(* An alert is opened for a pair that has none, and that is still to be told. *)
LEMMA FiredStep ==
  ASSUME AlertsInv, UNCHANGED <<rules, targets, world, channels, muted, moves>>,
         NEW p \in Pairs, pass.pc = "rules", p \in pass.pairs, Firing(p[1], p[2]) = {},
         alerts' = Append(alerts, [rule |-> p[1], target |-> p[2], state |-> "firing", acked |-> FALSE,
                                   heard |-> <<>>, sent |-> [c \in Channels |-> <<>>], lost |-> {}]),
         NEW r \in Rule, pass' \in Pass, pass'.told = Told(Len(alerts) + 1, "firing", r),
         pass'.pc = "rules", pass'.visited = pass.visited, pass'.todo = pass.todo,
         pass'.pairs = pass.pairs \ {p}, pass'.sweep = pass.sweep
  PROVE  AlertsInv'
  <1> DEFINE new == [rule |-> p[1], target |-> p[2], state |-> "firing", acked |-> FALSE,
                     heard |-> <<>>, sent |-> [c \in Channels |-> <<>>], lost |-> {}]
  <1>0. /\ alerts \in Seq(Alert) /\ Len(alerts) \in Nat /\ DOMAIN alerts = 1..Len(alerts)
        /\ \A j \in DOMAIN alerts : alerts[j] \in Alert
        /\ Len(pass.told) \in Nat /\ DOMAIN pass.told = 1..Len(pass.told)
        /\ PassHolds
    BY AlertsTypes DEF AlertsInv
  <1>1. new \in Alert
    <2>1. p[1] \in Rules /\ p[2] \in Targets
      BY DEF Pairs
    <2>2. [c \in Channels |-> <<>>] \in [Channels -> Seq({"firing", "resolved"})] /\ <<>> \in Seq({"firing", "resolved"})
      OBVIOUS
    <2> QED
      BY <2>1, <2>2 DEF Alert
  <1>2. /\ new.state = "firing" /\ new.heard = <<>> /\ \A c \in Channels : new.sent[c] = <<>>
        /\ <<new.rule, new.target>> = p
    BY DEF Pairs
  <1> HIDE DEF new
  <1>i. PICK i \in Nat : i = Len(alerts) + 1
    BY <1>0
  <1>n. PICK n \in Nat : n = Len(pass.told) + 1
    BY <1>0
  <1>3. /\ alerts' \in Seq(Alert) /\ DOMAIN alerts' = 1..i /\ alerts'[i] = new
        /\ \A j \in DOMAIN alerts : alerts'[j] = alerts[j]
    <2>1. alerts' = Append(alerts, new)
      BY DEF new
    <2>2. /\ Append(alerts, new) \in Seq(Alert) /\ Len(Append(alerts, new)) = i
          /\ Append(alerts, new)[i] = new /\ \A j \in 1..Len(alerts) : Append(alerts, new)[j] = alerts[j]
      BY <1>0, <1>1, <1>i, AppendProperties
    <2> QED
      BY <1>0, <2>1, <2>2, LenProperties
  <1>4. /\ DOMAIN pass'.told = 1..n /\ pass'.told[n].id = i /\ pass'.told[n].state = "firing"
        /\ \A k \in DOMAIN pass.told : pass'.told[k] = pass.told[k]
    BY <1>0, <1>i, <1>n, ToldIs
  <1>5. ASSUME NEW k \in DOMAIN pass.told PROVE ToTell(pass.told[k])'
    <2>1. ToTell(pass.told[k]) /\ pass.told[k].id \in DOMAIN alerts
      BY <1>0 DEF PassHolds, ToTell
    <2>2. pass'.told[k] = pass.told[k] /\ alerts'[pass.told[k].id] = alerts[pass.told[k].id]
          /\ pass.told[k].id \in DOMAIN alerts'
      BY <1>0, <1>3, <1>4, <1>i, <2>1
    <2> QED
      BY <2>1, <2>2 DEF ToTell, Pair
  <1>6. ToTell(pass.told[n])'
    <2> DEFINE t == pass'.told[n]
    <2>1. t.id = i /\ t.state = "firing" /\ i \in DOMAIN alerts'
      BY <1>0, <1>3, <1>4, <1>i
    <2> HIDE DEF t
    <2>2. <<alerts'[t.id].rule, alerts'[t.id].target>> = p /\ alerts'[t.id] = new
      BY <1>2, <1>3, <2>1
    <2>3. p \in pass'.visited \ pass'.pairs
      BY <1>0 DEF PassHolds
    <2>4. /\ t.id \in DOMAIN alerts' /\ alerts'[t.id].state = "firing" /\ alerts'[t.id].heard = <<>>
          /\ \A c \in Channels : alerts'[t.id].sent[c] = <<>>
      BY <1>2, <2>1, <2>2
    <2> QED
      BY <2>1, <2>2, <2>3, <2>4 DEF ToTell, Pair, t
  <1>7. \A k \in DOMAIN pass'.told : k \in DOMAIN pass.told \/ k = n
    BY <1>0, <1>4, <1>n
  <1>8. ASSUME NEW k \in DOMAIN pass'.told PROVE ToTell(pass.told[k])'
    BY <1>5, <1>6, <1>7
  <1>9. ASSUME NEW k \in DOMAIN pass'.told, NEW l \in DOMAIN pass'.told, pass'.told[k].id = pass'.told[l].id
        PROVE  k = l
    <2>1. pass'.told[n].id = i /\ \A m \in DOMAIN pass.told : pass'.told[m].id # i
      <3> SUFFICES ASSUME NEW m \in DOMAIN pass.told PROVE pass'.told[m].id # i
        BY <1>4
      <3>1. pass.told[m].id \in DOMAIN alerts
        BY <1>0 DEF PassHolds, ToTell
      <3>2. i \notin DOMAIN alerts
        BY <1>0, <1>i
      <3> QED
        BY <1>4, <3>1, <3>2
    <2>2. CASE k = n \/ l = n
      BY <1>7, <1>9, <2>1, <2>2
    <2>3. CASE k # n /\ l # n
      <3>1. k \in DOMAIN pass.told /\ l \in DOMAIN pass.told
        BY <1>7, <2>3
      <3>2. pass.told[k].id = pass.told[l].id
        BY <1>4, <1>9, <3>1
      <3> QED
        BY <1>0, <3>1, <3>2 DEF PassHolds
    <2> QED
      BY <2>2, <2>3
  <1>10. PassHolds'
    <2>1. pass'.sweep \subseteq DOMAIN alerts'
      BY <1>0, <1>3, <1>i DEF PassHolds
    <2>2. pass'.pairs \subseteq pass'.visited /\ \A q \in pass'.visited : q[1] \notin pass'.todo
      BY <1>0 DEF PassHolds
    <2> QED
      BY <1>8, <1>9, <2>1, <2>2 DEF PassHolds
  <1>11. \A j \in DOMAIN alerts' : j \in DOMAIN alerts \/ j = i
    BY <1>0, <1>3, <1>i
  <1>12. OneOpen'
    <2> SUFFICES ASSUME NEW j \in DOMAIN alerts', NEW l \in DOMAIN alerts',
                        alerts'[j].state = "firing", alerts'[l].state = "firing", Pair(j)' = Pair(l)'
                 PROVE  j = l
      BY DEF OneOpen
    <2>1. ASSUME NEW m \in DOMAIN alerts, alerts[m].state = "firing" PROVE Pair(m) # p
      <3>1. m \notin Firing(p[1], p[2])
        OBVIOUS
      <3> QED
        BY <2>1, <3>1 DEF Firing, Pair
    <2>2. Pair(i)' = p
      BY <1>2, <1>3 DEF Pair
    <2>3. \A m \in DOMAIN alerts : Pair(m)' = Pair(m)
      BY <1>3 DEF Pair
    <2>4. CASE j = i /\ l \in DOMAIN alerts
      BY <1>3, <2>1, <2>2, <2>3, <2>4
    <2>5. CASE l = i /\ j \in DOMAIN alerts
      BY <1>3, <2>1, <2>2, <2>3, <2>5
    <2>6. CASE l \in DOMAIN alerts /\ j \in DOMAIN alerts
      BY <1>3, <2>3, <2>6 DEF AlertsInv, OneOpen
    <2> QED
      BY <1>11, <2>4, <2>5, <2>6
  <1>13. ASSUME NEW j \in DOMAIN alerts, NEW state, Passed(j, state) PROVE Passed(j, state)'
    <2>1. CASE state \in ToSet(alerts[j].heard) \cup alerts[j].lost
      BY <1>3, <2>1 DEF Passed
    <2>2. CASE \E t \in ToSet(pass.told) : t.id = j /\ t.state = state
      <3>1. PICK k \in DOMAIN pass.told : pass.told[k].id = j /\ pass.told[k].state = state
        BY <2>2 DEF ToSet
      <3>2. k \in DOMAIN pass'.told /\ pass'.told[k] = pass.told[k]
        BY <1>0, <1>4, <1>n
      <3>3. pass'.told[k] \in ToSet(pass'.told)
        BY <3>2 DEF ToSet
      <3> QED
        BY <3>1, <3>2, <3>3 DEF Passed
    <2> QED
      BY <1>13, <2>1, <2>2 DEF Passed
  <1>14. Passed(i, "firing")'
    <2>1. n \in DOMAIN pass'.told /\ pass'.told[n].id = i /\ pass'.told[n].state = "firing"
      BY <1>0, <1>4, <1>n
    <2>2. pass'.told[n] \in ToSet(pass'.told)
      BY <2>1 DEF ToSet
    <2> QED
      BY <2>1, <2>2 DEF Passed
  <1>15. ASSUME NEW j \in DOMAIN alerts' PROVE AlertHolds(j)'
    <2>1. CASE j = i
      BY <1>2, <1>3, <1>14, <2>1 DEF AlertHolds, InOrder, Begun
    <2>2. CASE j \in DOMAIN alerts
      <3>1. AlertHolds(j) /\ alerts'[j] = alerts[j]
        BY <1>3, <2>2 DEF AlertsInv
      <3>2. Passed(j, "firing")' /\ (alerts[j].state = "resolved" => Passed(j, "resolved")')
        BY <1>13, <2>2, <3>1 DEF AlertHolds
      <3> QED
        BY <3>1, <3>2 DEF AlertHolds
    <2> QED
      BY <1>11, <2>1, <2>2
  <1> QED
    BY <1>3, <1>10, <1>12, <1>15 DEF AlertsInv

(* looks at a pair of a rule and a target, *)
LEMMA EvaluateInv == ASSUME AlertsInv, NEW p \in Pairs, Evaluate(p) PROVE AlertsInv'
  <1> DEFINE next == [pass EXCEPT !.pairs = pass.pairs \ {p}]
             r == pass.loaded[p[1]]
  <1>0. pass \in Pass /\ PassHolds /\ moves \in 0..MaxMoves /\ r \in Rule /\ pass.pc = "rules" /\ p \in pass.pairs
        /\ UNCHANGED <<rules, targets, world, channels, muted>> /\ Len(alerts) + 1 \in Nat
        /\ DOMAIN alerts \subseteq Nat /\ pass.told \in Seq(Transition)
    BY AlertsTypes DEF AlertsInv, Evaluate, Pass, Pairs
  <1>1. /\ next \in Pass /\ next.told = pass.told /\ next.pc = "rules" /\ next.pairs = pass.pairs \ {p}
        /\ next.visited = pass.visited /\ next.todo = pass.todo /\ next.sweep = pass.sweep
    BY <1>0 DEF Pass
  <1>2. ASSUME NEW told \in Seq(Transition), pass' = [next EXCEPT !.told = told]
        PROVE  /\ pass' \in Pass /\ pass'.told = told /\ pass'.pc = "rules" /\ pass'.pairs = pass.pairs \ {p}
               /\ pass'.visited = pass.visited /\ pass'.todo = pass.todo /\ pass'.sweep = pass.sweep
    <2> HIDE DEF next
    <2> QED
      BY <1>1, <1>2 DEF Pass
  <1> HIDE DEF next, r
  <1>3. CASE /\ world[p] = "held" /\ OpenAlert(p[1], p[2]) = {} /\ UNCHANGED moves
             /\ IF rules[p[1]].st = "none" THEN Raise
                ELSE /\ alerts' = Append(alerts, [rule |-> p[1], target |-> p[2], state |-> "firing", acked |-> FALSE,
                                   heard |-> <<>>, sent |-> [c \in Channels |-> <<>>], lost |-> {}])
                     /\ pass' = [next EXCEPT !.told = Told(Len(alerts) + 1, "firing", r)]
    <2>1. CASE Raise
      BY <1>0, <1>3, <2>1, BrokenInv DEF Raise
    <2>2. CASE ~Raise
      <3>1. Told(Len(alerts) + 1, "firing", r) \in Seq(Transition)
        BY <1>0, ToldIs
      <3>2. Firing(p[1], p[2]) = {}
        BY <1>3 DEF OpenAlert
      <3>3. /\ pass' \in Pass /\ pass'.told = Told(Len(alerts) + 1, "firing", r) /\ pass'.pc = "rules"
            /\ pass'.pairs = pass.pairs \ {p}
            /\ pass'.visited = pass.visited /\ pass'.todo = pass.todo /\ pass'.sweep = pass.sweep
        BY <1>2, <1>3, <2>2, <3>1
      <3> QED
        BY <1>0, <1>3, <2>2, <3>2, <3>3, FiredStep
    <2> QED
      BY <2>1, <2>2
  <1>4. CASE /\ world[p] # "held" /\ OpenAlert(p[1], p[2]) # {} /\ UNCHANGED moves
             /\ LET i == CHOOSE i \in OpenAlert(p[1], p[2]) : \A j \in OpenAlert(p[1], p[2]) : j <= i IN
                  /\ alerts' = [alerts EXCEPT ![i].state = "resolved"]
                  /\ pass' = [next EXCEPT !.told = Told(i, "resolved", r)]
    <2> DEFINE i == CHOOSE i \in OpenAlert(p[1], p[2]) : \A j \in OpenAlert(p[1], p[2]) : j <= i
    <2>1. PICK o \in DOMAIN alerts : o \in OpenAlert(p[1], p[2])
      BY <1>4 DEF OpenAlert, Firing
    <2>2. \A j \in OpenAlert(p[1], p[2]) : j = o
      BY <2>1 DEF OpenAlert, Firing, AlertsInv, OneOpen, Pair
    <2>3. o <= o
      BY <1>0, <2>1
    <2>4. i = o
      BY <2>1, <2>2, <2>3
    <2> HIDE DEF i
    <2>5. alerts[o].state = "firing" /\ Pair(o) = p
      BY <2>1 DEF OpenAlert, Firing, Pair, Pairs
    <2>6. \A k \in DOMAIN pass.told : pass.told[k].id # o
      BY <1>0, <2>5 DEF PassHolds, ToTell
    <2>7. Told(o, "resolved", r) \in Seq(Transition)
      BY <1>0, ToldIs
    <2>8. alerts' = [alerts EXCEPT ![o].state = "resolved"] /\ pass' = [next EXCEPT !.told = Told(o, "resolved", r)]
      BY <1>4, <2>4 DEF i
    <2>9. /\ pass' \in Pass /\ pass'.told = Told(o, "resolved", r) /\ pass'.pc = "rules"
          /\ pass'.pairs = pass.pairs \ {p}
          /\ pass'.visited = pass.visited /\ pass'.todo = pass.todo /\ pass'.sweep = pass.sweep
      BY <1>2, <2>7, <2>8
    <2>10. o \in DOMAIN alerts /\ pass.pc = "rules" /\ Pair(o) \in pass.pairs
           /\ pass'.pairs = pass.pairs \ {Pair(o)}
      BY <1>0, <2>1, <2>5, <2>9
    <2>11. UNCHANGED <<rules, targets, world, channels, muted, moves>>
      BY <1>0, <1>4
    <2>12. alerts' = [alerts EXCEPT ![o].state = "resolved"]
      BY <2>8
    <2> QED
      BY <1>0, <2>5, <2>6, <2>9, <2>10, <2>11, <2>12, ResolvedStep
  <1>5. CASE UNCHANGED alerts /\ pass' = next /\ moves' \in 0..MaxMoves
    <2>1. ASSUME NEW k \in DOMAIN pass.told PROVE ToTell(pass.told[k])'
      <3>1. ToTell(pass.told[k])
        BY <1>0 DEF PassHolds
      <3> QED
        BY <1>0, <1>1, <1>5, <3>1 DEF ToTell, Pair
    <2>2. PassHolds'
      BY <1>0, <1>1, <1>5, <2>1 DEF PassHolds
    <2> QED
      BY <1>0, <1>1, <1>5, <2>2, PassStep
  <1>6. Move => moves' \in 0..MaxMoves
    BY AlertsTypes
  <1> QED
    BY <1>0, <1>3, <1>4, <1>5, <1>6 DEF Evaluate, next, r

(* resolves it, *)
LEMMA SweepOneInv == ASSUME AlertsInv, NEW i \in DOMAIN alerts, SweepOne(i) PROVE AlertsInv'
  <1> DEFINE next == [pass EXCEPT !.sweep = pass.sweep \ {i}]
             r == IF pass.loaded[alerts[i].rule].st = "on" THEN pass.loaded[alerts[i].rule]
                  ELSE rules[alerts[i].rule]
  <1>0. pass \in Pass /\ PassHolds /\ moves \in 0..MaxMoves /\ pass.pc = "sweep" /\ i \in pass.sweep
        /\ UNCHANGED <<rules, targets, world, channels, muted, moves>> /\ i \in Nat
        /\ alerts[i].state \in {"firing", "deleted"} /\ alerts[i] \in Alert
    BY AlertsTypes DEF AlertsInv, SweepOne, PassHolds
  <1>1. r \in Rule
    BY <1>0 DEF Alert, Pass, AlertsInv
  <1>2. /\ next \in Pass /\ next.told = pass.told /\ next.pc = "sweep" /\ next.pairs = pass.pairs
        /\ next.visited = pass.visited /\ next.todo = pass.todo /\ next.sweep = pass.sweep \ {i}
    BY <1>0 DEF Pass
  <1>3. CASE alerts[i].state # "deleted"
    <2>1. alerts' = [alerts EXCEPT ![i].state = "resolved"] /\ pass' = [next EXCEPT !.told = Told(i, "resolved", r)]
      BY <1>3 DEF SweepOne
    <2> HIDE DEF next, r
    <2>2. Told(i, "resolved", r) \in Seq(Transition)
      BY <1>0, <1>1, ToldIs
    <2>3. /\ pass' \in Pass /\ pass'.told = Told(i, "resolved", r) /\ pass'.pc = "sweep"
          /\ pass'.pairs = pass.pairs
          /\ pass'.visited = pass.visited /\ pass'.todo = pass.todo /\ pass'.sweep = pass.sweep \ {i}
      BY <1>2, <2>1, <2>2 DEF Pass
    <2>4. \A k \in DOMAIN pass.told : pass.told[k].id # i
      BY <1>0 DEF PassHolds, ToTell
    <2> QED
      BY <1>0, <1>1, <1>3, <2>1, <2>3, <2>4, ResolvedStep
  <1>4. CASE Raise
    BY <1>0, <1>4, BrokenInv DEF Raise
  <1>5. CASE pass' = next /\ UNCHANGED alerts
    <2> HIDE DEF next
    <2>1. ASSUME NEW k \in DOMAIN pass.told PROVE ToTell(pass.told[k])'
      <3>1. ToTell(pass.told[k])
        BY <1>0 DEF PassHolds
      <3> QED
        BY <1>0, <1>2, <1>5, <3>1 DEF ToTell, Pair
    <2>2. PassHolds'
      BY <1>0, <1>2, <1>5, <2>1 DEF PassHolds
    <2> QED
      BY <1>0, <1>2, <1>5, <2>2, PassStep
  <1> QED
    BY <1>3, <1>4, <1>5 DEF SweepOne

(* What one pass tells of one alert is one event at most. *)
LEMMA EventsAre ==
  ASSUME AlertsInv, NEW i \in DOMAIN alerts
  PROVE  /\ \A k \in DOMAIN pass.told : pass.told[k].id = i => Events(i) = <<pass.told[k].state>>
         /\ (\A k \in DOMAIN pass.told : pass.told[k].id # i) => Events(i) = <<>>
  <1> DEFINE ks == {k \in DOMAIN pass.told : pass.told[k].id = i}
             Nth(n) == CHOOSE k \in ks : Cardinality({l \in ks : l <= k}) = n
  <1>0. Events(i) = [n \in 1..Cardinality(ks) |-> pass.told[Nth(n)].state]
    BY DEF Events
  <1>1. ASSUME NEW k \in DOMAIN pass.told, pass.told[k].id = i
        PROVE  Events(i) = <<pass.told[k].state>>
    <2>1. ks = {k}
      BY <1>1 DEF AlertsInv, PassHolds
    <2>2. k \in Nat
      BY AlertsTypes
    <2>3. {l \in ks : l <= k} = {k}
      BY <2>1, <2>2
    <2>4. Cardinality({k}) = 1
      BY FS_Singleton
    <2>5. Nth(1) = k
      BY <2>1, <2>3, <2>4
    <2>6. Cardinality(ks) = 1
      BY <2>1, <2>4
    <2> HIDE DEF ks, Nth
    <2>7. Events(i) = [n \in 1..1 |-> pass.told[Nth(n)].state]
      BY <1>0, <2>6
    <2>8. [n \in 1..1 |-> pass.told[Nth(n)].state] = [n \in 1..1 |-> pass.told[k].state]
      BY <2>5
    <2> QED
      BY <2>7, <2>8
  <1>2. ASSUME \A k \in DOMAIN pass.told : pass.told[k].id # i
        PROVE  Events(i) = <<>>
    <2>1. ks = {}
      BY <1>2
    <2>2. Cardinality(ks) = 0
      BY <2>1, FS_EmptySet
    <2> HIDE DEF ks, Nth
    <2>3. Events(i) = [n \in 1..0 |-> pass.told[Nth(n)].state]
      BY <1>0, <2>2
    <2> QED
      BY <2>3
  <1> QED
    BY <1>1, <1>2

(* How an event joins those before it. *)
LEMMA OneThenAnother ==
  ASSUME NEW S, NEW x \in S, NEW y \in S
  PROVE  /\ <<>> \o <<x>> = <<x>> /\ <<x>> \o <<y>> = <<x, y>>
         /\ Append(<<>>, x) = <<x>> /\ Append(<<x>>, y) = <<x, y>>
  <1>1. <<>> \in Seq(S) /\ <<x>> \in Seq(S) /\ <<y>> \in Seq(S) /\ <<x, y>> \in Seq(S)
    OBVIOUS
  <1>2. <<x>> \o <<y>> \in Seq(S) /\ Len(<<x>> \o <<y>>) = 2
        /\ (<<x>> \o <<y>>)[1] = x /\ (<<x>> \o <<y>>)[2] = y
    <2>1. Len(<<x>>) = 1 /\ Len(<<y>>) = 1
      OBVIOUS
    <2>2. /\ <<x>> \o <<y>> \in Seq(S) /\ Len(<<x>> \o <<y>>) = 1 + 1
          /\ \A i \in 1..(1 + 1) : (<<x>> \o <<y>>)[i] = IF i <= 1 THEN <<x>>[i] ELSE <<y>>[i - 1]
      BY <1>1, <2>1, ConcatProperties
    <2> QED
      BY <2>2
  <1>3. <<x>> \o <<y>> = <<x, y>>
    <2> DEFINE s == <<x>> \o <<y>>
               t == <<x, y>>
    <2>1. s \in Seq(S) /\ t \in Seq(S) /\ Len(s) = 2 /\ Len(t) = 2 /\ s[1] = t[1] /\ s[2] = t[2]
      BY <1>1, <1>2
    <2> HIDE DEF s, t
    <2>2. s = t
      BY <2>1, SeqEqual
    <2> QED
      BY <2>2 DEF s, t
  <1>4. <<>> \o <<x>> = <<x>>
    BY <1>1, ConcatEmptySeq
  <1>5. Append(<<>>, x) = <<x>> /\ Append(<<x>>, y) = <<x, y>>
    BY <1>1, <1>3, <1>4, AppendIsConcat
  <1> QED
    BY <1>3, <1>4, <1>5

(* Who heard of these heard of that. *)
LEMMA ToldEvents ==
  /\ "firing" \in ToSet(<<"firing">>) /\ "resolved" \in ToSet(<<"resolved">>)
  /\ "firing" \in ToSet(<<"firing", "resolved">>) /\ "resolved" \in ToSet(<<"firing", "resolved">>)
  <1>1. "firing" \in ToSet(<<"firing">>) /\ "resolved" \in ToSet(<<"resolved">>)
    BY DEF ToSet
  <1>2. <<"firing", "resolved">>[1] = "firing" /\ <<"firing", "resolved">>[2] = "resolved"
        /\ 1 \in DOMAIN <<"firing", "resolved">> /\ 2 \in DOMAIN <<"firing", "resolved">>
    OBVIOUS
  <1>3. "firing" \in ToSet(<<"firing", "resolved">>) /\ "resolved" \in ToSet(<<"firing", "resolved">>)
    BY <1>2 DEF ToSet
  <1> QED
    BY <1>1, <1>3

(* What is published is heard, and of each alert only once. *)
LEMMA PublishInv == ASSUME AlertsInv, Publish PROVE AlertsInv'
  <1>0. /\ alerts \in Seq(Alert) /\ Len(alerts) \in Nat /\ DOMAIN alerts = 1..Len(alerts)
        /\ \A i \in DOMAIN alerts : alerts[i] \in Alert
        /\ \A k \in DOMAIN pass.told : pass.told[k] \in Transition
        /\ pass \in Pass /\ PassHolds /\ moves \in 0..MaxMoves
    BY AlertsTypes DEF AlertsInv
  <1>1. /\ pass' \in Pass /\ pass'.told = pass.told /\ pass'.pc = "notify" /\ pass'.sweep = pass.sweep
        /\ pass.pc = "sweep" /\ pass.sweep = {}
    BY <1>0 DEF Publish, Pass
  <1>2. DOMAIN alerts' = DOMAIN alerts
    BY DEF Publish
  <1>3. ASSUME NEW k \in DOMAIN pass.told
        PROVE  /\ pass.told[k].id \in DOMAIN alerts /\ pass.told[k].state \in {"firing", "resolved"}
               /\ pass.told[k].state = "firing" =>
                    /\ alerts[pass.told[k].id].state # "resolved" /\ alerts[pass.told[k].id].heard = <<>>
                    /\ \A c \in Channels : alerts[pass.told[k].id].sent[c] = <<>>
               /\ pass.told[k].state = "resolved" =>
                    /\ alerts[pass.told[k].id].state \in {"resolved", "deleted"}
                    /\ alerts[pass.told[k].id].heard \in Begun
                    /\ \A c \in Channels : alerts[pass.told[k].id].sent[c] \in Begun
    <2>1. ToTell(pass.told[k]) /\ pass.told[k] \in Transition
      BY <1>0 DEF PassHolds
    <2> QED
      BY <1>1, <2>1 DEF ToTell, Transition
  <1>4. ASSUME NEW i \in DOMAIN alerts
        PROVE  /\ alerts'[i] = [alerts[i] EXCEPT !.heard = alerts[i].heard \o Events(i)]
               /\ alerts[i].heard \in Seq({"firing", "resolved"})
    BY <1>0 DEF Publish, Alert
  <1>5. ASSUME NEW i \in DOMAIN alerts, NEW k \in DOMAIN pass.told, pass.told[k].id = i
        PROVE  /\ pass.told[k].state = "firing" => alerts[i].heard \o Events(i) = <<"firing">>
               /\ pass.told[k].state = "resolved" =>
                    alerts[i].heard \o Events(i) = IF alerts[i].heard = <<>> THEN <<"resolved">>
                                                   ELSE <<"firing", "resolved">>
    <2>1. Events(i) = <<pass.told[k].state>>
      BY <1>5, EventsAre
    <2>2. <<>> \o <<"firing">> = <<"firing">> /\ <<>> \o <<"resolved">> = <<"resolved">>
          /\ <<"firing">> \o <<"resolved">> = <<"firing", "resolved">>
      <3> DEFINE S == {"firing", "resolved"}
      <3>1. "firing" \in S /\ "resolved" \in S
        OBVIOUS
      <3> HIDE DEF S
      <3> QED
        BY <3>1, OneThenAnother
    <2>3. <<>> # <<"firing">>
      OBVIOUS
    <2> QED
      BY <1>3, <1>5, <2>1, <2>2, <2>3 DEF Begun
  <1>6. ASSUME NEW i \in DOMAIN alerts, \A k \in DOMAIN pass.told : pass.told[k].id # i
        PROVE  alerts[i].heard \o Events(i) = alerts[i].heard
    <2>1. Events(i) = <<>>
      BY <1>6, EventsAre
    <2> QED
      BY <1>4, <2>1
  <1>7. ASSUME NEW i \in DOMAIN alerts PROVE alerts[i].heard \o Events(i) \in Seq({"firing", "resolved"})
    <2>1. CASE \A k \in DOMAIN pass.told : pass.told[k].id # i
      BY <1>4, <1>6, <2>1
    <2>2. CASE \E k \in DOMAIN pass.told : pass.told[k].id = i
      <3>1. PICK k \in DOMAIN pass.told : pass.told[k].id = i
        BY <2>2
      <3>2. alerts[i].heard \o Events(i) \in {<<"firing">>, <<"resolved">>, <<"firing", "resolved">>}
        BY <1>3, <1>5, <3>1
      <3>3. {<<"firing">>, <<"resolved">>, <<"firing", "resolved">>} \subseteq Seq({"firing", "resolved"})
        OBVIOUS
      <3> QED
        BY <3>2, <3>3
    <2> QED
      BY <2>1, <2>2
  <1>8. ASSUME NEW i \in DOMAIN alerts
        PROVE  /\ alerts'[i] \in Alert
               /\ alerts'[i].rule = alerts[i].rule /\ alerts'[i].target = alerts[i].target
               /\ alerts'[i].heard = alerts[i].heard \o Events(i) /\ alerts'[i].sent = alerts[i].sent
               /\ alerts'[i].lost = alerts[i].lost /\ alerts'[i].state = alerts[i].state
    <2> DEFINE heard == alerts[i].heard \o Events(i)
    <2>1. alerts'[i] = [alerts[i] EXCEPT !.heard = heard] /\ heard \in Seq({"firing", "resolved"})
          /\ alerts[i] \in Alert
      BY <1>0, <1>4, <1>7
    <2> HIDE DEF heard
    <2>2. /\ alerts'[i] \in Alert
          /\ alerts'[i].rule = alerts[i].rule /\ alerts'[i].target = alerts[i].target
          /\ alerts'[i].heard = heard /\ alerts'[i].sent = alerts[i].sent
          /\ alerts'[i].lost = alerts[i].lost /\ alerts'[i].state = alerts[i].state
      BY <2>1 DEF Alert
    <2> QED
      BY <2>2 DEF heard
  <1>9. alerts' \in Seq(Alert)
    <2>1. alerts' = [i \in 1..Len(alerts) |-> alerts'[i]]
      BY <1>0 DEF Publish
    <2> QED
      BY <1>0, <1>8, <2>1, RowsOf
  <1>10. ASSUME NEW k \in DOMAIN pass.told PROVE ToTell(pass.told[k])'
    <2> DEFINE i == pass.told[k].id
    <2>1. /\ i \in DOMAIN alerts /\ alerts'[i].heard = alerts[i].heard \o Events(i)
          /\ alerts'[i].sent = alerts[i].sent /\ alerts'[i].state = alerts[i].state
      BY <1>3, <1>8
    <2>2. /\ pass.told[k].state = "firing" => alerts[i].heard \o Events(i) = <<"firing">>
          /\ pass.told[k].state = "resolved" =>
               alerts[i].heard \o Events(i) \in {<<"resolved">>, <<"firing", "resolved">>}
      BY <1>5, <2>1
    <2>3. ToTell(pass.told[k]) /\ pass'.told[k] = pass.told[k]
      BY <1>0, <1>1 DEF PassHolds
    <2> DEFINE u == pass.told[k]
    <2>4. /\ u.id \in DOMAIN alerts'
          /\ u.state = "firing" => /\ alerts'[u.id].state \in {"firing", "deleted"}
                                   /\ alerts'[u.id].heard = <<"firing">>
                                   /\ \A c \in Channels : alerts'[u.id].sent[c] = <<>>
      BY <1>2, <2>1, <2>2, <2>3 DEF ToTell
    <2>5. u.state = "resolved" =>
            /\ alerts'[u.id].state \in {"resolved", "deleted"}
            /\ alerts'[u.id].heard \in {<<"resolved">>, <<"firing", "resolved">>}
            /\ \A c \in Channels : alerts'[u.id].sent[c] \in Begun
      BY <1>1, <2>1, <2>2, <2>3 DEF ToTell
    <2> QED
      BY <1>1, <2>3, <2>4, <2>5 DEF ToTell
  <1>11. PassHolds'
    BY <1>0, <1>1, <1>2, <1>10 DEF PassHolds
  <1>12. OneOpen'
    BY <1>2, <1>8 DEF AlertsInv, OneOpen, Pair
  <1>13. ASSUME NEW i \in DOMAIN alerts, NEW state, Passed(i, state) PROVE Passed(i, state)'
    <2>1. CASE state \in alerts[i].lost \/ \E t \in ToSet(pass.told) : t.id = i /\ t.state = state
      BY <1>1, <1>8, <2>1 DEF Passed
    <2>2. CASE state \in ToSet(alerts[i].heard)
      <3>1. CASE \A k \in DOMAIN pass.told : pass.told[k].id # i
        BY <1>6, <1>8, <2>2, <3>1 DEF Passed
      <3>2. CASE \E k \in DOMAIN pass.told : pass.told[k].id = i
        <4>1. PICK k \in DOMAIN pass.told : pass.told[k].id = i
          BY <3>2
        <4>2. alerts[i].heard = <<"firing">> /\ pass.told[k].state = "resolved"
          <5>1. alerts[i].heard # <<>>
            BY <2>2 DEF ToSet
          <5> QED
            BY <1>3, <4>1, <5>1 DEF Begun
        <4>3. state = "firing"
          BY <2>2, <4>2 DEF ToSet
        <4>4. alerts'[i].heard = <<"firing", "resolved">>
          <5>1. <<"firing">> # <<>>
            OBVIOUS
          <5> QED
            BY <1>5, <1>8, <4>1, <4>2, <5>1
        <4>5. "firing" \in ToSet(<<"firing", "resolved">>)
          BY ToldEvents
        <4> QED
          BY <4>3, <4>4, <4>5 DEF Passed
      <3> QED
        BY <3>1, <3>2
    <2> QED
      BY <1>13, <2>1, <2>2 DEF Passed
  <1>14. ASSUME NEW i \in DOMAIN alerts PROVE AlertHolds(i)'
    <2>1. AlertHolds(i)
      BY DEF AlertsInv
    <2>2. Passed(i, "firing")' /\ (alerts[i].state = "resolved" => Passed(i, "resolved")')
      BY <1>13, <2>1 DEF AlertHolds
    <2>3. /\ InOrder(alerts[i].heard \o Events(i))
          /\ alerts[i].state = "firing" => alerts[i].heard \o Events(i) \in Begun
      <3>1. CASE \A k \in DOMAIN pass.told : pass.told[k].id # i
        BY <1>6, <2>1, <3>1 DEF AlertHolds
      <3>2. CASE \E k \in DOMAIN pass.told : pass.told[k].id = i
        <4>1. PICK k \in DOMAIN pass.told : pass.told[k].id = i
          BY <3>2
        <4> QED
          BY <1>3, <1>5, <4>1 DEF InOrder, Begun
      <3> QED
        BY <3>1, <3>2
    <2> QED
      BY <1>8, <2>1, <2>2, <2>3 DEF AlertHolds
  <1>15. /\ rules' \in [Rules -> Rule] /\ targets' \subseteq Targets
         /\ world' \in [Pairs -> {"calm", "recent", "held"}]
         /\ channels' \in [Channels -> {"none", "on", "off"}] /\ muted' \in BOOLEAN /\ moves' \in 0..MaxMoves
    BY DEF AlertsInv, Publish
  <1> QED
    BY <1>1, <1>2, <1>9, <1>11, <1>12, <1>14, <1>15 DEF AlertsInv

(* A channel is sent the first of what is to be told, or is not. *)
LEMMA NotifyInv == ASSUME AlertsInv, Notify PROVE AlertsInv'
  <1> DEFINE t == Head(pass.told)
  <1>0. /\ alerts \in Seq(Alert) /\ Len(alerts) \in Nat /\ DOMAIN alerts = 1..Len(alerts)
        /\ \A j \in DOMAIN alerts : alerts[j] \in Alert
        /\ Len(pass.told) \in Nat /\ DOMAIN pass.told = 1..Len(pass.told)
        /\ \A k \in DOMAIN pass.told : pass.told[k] \in Transition
        /\ pass \in Pass /\ PassHolds /\ moves \in 0..MaxMoves
        /\ pass.pc = "notify" /\ pass.told # <<>> /\ pass.told \in Seq(Transition)
    BY AlertsTypes DEF AlertsInv, Notify, Pass
  <1>1. /\ 1 \in DOMAIN pass.told /\ t = pass.told[1]
        /\ Tail(pass.told) \in Seq(Transition) /\ DOMAIN Tail(pass.told) = 1..(Len(pass.told) - 1)
        /\ \A k \in DOMAIN Tail(pass.told) : Tail(pass.told)[k] = pass.told[k + 1]
        /\ \A k \in DOMAIN Tail(pass.told) : k + 1 \in DOMAIN pass.told /\ k + 1 # 1
    <2>1. Len(pass.told) # 0
      BY <1>0, EmptySeq
    <2>2. /\ Tail(pass.told) \in Seq(Transition) /\ Len(Tail(pass.told)) = Len(pass.told) - 1
          /\ \A k \in 1..(Len(pass.told) - 1) : Tail(pass.told)[k] = pass.told[k + 1]
      BY <1>0, HeadTailProperties
    <2>3. DOMAIN Tail(pass.told) = 1..(Len(pass.told) - 1)
      BY <1>0, <2>2, LenProperties
    <2> QED
      BY <1>0, <2>1, <2>2, <2>3
  <1>2. t \in Transition /\ ToTell(t)
    BY <1>0, <1>1 DEF PassHolds
  <1>i. PICK i \in DOMAIN alerts : i = t.id
    BY <1>2 DEF ToTell
  <1>s. PICK state \in {"firing", "resolved"} : state = t.state
    BY <1>2 DEF Transition
  <1>3. /\ alerts[i] \in Alert /\ AlertHolds(i)
        /\ state = "firing" =>
             /\ alerts[i].state \in {"firing", "deleted"} /\ alerts[i].heard = <<"firing">>
             /\ \A c \in Channels : alerts[i].sent[c] = <<>>
        /\ state = "resolved" =>
             /\ alerts[i].state \in {"resolved", "deleted"}
             /\ alerts[i].heard \in {<<"resolved">>, <<"firing", "resolved">>}
             /\ \A c \in Channels : alerts[i].sent[c] \in Begun
    BY <1>0, <1>2, <1>i, <1>s DEF ToTell, AlertsInv
  <1>4. /\ pass' \in Pass /\ pass'.told = Tail(pass.told) /\ pass'.pc = "notify" /\ pass'.sweep = pass.sweep
    <2>1. pass' = [pass EXCEPT !.told = Tail(pass.told)]
      BY DEF Notify
    <2> QED
      BY <1>0, <1>1, <2>1 DEF Pass
  <1>5. PICK reached \in SUBSET Recipients(t) :
          alerts' = [alerts EXCEPT ![i].sent =
            [c \in Channels |-> IF c \in reached THEN Append(alerts[i].sent[c], state) ELSE alerts[i].sent[c]]]
    BY <1>i, <1>s DEF Notify
  <1>6. PICK sent \in [Channels -> Seq({"firing", "resolved"})] :
          /\ alerts' = [alerts EXCEPT ![i].sent = sent]
          /\ \A c \in Channels : sent[c] = alerts[i].sent[c] \/ sent[c] = Append(alerts[i].sent[c], state)
    <2> DEFINE sent == [c \in Channels |-> IF c \in reached THEN Append(alerts[i].sent[c], state)
                                           ELSE alerts[i].sent[c]]
    <2>1. \A c \in Channels : alerts[i].sent[c] \in Seq({"firing", "resolved"})
      BY <1>3 DEF Alert
    <2>2. \A c \in Channels : Append(alerts[i].sent[c], state) \in Seq({"firing", "resolved"})
      BY <2>1, AppendProperties
    <2>3. sent \in [Channels -> Seq({"firing", "resolved"})]
      BY <2>1, <2>2
    <2>4. \A c \in Channels : sent[c] = alerts[i].sent[c] \/ sent[c] = Append(alerts[i].sent[c], state)
      OBVIOUS
    <2>5. alerts' = [alerts EXCEPT ![i].sent = sent]
      BY <1>5
    <2> QED
      BY <2>3, <2>4, <2>5
  <1>7. ASSUME NEW j \in DOMAIN alerts
        PROVE  /\ alerts'[j] \in Alert
               /\ alerts'[j].rule = alerts[j].rule /\ alerts'[j].target = alerts[j].target
               /\ alerts'[j].heard = alerts[j].heard /\ alerts'[j].state = alerts[j].state
               /\ alerts'[j].lost = alerts[j].lost
               /\ alerts'[j].sent = IF j = i THEN sent ELSE alerts[j].sent
    <2>1. alerts'[j] = IF j = i THEN [alerts[j] EXCEPT !.sent = sent] ELSE alerts[j]
      BY <1>6
    <2>2. alerts[j] \in Alert
      BY <1>0
    <2> QED
      BY <2>1, <2>2 DEF Alert
  <1>8. DOMAIN alerts' = DOMAIN alerts
    BY <1>6
  <1>9. alerts' \in Seq(Alert)
    <2>1. alerts' = [j \in 1..Len(alerts) |-> alerts'[j]]
      BY <1>0, <1>6
    <2>2. \A j \in 1..Len(alerts) : alerts'[j] \in Alert
      BY <1>0, <1>7
    <2>3. Len(alerts) \in Nat
      BY <1>0
    <2> QED
      BY <2>1, <2>2, <2>3, RowsOf
  <1>10. ASSUME NEW k \in DOMAIN Tail(pass.told) PROVE ToTell(pass.told[k])'
    <2>1. /\ pass'.told[k] = pass.told[k + 1] /\ k + 1 \in DOMAIN pass.told
          /\ pass.told[k + 1].id # i
      BY <1>0, <1>1, <1>4, <1>i DEF PassHolds
    <2>2. ToTell(pass.told[k + 1])
      BY <1>0, <2>1 DEF PassHolds
    <2> DEFINE u == pass.told[k + 1]
    <2>3. u.id \in DOMAIN alerts /\ u.id # i
      BY <2>1, <2>2 DEF ToTell
    <2>4. /\ alerts'[u.id].heard = alerts[u.id].heard /\ alerts'[u.id].state = alerts[u.id].state
          /\ alerts'[u.id].sent = alerts[u.id].sent
      BY <1>7, <2>3
    <2> QED
      BY <1>0, <1>4, <1>8, <2>1, <2>2, <2>3, <2>4 DEF ToTell
  <1>11. PassHolds'
    <2>1. ASSUME NEW k \in DOMAIN Tail(pass.told), NEW l \in DOMAIN Tail(pass.told),
                 Tail(pass.told)[k].id = Tail(pass.told)[l].id
          PROVE  k = l
      <3>1. k + 1 = l + 1
        BY <1>0, <1>1, <2>1 DEF PassHolds
      <3> QED
        BY <1>0, <1>1, <3>1
    <2> QED
      BY <1>0, <1>4, <1>8, <1>10, <2>1 DEF PassHolds
  <1>12. OneOpen'
    BY <1>7, <1>8 DEF AlertsInv, OneOpen, Pair
  <1>13. ASSUME NEW j \in DOMAIN alerts, NEW st, Passed(j, st) PROVE Passed(j, st)'
    <2>1. CASE st \in ToSet(alerts[j].heard) \cup alerts[j].lost
      BY <1>7, <2>1 DEF Passed
    <2>2. CASE \E u \in ToSet(pass.told) : u.id = j /\ u.state = st
      <3>1. PICK k \in DOMAIN pass.told : pass.told[k].id = j /\ pass.told[k].state = st
        BY <2>2 DEF ToSet
      <3>2. CASE k = 1
        <4>1. j = i /\ st = state
          BY <1>1, <1>i, <1>s, <3>1, <3>2
        <4>2. /\ "firing" \in ToSet(<<"firing">>) /\ "resolved" \in ToSet(<<"resolved">>)
              /\ "resolved" \in ToSet(<<"firing", "resolved">>)
          BY ToldEvents
        <4>3. st \in ToSet(alerts[j].heard)
          <5>1. CASE state = "firing"
            BY <1>3, <4>1, <4>2, <5>1
          <5>2. CASE state = "resolved"
            BY <1>3, <4>1, <4>2, <5>2
          <5> QED
            BY <5>1, <5>2
        <4> QED
          BY <1>7, <4>3 DEF Passed
      <3>3. CASE k # 1
        <4>1. k - 1 \in DOMAIN Tail(pass.told) /\ Tail(pass.told)[k - 1] = pass.told[k]
          <5>1. k \in 1..Len(pass.told) /\ Len(pass.told) \in Nat
            BY <1>0
          <5>2. k - 1 \in 1..(Len(pass.told) - 1) /\ (k - 1) + 1 = k
            BY <3>3, <5>1
          <5> QED
            BY <1>1, <5>2
        <4>2. pass.told[k] \in ToSet(Tail(pass.told))
          BY <4>1 DEF ToSet
        <4> QED
          BY <1>4, <3>1, <4>2 DEF Passed
      <3> QED
        BY <3>2, <3>3
    <2> QED
      BY <1>13, <2>1, <2>2 DEF Passed
  <1>14. ASSUME NEW j \in DOMAIN alerts PROVE AlertHolds(j)'
    <2>1. AlertHolds(j)
      BY DEF AlertsInv
    <2>2. Passed(j, "firing")' /\ (alerts[j].state = "resolved" => Passed(j, "resolved")')
      BY <1>13, <2>1 DEF AlertHolds
    <2>3. CASE j = i
      <3>1. ASSUME NEW c \in Channels
            PROVE  InOrder(sent[c]) /\ (state = "firing" => sent[c] \in Begun)
        <4>1. /\ Append(<<>>, "firing") = <<"firing">> /\ Append(<<>>, "resolved") = <<"resolved">>
              /\ Append(<<"firing">>, "resolved") = <<"firing", "resolved">>
          <5> DEFINE S == {"firing", "resolved"}
          <5>1. "firing" \in S /\ "resolved" \in S
            OBVIOUS
          <5> HIDE DEF S
          <5> QED
            BY <5>1, OneThenAnother
        <4>2. InOrder(alerts[i].sent[c])
          BY <2>1, <2>3 DEF AlertHolds
        <4>3. state = "firing" => sent[c] \in Begun
          BY <1>3, <1>6, <4>1 DEF Begun
        <4>4. state = "resolved" => InOrder(sent[c])
          BY <1>3, <1>6, <4>1, <4>2 DEF InOrder, Begun
        <4> QED
          BY <4>3, <4>4 DEF InOrder, Begun
      <3>2. alerts[i].state = "firing" => state = "firing"
        BY <1>3
      <3>3. alerts'[j].sent = sent
        BY <1>7, <2>3
      <3> QED
        BY <1>7, <2>1, <2>2, <2>3, <3>1, <3>2, <3>3 DEF AlertHolds
    <2>4. CASE j # i
      BY <1>7, <2>1, <2>2, <2>4 DEF AlertHolds
    <2> QED
      BY <2>3, <2>4
  <1>15. /\ rules' \in [Rules -> Rule] /\ targets' \subseteq Targets
         /\ world' \in [Pairs -> {"calm", "recent", "held"}]
         /\ channels' \in [Channels -> {"none", "on", "off"}] /\ muted' \in BOOLEAN /\ moves' \in 0..MaxMoves
    BY DEF AlertsInv, Notify
  <1> QED
    BY <1>4, <1>8, <1>9, <1>11, <1>12, <1>14, <1>15 DEF AlertsInv

(* Whom the process was still sending to when it stopped is not sent to; what *)
(* was to be told then had been published.                                    *)
LEMMA AlertsRestartInv == ASSUME AlertsInv, AlertsRestart PROVE AlertsInv'
  <1>0. PassHolds /\ moves' \in 0..MaxMoves /\ pass' = NoPass /\ NoPass \in Pass
    BY AlertsTypes DEF AlertsInv, AlertsRestart
  <1>1. CASE pass.pc # "notify"
    BY <1>0, <1>1, BrokenInv DEF AlertsRestart
  <1>2. CASE pass.pc = "notify"
    <2>1. UNCHANGED alerts
      BY <1>2 DEF AlertsRestart
    <2>2. PassHolds' /\ pass' \in Pass
      BY <1>0 DEF NoPass, PassHolds
    <2>3. OneOpen'
      BY <2>1 DEF AlertsInv, OneOpen, Pair
    <2>4. ASSUME NEW i \in DOMAIN alerts, NEW state \in {"firing", "resolved"}, Passed(i, state)
          PROVE  Passed(i, state)'
      <3>1. CASE state \in ToSet(alerts[i].heard) \cup alerts[i].lost
        BY <2>1, <3>1 DEF Passed
      <3>2. CASE \E t \in ToSet(pass.told) : t.id = i /\ t.state = state
        <4>1. PICK k \in DOMAIN pass.told : pass.told[k].id = i /\ pass.told[k].state = state
          BY <3>2 DEF ToSet
        <4>2. ToTell(pass.told[k])
          BY <1>0 DEF PassHolds
        <4>3. /\ "firing" \in ToSet(<<"firing">>) /\ "resolved" \in ToSet(<<"resolved">>)
              /\ "resolved" \in ToSet(<<"firing", "resolved">>)
          BY ToldEvents
        <4>4. state \in ToSet(alerts[i].heard)
          BY <1>2, <4>1, <4>2, <4>3 DEF ToTell
        <4> QED
          BY <2>1, <4>4 DEF Passed
      <3> QED
        BY <2>4, <3>1, <3>2 DEF Passed
    <2>5. ASSUME NEW i \in DOMAIN alerts PROVE AlertHolds(i)'
      <3>1. AlertHolds(i)
        BY DEF AlertsInv
      <3> QED
        BY <2>1, <2>4, <3>1 DEF AlertHolds
    <2>6. /\ rules' \in [Rules -> Rule] /\ targets' \subseteq Targets
          /\ world' \in [Pairs -> {"calm", "recent", "held"}]
          /\ channels' \in [Channels -> {"none", "on", "off"}] /\ muted' \in BOOLEAN
      BY DEF AlertsInv, AlertsRestart
    <2>7. alerts' \in Seq(Alert)
      BY <2>1 DEF AlertsInv
    <2> QED
      BY <1>0, <2>1, <2>2, <2>3, <2>5, <2>6, <2>7 DEF AlertsInv
  <1> QED
    BY <1>1, <1>2

(* Every step keeps the invariant. *)
LEMMA AlertsStep == AlertsInv /\ [AlertsNext]_alertVars => AlertsInv'
  <1> SUFFICES ASSUME AlertsInv, [AlertsNext]_alertVars PROVE AlertsInv'
    OBVIOUS
  <1>1. CASE AlertsPass
    BY <1>1, StartPassInv, StartSweepInv, PublishInv, NotifyInv, EndPassInv, TakeRuleInv, EvaluateInv,
       SweepOneInv DEF AlertsPass
  <1>2. CASE AlertsRestart
    BY <1>2, AlertsRestartInv
  <1>3. CASE (\E r \in Rules : DeleteRule(r)) \/ \E i \in DOMAIN alerts : Ack(i)
    BY <1>3, MarksInv
  <1>4. CASE \/ PatchTypes \/ UNCHANGED alertVars
             \/ \E p \in Pairs : Sample(p)
             \/ \E t \in Targets : TargetGoes(t)
             \/ \E r \in Rules : CreateRule(r) \/ PatchRule(r)
             \/ \E c \in Channels : EditChannel(c)
    BY <1>4, WorldInv
  <1> QED
    BY <1>1, <1>2, <1>3, <1>4 DEF AlertsNext

(* However rules, channels and targets change under a pass, one breach has one *)
(* open alert, nobody hears of an alert twice or of its end before its start,  *)
(* and what was committed is told unless its pass was cut short.               *)
THEOREM AlertsAreHonest == AlertsSpec => []AlertsHonest
  <1>1. AlertsInv => AlertsHonest
    <2> SUFFICES ASSUME AlertsInv PROVE AlertsHonest
      OBVIOUS
    <2>1. AlertsTypeOK
      BY DEF AlertsInv, AlertsTypeOK, PassHolds, Pass
    <2>2. ASSUME NEW p \in Pairs PROVE Cardinality(Firing(p[1], p[2])) <= 1
      <3>1. \A i, j \in Firing(p[1], p[2]) : i = j
        BY DEF Firing, AlertsInv, OneOpen, Pair
      <3>2. Firing(p[1], p[2]) = {} \/ \E i \in Firing(p[1], p[2]) : Firing(p[1], p[2]) = {i}
        BY <3>1
      <3>3. Cardinality({}) = 0 /\ \A i \in Firing(p[1], p[2]) : Cardinality({i}) = 1
        BY FS_EmptySet, FS_Singleton
      <3> HIDE DEF Firing
      <3> QED
        BY <3>2, <3>3
    <2>3. \A i \in DOMAIN alerts :
            /\ InOrder(alerts[i].heard) /\ \A c \in Channels : InOrder(alerts[i].sent[c])
            /\ Passed(i, "firing") /\ (alerts[i].state = "resolved" => Passed(i, "resolved"))
      BY DEF AlertsInv, AlertHolds
    <2> QED
      BY <2>1, <2>2, <2>3 DEF AlertsHonest
  <1> QED
    BY <1>1, AlertsInitInv, AlertsStep, PTL DEF AlertsSpec

-----------------------------------------------------------------------------
(***************************************************************************)
(* App scripts (appstore run_update, catalog.py).  An update records what  *)
(* it ran long after it looked: the invariant says which commits it may    *)
(* claim, and what it saw of a script that is an edit by now.              *)
(***************************************************************************)
(* An update that ran has earned its commit, and what it looked at was not *)
(* an edit, unless there is a version more since.                          *)
UpdateHolds(u) ==
    /\ upd[u].pc \in {"ran", "recording"} => upd[u].sha \in earned
    /\ upd[u].pc \in {"running", "ran", "recording"} /\ app # "none" =>
         /\ upd[u].seen <= Len(scripts)
         /\ Latest.source = "edited" => upd[u].seen < Len(scripts)
ScriptsInv == ScriptsTypeOK /\ PinsEarned /\ \A u \in Updates : UpdateHolds(u)

(* What a version more does to the versions there are. *)
LEMMA LastScript ==
  ASSUME scripts \in Seq(Script)
  PROVE  /\ Len(scripts) \in Nat /\ \A i \in DOMAIN scripts : scripts[i] \in Script
         /\ \A s \in Script : /\ Append(scripts, s) \in Seq(Script)
                              /\ Len(Append(scripts, s)) = Len(scripts) + 1
                              /\ Last(Append(scripts, s)) = s
                              /\ DOMAIN Append(scripts, s) = 1..(Len(scripts) + 1)
                              /\ Append(scripts, s) # <<>> /\ Append(scripts, s) # scripts
                              /\ Append(scripts, s)[Len(scripts) + 1] = s
                              /\ \A i \in DOMAIN scripts : Append(scripts, s)[i] = scripts[i]
         /\ DOMAIN scripts = 1..Len(scripts)
         /\ scripts # <<>> => Latest \in Script
         /\ scripts = <<>> => Latest = [source |-> "none", ref |-> 0]
         /\ Pinned \in Shas
  <1>1. /\ Len(scripts) \in Nat /\ DOMAIN scripts = 1..Len(scripts)
        /\ \A i \in DOMAIN scripts : scripts[i] \in Script
    BY LenProperties, ElementOfSeq
  <1>2. scripts # <<>> => Len(scripts) > 0
    BY EmptySeq, <1>1
  <1>3. scripts # <<>> => Last(scripts) \in Script
    BY <1>1, <1>2 DEF Last
  <1>4. ASSUME NEW s \in Script
        PROVE  /\ Append(scripts, s) \in Seq(Script)
               /\ Len(Append(scripts, s)) = Len(scripts) + 1
               /\ Append(scripts, s)[Len(scripts) + 1] = s
               /\ \A i \in DOMAIN scripts : Append(scripts, s)[i] = scripts[i]
    BY <1>1, AppendProperties
  <1>5. ASSUME NEW s \in Script
        PROVE  /\ Last(Append(scripts, s)) = s
               /\ DOMAIN Append(scripts, s) = 1..(Len(scripts) + 1)
               /\ Append(scripts, s) # scripts
    <2>1. Len(Append(scripts, s)) = Len(scripts) + 1 /\ Append(scripts, s)[Len(scripts) + 1] = s
      BY <1>4
    <2>2. DOMAIN Append(scripts, s) = 1..Len(Append(scripts, s))
      BY <1>4, LenProperties
    <2>3. Append(scripts, s) # scripts
      <3> SUFFICES ASSUME Append(scripts, s) = scripts PROVE FALSE
        OBVIOUS
      <3>1. Len(Append(scripts, s)) = Len(scripts)
        OBVIOUS
      <3> QED
        BY <1>1, <2>1, <3>1
    <2> QED
      BY <2>1, <2>2, <2>3 DEF Last
  <1>6. ASSUME NEW s \in Script
        PROVE  Append(scripts, s) # <<>>
    BY <1>1, <1>4, EmptySeq
  <1>7. Latest.ref \in Shas
    BY <1>3, ScriptsAssumption DEF Latest, Script, Shas
  <1> QED
    BY <1>1, <1>3, <1>4, <1>5, <1>6, <1>7 DEF Latest, Pinned

(* An app just installed or adopted, under a catalog that was read once, satisfies the *)
(* invariant.                                                                          *)
LEMMA ScriptsInitInv == ScriptsInit => ScriptsInv
  <1> SUFFICES ASSUME ScriptsInit PROVE ScriptsInv
    OBVIOUS
  <1>1. Installed \in Script
    BY ScriptsAssumption DEF Installed, Script, Shas
  <1>2. scripts \in Seq(Script)
    <2>1. <<Installed>> \in Seq(Script) /\ <<>> \in Seq(Script)
      BY <1>1
    <2> QED
      BY <2>1 DEF ScriptsInit
  <1>3. earned \subseteq Shas
    BY ScriptsAssumption DEF ScriptsInit, ToSet, Installed, Shas
  <1>4. ScriptsTypeOK
    BY <1>2, <1>3, ScriptsAssumption DEF ScriptsInit, ScriptsTypeOK, NoUpdate, NoRefresh, Shas
  <1>5. PinsEarned
    BY DEF ScriptsInit, PinsEarned, Installed, ToSet
  <1> QED
    BY <1>4, <1>5 DEF ScriptsInit, ScriptsInv, UpdateHolds, NoUpdate

(* The catalog moves; scripts and updates are as they were. *)
LEMMA CatalogStep ==
  ASSUME ScriptsInv, UNCHANGED <<app, scripts, earned, upd>>,
         upstream' \in 1..MaxSha, reading' \in Shas, badge' \in Shas, edits' \in 0..MaxEdits,
         entry' \in [sha : Shas, verdict : {"none", "yes", "no"}, made : Shas],
         refresh' \in [Refreshes -> [pc : {"idle", "head", "mark", "write"},
                                     sha : Shas, loaded : Shas, want : Shas]]
  PROVE  ScriptsInv'
  <1>1. ScriptsTypeOK'
    BY DEF ScriptsInv, ScriptsTypeOK
  <1>2. PinsEarned'
    BY DEF ScriptsInv, PinsEarned
  <1>3. \A u \in Updates : UpdateHolds(u)'
    BY DEF ScriptsInv, UpdateHolds, Latest
  <1> QED
    BY <1>1, <1>2, <1>3 DEF ScriptsInv

(* A refresh of the catalog takes a step. *)
LEMMA RefreshInv ==
  ASSUME ScriptsInv, NEW r \in Refreshes, RefreshSteps(r)
  PROVE  ScriptsInv'
  <1> DEFINE Refresh == [pc : {"idle", "head", "mark", "write"}, sha : Shas, loaded : Shas, want : Shas]
  <1>0. /\ upstream \in 1..MaxSha /\ reading \in Shas /\ badge \in Shas /\ edits \in 0..MaxEdits
        /\ entry \in [sha : Shas, verdict : {"none", "yes", "no"}, made : Shas]
        /\ refresh \in [Refreshes -> Refresh] /\ scripts \in Seq(Script)
        /\ 1..MaxSha \subseteq Shas /\ 0 \in Shas /\ MaxEdits \in Nat
    BY ScriptsAssumption DEF ScriptsInv, ScriptsTypeOK, Shas
  <1>1. NoRefresh \in Refresh
    BY <1>0 DEF NoRefresh
  <1>2. CASE ReadHead(r)
    <2> DEFINE asked == [NoRefresh EXCEPT !.pc = "head", !.sha = upstream]
    <2>1. asked \in Refresh
      BY <1>0 DEF NoRefresh
    <2>2. refresh' \in [Refreshes -> Refresh]
      <3>1. refresh' = [refresh EXCEPT ![r] = asked] /\ refresh \in [Refreshes -> Refresh]
        BY <1>0, <1>2 DEF ReadHead
      <3> HIDE DEF asked, Refresh
      <3> QED
        BY <2>1, <3>1
    <2> QED
      BY <1>0, <1>2, <2>2, CatalogStep DEF ReadHead
  <1>3. CASE Upsert(r)
    <2>1. refresh' \in [Refreshes -> Refresh]
      <3>1. PICK turned \in Refresh : refresh' = [refresh EXCEPT ![r] = turned]
        <4>1. refresh[r] \in Refresh
          BY <1>0
        <4>2. [refresh[r] EXCEPT !.pc = "mark"] \in Refresh
          BY <4>1
        <4> QED
          BY <1>1, <1>3, <4>2 DEF Upsert
      <3> HIDE DEF Refresh
      <3> QED
        BY <1>0, <3>1
    <2>2. entry' \in [sha : Shas, verdict : {"none", "yes", "no"}, made : Shas]
      <3>1. [sha |-> refresh[r].sha, verdict |-> "none", made |-> 0]
              \in [sha : Shas, verdict : {"none", "yes", "no"}, made : Shas]
        BY <1>0
      <3> QED
        BY <1>0, <1>3, <3>1 DEF Upsert
    <2>3. edits' \in 0..MaxEdits
      BY <1>0, <1>3 DEF Upsert, Edit
    <2> QED
      BY <1>0, <1>3, <2>1, <2>2, <2>3, CatalogStep DEF Upsert
  <1>4. CASE MarkReads(r)
    <2>1. Behind(EntrySha, Pinned) \in Shas
      BY <1>0 DEF Behind, EntrySha
    <2>2. refresh' \in [Refreshes -> Refresh]
      BY <1>0, <1>4, <2>1 DEF MarkReads
    <2> QED
      BY <1>0, <1>4, <2>2, CatalogStep DEF MarkReads
  <1>5. CASE MarkWrites(r)
    <2>1. badge' \in Shas /\ refresh' \in [Refreshes -> Refresh]
      BY <1>0, <1>1, <1>5 DEF MarkWrites
    <2> QED
      BY <1>0, <1>5, <2>1, CatalogStep DEF MarkWrites
  <1> QED
    BY <1>2, <1>3, <1>4, <1>5 DEF RefreshSteps

(* The upstream moves, or an entry is classified. *)
LEMMA EntryInv ==
  ASSUME ScriptsInv, UpstreamMoves \/ StartClassify \/ Classify \/ UNCHANGED scriptVars
  PROVE  ScriptsInv'
  <1>0. /\ upstream \in 1..MaxSha /\ reading \in Shas /\ badge \in Shas /\ edits \in 0..MaxEdits
        /\ entry \in [sha : Shas, verdict : {"none", "yes", "no"}, made : Shas]
        /\ refresh \in [Refreshes -> [pc : {"idle", "head", "mark", "write"},
                                      sha : Shas, loaded : Shas, want : Shas]]
        /\ 1..MaxSha \subseteq Shas /\ 0 \in Shas /\ MaxEdits \in Nat /\ MaxSha \in Nat
    BY ScriptsAssumption DEF ScriptsInv, ScriptsTypeOK, Shas
  <1>1. CASE UpstreamMoves
    <2>1. upstream' \in 1..MaxSha
      BY <1>0, <1>1 DEF UpstreamMoves
    <2> QED
      BY <1>0, <1>1, <2>1, CatalogStep DEF UpstreamMoves
  <1>2. CASE StartClassify
    <2>1. reading' \in Shas
      BY <1>0, <1>2 DEF StartClassify
    <2> QED
      BY <1>0, <1>2, <2>1, CatalogStep DEF StartClassify
  <1>3. CASE Classify
    <2>1. entry' \in [sha : Shas, verdict : {"none", "yes", "no"}, made : Shas]
      BY <1>0, <1>3 DEF Classify
    <2>2. edits' \in 0..MaxEdits
      BY <1>0, <1>3 DEF Classify, Edit
    <2> QED
      BY <1>0, <1>3, <2>1, <2>2, CatalogStep DEF Classify
  <1>4. CASE UNCHANGED scriptVars
    BY <1>0, <1>4, CatalogStep DEF scriptVars
  <1> QED
    BY <1>1, <1>2, <1>3, <1>4

(* A version more, which says what it is. *)
LEMMA VersionFiled ==
  ASSUME ScriptsInv, NEW s \in Script, scripts' = Append(scripts, s), UNCHANGED <<app, earned>>,
         s.how \in {"install", "update"} => s.source = "upstream" /\ s.ref \in earned,
         \A u \in Updates : upd'[u] = upd[u] \/ upd'[u].pc = "idle",
         UNCHANGED <<upstream, entry, reading, refresh>>, badge' \in Shas, edits' \in 0..MaxEdits,
         upd' \in [Updates -> [pc : {"idle", "queued", "running", "ran", "recording"},
                               sha : Shas, seen : Nat, version : Nat]]
  PROVE  ScriptsInv'
  <1>0. scripts \in Seq(Script)
    BY DEF ScriptsInv, ScriptsTypeOK
  <1>1. /\ Len(scripts) \in Nat /\ scripts' \in Seq(Script) /\ Len(scripts') = Len(scripts) + 1
        /\ DOMAIN scripts = 1..Len(scripts) /\ DOMAIN scripts' = 1..(Len(scripts) + 1)
        /\ scripts'[Len(scripts) + 1] = s /\ \A i \in DOMAIN scripts : scripts'[i] = scripts[i]
    BY <1>0, LastScript
  <1>2. ScriptsTypeOK'
    BY <1>1 DEF ScriptsInv, ScriptsTypeOK
  <1>3. PinsEarned'
    <2> SUFFICES ASSUME NEW i \in 1..(Len(scripts) + 1), scripts'[i].how \in {"install", "update"}
                 PROVE  scripts'[i].source = "upstream" /\ scripts'[i].ref \in earned
      BY <1>1 DEF PinsEarned
    <2>1. CASE i = Len(scripts) + 1
      BY <1>1, <2>1
    <2>2. CASE i # Len(scripts) + 1
      <3>1. i \in DOMAIN scripts
        BY <1>1, <2>2
      <3> QED
        BY <1>1, <3>1 DEF ScriptsInv, PinsEarned
    <2> QED
      BY <2>1, <2>2
  <1>4. ASSUME NEW u \in Updates
        PROVE  UpdateHolds(u)'
    <2>1. upd[u].seen \in Nat
      BY DEF ScriptsInv, ScriptsTypeOK
    <2>2. UpdateHolds(u)
      BY DEF ScriptsInv
    <2>3. CASE upd'[u] = upd[u]
      BY <1>1, <2>1, <2>2, <2>3 DEF UpdateHolds
    <2>4. CASE upd'[u].pc = "idle"
      BY <2>4 DEF UpdateHolds
    <2> QED
      BY <2>3, <2>4
  <1> QED
    BY <1>2, <1>3, <1>4 DEF ScriptsInv

(* An operator edits, reverts or removes. *)
LEMMA RequestsInv ==
  ASSUME ScriptsInv, PutScript \/ Revert \/ AppGoes
  PROVE  ScriptsInv'
  <1>0. /\ entry \in [sha : Shas, verdict : {"none", "yes", "no"}, made : Shas]
        /\ upd \in [Updates -> [pc : {"idle", "queued", "running", "ran", "recording"},
                                sha : Shas, seen : Nat, version : Nat]]
        /\ badge \in Shas /\ edits \in 0..MaxEdits /\ 0 \in Shas /\ MaxEdits \in Nat
    BY ScriptsAssumption DEF ScriptsInv, ScriptsTypeOK, Shas
  <1>1. CASE PutScript
    <2>1. [source |-> "edited", ref |-> 0, how |-> "edit"] \in Script
      BY <1>0 DEF Script
    <2>2. edits' \in 0..MaxEdits
      BY <1>0, <1>1 DEF PutScript, Edit
    <2> QED
      BY <1>0, <1>1, <2>1, <2>2, VersionFiled DEF PutScript
  <1>2. CASE Revert
    <2>1. [source |-> "upstream", ref |-> entry.sha, how |-> "revert"] \in Script
      BY <1>0 DEF Script
    <2>2. edits' \in 0..MaxEdits
      BY <1>0, <1>2 DEF Revert, Edit
    <2> QED
      BY <1>0, <1>2, <2>1, <2>2, VersionFiled DEF Revert
  <1>3. CASE AppGoes
    <2>1. edits' \in 0..MaxEdits
      BY <1>0, <1>3 DEF AppGoes, Edit
    <2>2. <<>> \in Seq(Script) /\ DOMAIN <<>> = {}
      OBVIOUS
    <2>3. ScriptsTypeOK'
      BY <1>0, <1>3, <2>1, <2>2 DEF AppGoes, ScriptsInv, ScriptsTypeOK
    <2>4. PinsEarned'
      BY <1>3, <2>2 DEF AppGoes, PinsEarned
    <2>5. \A u \in Updates : UpdateHolds(u)'
      BY <1>3 DEF AppGoes, ScriptsInv, UpdateHolds
    <2> QED
      BY <2>3, <2>4, <2>5 DEF ScriptsInv
  <1> QED
    BY <1>1, <1>2, <1>3

(* A step of one update that files nothing. *)
LEMMA UpdateStep ==
  ASSUME ScriptsInv, NEW u \in Updates, UNCHANGED <<upstream, entry, reading, refresh, app, scripts, badge>>,
         NEW next \in [pc : {"idle", "queued", "running", "ran", "recording"},
                       sha : Shas, seen : Nat, version : Nat],
         upd' = [upd EXCEPT ![u] = next], UpdateHolds(u)',
         earned \subseteq earned', earned' \subseteq Shas, edits' \in 0..MaxEdits
  PROVE  ScriptsInv'
  <1>1. ScriptsTypeOK'
    BY DEF ScriptsInv, ScriptsTypeOK
  <1>2. PinsEarned'
    BY DEF ScriptsInv, PinsEarned
  <1>3. ASSUME NEW v \in Updates, v # u
        PROVE  UpdateHolds(v)'
    <2>1. UpdateHolds(v) /\ upd'[v] = upd[v]
      BY <1>3 DEF ScriptsInv, ScriptsTypeOK
    <2> QED
      BY <2>1 DEF UpdateHolds, Latest
  <1> QED
    BY <1>1, <1>2, <1>3 DEF ScriptsInv

(* An update is asked for, or takes a step. *)
LEMMA UpdatesInv ==
  ASSUME ScriptsInv, NEW u \in Updates, AskUpdate(u) \/ UpdateSteps(u)
  PROVE  ScriptsInv'
  <1> DEFINE Update == [pc : {"idle", "queued", "running", "ran", "recording"},
                        sha : Shas, seen : Nat, version : Nat]
  <1>0. /\ entry \in [sha : Shas, verdict : {"none", "yes", "no"}, made : Shas]
        /\ upd \in [Updates -> Update] /\ earned \subseteq Shas /\ scripts \in Seq(Script)
        /\ badge \in Shas /\ edits \in 0..MaxEdits /\ 0 \in Shas /\ MaxEdits \in Nat
        /\ UpdateHolds(u) /\ upd[u] \in Update
    BY ScriptsAssumption DEF ScriptsInv, ScriptsTypeOK, Shas
  <1>7. Len(scripts) \in Nat
    BY <1>0, LastScript
  <1>1. NoUpdate \in Update
    BY <1>0 DEF NoUpdate
  <1>2. CASE AskUpdate(u)
    <2>1. [NoUpdate EXCEPT !.pc = "queued"] \in Update
      BY <1>1
    <2>2. edits' \in 0..MaxEdits
      BY <1>0, <1>7, <1>2 DEF AskUpdate, Edit
    <2>3. UpdateHolds(u)'
      BY <1>0, <1>7, <1>2 DEF AskUpdate, NoUpdate, UpdateHolds
    <2> QED
      BY <1>0, <1>7, <1>2, <2>1, <2>2, <2>3, UpdateStep DEF AskUpdate
  <1>3. CASE ResolveUpdate(u)
    <2> DEFINE next == IF app # "none" /\ Resolvable
                       THEN [pc |-> "running", sha |-> entry.sha, seen |-> Len(scripts), version |-> 0]
                       ELSE NoUpdate
    <2>1. next \in Update
      BY <1>0, <1>7, <1>1
    <2>2. upd'[u] = next
      BY <1>0, <1>7, <1>3 DEF ResolveUpdate
    <2>3. UpdateHolds(u)'
      <3>1. CASE app # "none" /\ Resolvable
        BY <1>0, <1>7, <1>3, <2>2, <3>1 DEF ResolveUpdate, UpdateHolds, Resolvable, Latest
      <3>2. CASE ~(app # "none" /\ Resolvable)
        BY <2>2, <3>2 DEF UpdateHolds, NoUpdate
      <3> QED
        BY <3>1, <3>2
    <2> HIDE DEF next
    <2>4. upd' = [upd EXCEPT ![u] = next]
      BY <1>3 DEF ResolveUpdate, next
    <2> QED
      BY <1>0, <1>7, <1>3, <2>1, <2>3, <2>4, UpdateStep DEF ResolveUpdate
  <1>4. CASE Run(u)
    <2>1. CASE upd' = [upd EXCEPT ![u].pc = "ran"] /\ earned' = earned \cup {upd[u].sha} /\ UNCHANGED edits
      <3>1. [upd[u] EXCEPT !.pc = "ran"] \in Update
        BY <1>0, <1>7
      <3>2. upd' = [upd EXCEPT ![u] = [upd[u] EXCEPT !.pc = "ran"]]
        BY <1>0, <1>7, <2>1
      <3>3. upd'[u] = [upd[u] EXCEPT !.pc = "ran"]
        BY <1>0, <1>7, <3>2
      <3>4. UpdateHolds(u)'
        BY <1>0, <1>7, <1>4, <2>1, <3>3 DEF Run, UpdateHolds, Latest
      <3>5. earned \subseteq earned' /\ earned' \subseteq Shas /\ edits' \in 0..MaxEdits
        BY <1>0, <1>7, <2>1
      <3> QED
        BY <1>0, <1>7, <1>4, <3>1, <3>2, <3>4, <3>5, UpdateStep DEF Run
    <2>2. CASE upd' = [upd EXCEPT ![u] = NoUpdate] /\ UNCHANGED earned
      <3>1. edits' \in 0..MaxEdits
        BY <1>0, <1>7, <1>4 DEF Run, Edit
      <3>2. UpdateHolds(u)'
        BY <1>0, <1>7, <2>2 DEF UpdateHolds, NoUpdate
      <3> QED
        BY <1>0, <1>7, <1>1, <1>4, <2>2, <3>1, <3>2, UpdateStep DEF Run
    <2> QED
      BY <1>4, <2>1, <2>2 DEF Run
  <1>5. CASE CheckAfter(u)
    <2>1. CASE upd' = [upd EXCEPT ![u] = [upd[u] EXCEPT !.pc = "recording", !.version = Len(scripts) + 1]]
               /\ UNCHANGED edits
      <3>0. Len(scripts) + 1 \in Nat /\ upd[u] \in Update
        BY <1>0, <1>7
      <3>1. [upd[u] EXCEPT !.pc = "recording", !.version = Len(scripts) + 1] \in Update
        <4> DEFINE n == Len(scripts) + 1
        <4>1. n \in Nat
          BY <3>0
        <4> HIDE DEF n
        <4>2. [upd[u] EXCEPT !.pc = "recording", !.version = n] \in Update
          BY <3>0, <4>1
        <4> QED
          BY <4>2 DEF n
      <3>2. upd'[u] = [upd[u] EXCEPT !.pc = "recording", !.version = Len(scripts) + 1]
        BY <1>0, <1>7, <2>1
      <3>3. UpdateHolds(u)'
        BY <1>0, <1>7, <1>5, <3>2 DEF CheckAfter, UpdateHolds, Latest
      <3> QED
        BY <1>0, <1>7, <1>5, <2>1, <3>1, <3>3, UpdateStep DEF CheckAfter
    <2>2. CASE Edit /\ upd' = [upd EXCEPT ![u] = NoUpdate]
      <3>1. edits' \in 0..MaxEdits
        BY <1>0, <1>7, <2>2 DEF Edit
      <3>2. UpdateHolds(u)'
        BY <1>0, <1>7, <2>2 DEF UpdateHolds, NoUpdate
      <3> QED
        BY <1>0, <1>7, <1>1, <1>5, <2>2, <3>1, <3>2, UpdateStep DEF CheckAfter
    <2> QED
      BY <1>0, <1>7, <1>5, <2>1, <2>2 DEF CheckAfter
  <1>6. CASE RecordUpdate(u)
    <2>1. CASE scripts' = Append(scripts, Recorded(u)) /\ badge' = 0
      <3>1. Recorded(u) \in Script /\ Recorded(u).source = "upstream" /\ Recorded(u).ref \in earned
        BY <1>0, <1>7, <1>6 DEF Recorded, Script, RecordUpdate, UpdateHolds
      <3>2. \A v \in Updates : upd'[v] = upd[v] \/ upd'[v].pc = "idle"
        BY <1>0, <1>7, <1>6 DEF RecordUpdate, NoUpdate
      <3>3. upd' \in [Updates -> Update]
        BY <1>0, <1>7, <1>1, <1>6 DEF RecordUpdate
      <3> QED
        BY <1>0, <1>7, <1>6, <2>1, <3>1, <3>2, <3>3, VersionFiled DEF RecordUpdate
    <2>2. CASE UNCHANGED <<scripts, badge>>
      <3>1. UpdateHolds(u)'
        BY <1>0, <1>7, <1>6 DEF RecordUpdate, UpdateHolds, NoUpdate
      <3> QED
        BY <1>0, <1>7, <1>1, <1>6, <2>2, <3>1, UpdateStep DEF RecordUpdate
    <2> QED
      BY <1>6, <2>1, <2>2 DEF RecordUpdate
  <1> QED
    BY <1>2, <1>3, <1>4, <1>5, <1>6 DEF UpdateSteps

(* Every step keeps the invariant. *)
LEMMA ScriptsStep == ScriptsInv /\ [ScriptsNext]_scriptVars => ScriptsInv'
  BY CatalogStep, RefreshInv, EntryInv, RequestsInv, UpdatesInv DEF ScriptsNext

(* App scripts: however requests, refreshes and updates interleave, every version that *)
(* says it is upstream's names a commit whose script ran to its end, and the routes    *)
(* give one answer.                                                                    *)
THEOREM ScriptsAreHonest == ScriptsSpec => []ScriptsHonest
  <1>1. OneAnswer
    BY DEF OneAnswer, Skip, Refusal, Offered
  <1>2. ScriptsInv => ScriptsHonest
    BY <1>1 DEF ScriptsInv, ScriptsHonest
  <1> QED
    BY <1>2, ScriptsInitInv, ScriptsStep, PTL DEF ScriptsSpec

(* A local edit is buried only by whoever was told of it: a later edit, a revert, or an *)
(* update that had looked before the edit was saved.                                    *)
THEOREM EditsAlwaysSurvive == ScriptsSpec => EditsSurvive
  <1> DEFINE Buried == /\ Latest.source = "edited" /\ scripts' # scripts /\ app' # "none"
                       /\ Last(scripts').how = "update"
             Knew == \E u \in Updates : upd[u].pc = "recording" /\ upd[u].seen < Len(scripts)
  <1>1. ScriptsInv /\ [ScriptsNext]_scriptVars => [Buried => Knew]_scriptVars
    <2> SUFFICES ASSUME ScriptsInv, ScriptsNext, Buried
                 PROVE  Knew
      OBVIOUS
    <2>0. scripts \in Seq(Script) /\ 0 \in Shas
          /\ entry \in [sha : Shas, verdict : {"none", "yes", "no"}, made : Shas]
      BY ScriptsAssumption DEF ScriptsInv, ScriptsTypeOK, Shas
    <2>1. ~PutScript
      <3>1. [source |-> "edited", ref |-> 0, how |-> "edit"] \in Script
        BY <2>0 DEF Script
      <3>2. PutScript => Last(scripts') = [source |-> "edited", ref |-> 0, how |-> "edit"]
        BY <2>0, <3>1, LastScript DEF PutScript
      <3> QED
        BY <3>2
    <2>2. ~Revert
      <3>1. [source |-> "upstream", ref |-> entry.sha, how |-> "revert"] \in Script
        BY <2>0 DEF Script
      <3>2. Revert => Last(scripts') = [source |-> "upstream", ref |-> entry.sha, how |-> "revert"]
        BY <2>0, <3>1, LastScript DEF Revert
      <3> QED
        BY <3>2
    <2>3. ~AppGoes /\ ~UpstreamMoves /\ ~StartClassify /\ ~Classify
      BY DEF AppGoes, UpstreamMoves, StartClassify, Classify
    <2>4. \A r \in Refreshes : ~RefreshSteps(r)
      BY DEF RefreshSteps, ReadHead, Upsert, MarkReads, MarkWrites
    <2>5. \A u \in Updates : ~AskUpdate(u) /\ ~ResolveUpdate(u) /\ ~Run(u) /\ ~CheckAfter(u)
      BY DEF AskUpdate, ResolveUpdate, Run, CheckAfter
    <2>6. PICK u \in Updates : RecordUpdate(u)
      BY <2>1, <2>2, <2>3, <2>4, <2>5 DEF ScriptsNext, UpdateSteps
    <2>7. upd[u].pc = "recording" /\ app # "none" /\ UpdateHolds(u)
      BY <2>6 DEF RecordUpdate, ScriptsInv
    <2> QED
      BY <2>7 DEF UpdateHolds
  <1> QED
    BY <1>1, ScriptsInitInv, ScriptsStep, PTL DEF ScriptsSpec, EditsSurvive

-----------------------------------------------------------------------------
(***************************************************************************)
(* Backups (services/backupjobs.py).  Jobs name archives by rows of a      *)
(* mirror that is remade under them: the invariant says which archive each *)
(* of them works on, and what a verdict it brings rests on.                *)
(***************************************************************************)
Row == [file : Files, verdict : {"none", "ok", "failed"}]
(* A job that has lost no row works on the archive its row stands for, and *)
(* brings back a verdict that the archive bears out.                       *)
WorkHolds(w) ==
    /\ w \in Work
    /\ w.id # 0 /\ ~w.lost => w.id \in DOMAIN mirror /\ mirror[w.id].file = w.asked
    /\ w.file # 0 /\ ~w.lost => w.file = w.asked
    /\ w.kind = "restore" => w.id # 0 /\ (w.pc # "queued" => w.file # 0)
    /\ w.pc = "record" => /\ w.verdict = "ok" => w.file \notin Rotten
                          /\ w.verdict = "failed" /\ w.sound => w.file \in Rotten \/ w.kind = "test"
(* The list's own job only syncs. *)
OnlySyncs(w) == w.kind \in {"idle", "sync"} /\ w.pc \in {"idle", "list", "merge"} /\ ~w.chain
ScratchHolds(j, w) == scratch[j] = "there" => w.kind = "test" /\ w.pc \in {"await", "record", "drop"}
BackupsInv ==
    /\ written \in 0..MaxArchives /\ store \subseteq 1..written /\ deeds \in 0..MaxDeeds
    /\ \E n \in Nat : DOMAIN mirror \subseteq 1..n
    /\ \A i \in DOMAIN mirror : mirror[i] \in Row
    /\ work = [j \in All |-> work[j]] /\ \A j \in All : WorkHolds(work[j])
    /\ OnlySyncs(work["sync"])
    /\ scratch \in [Workers -> {"none", "there", "told", "stray"}]
    /\ \A j \in Workers : ScratchHolds(j, work[j])
    /\ apps \subseteq [from : Files, named : Files, lost : BOOLEAN]
    /\ \A a \in apps : a.from = a.named \/ a.lost

(* A job that does nothing holds nothing. *)
LEMMA RestingWork == WorkHolds(NoWork) /\ OnlySyncs(NoWork)
  <1>1. NoWork \in Work
    BY DEF NoWork, Work, Checks
  <1> QED
    BY <1>1 DEF WorkHolds, OnlySyncs, NoWork

(* A mirror that shows what is on the storage, and jobs at rest, satisfy the invariant. *)
LEMMA BackupsInitInv == BackupsInit => BackupsInv
  <1> SUFFICES ASSUME BackupsInit PROVE BackupsInv
    OBVIOUS
  <1>1. written \in 0..MaxArchives /\ store \subseteq 1..written /\ deeds \in 0..MaxDeeds
    BY BackupsAssumption DEF BackupsInit
  <1>2. DOMAIN mirror \subseteq 1..1
    BY DEF BackupsInit
  <1>3. \A i \in DOMAIN mirror : mirror[i] \in Row
    BY BackupsAssumption DEF BackupsInit, Row, Files
  <1>4. \A j \in All : work[j] = NoWork
    BY DEF BackupsInit
  <1>5. WorkHolds(NoWork) /\ OnlySyncs(NoWork) /\ "sync" \in All
    BY RestingWork DEF All
  <1> QED
    BY <1>1, <1>2, <1>3, <1>4, <1>5 DEF BackupsInit, BackupsInv, ScratchHolds

(* A step of one job that leaves the mirror alone. *)
LEMMA JobStep ==
  ASSUME BackupsInv, NEW j \in All, NEW w, work' = [work EXCEPT ![j] = w], UNCHANGED mirror,
         WorkHolds(w), j = "sync" => OnlySyncs(w),
         written' \in 0..MaxArchives, store' \subseteq 1..written', deeds' \in 0..MaxDeeds,
         scratch' \in [Workers -> {"none", "there", "told", "stray"}],
         \A k \in Workers \ {j} : scratch'[k] = scratch[k],
         j \in Workers => (scratch'[j] = "there" => w.kind = "test" /\ w.pc \in {"await", "record", "drop"}),
         apps' \subseteq [from : Files, named : Files, lost : BOOLEAN],
         \A a \in apps' : a.from = a.named \/ a.lost
  PROVE  BackupsInv'
  <1>1. work' = [k \in All |-> IF k = j THEN w ELSE work[k]]
    BY DEF BackupsInv
  <1>2. \A k \in All : WorkHolds(work[k])'
    <2> SUFFICES ASSUME NEW k \in All PROVE WorkHolds(work[k])'
      OBVIOUS
    <2>1. work'[k] = w \/ work'[k] = work[k]
      BY <1>1
    <2>2. WorkHolds(w) /\ WorkHolds(work[k])
      BY DEF BackupsInv
    <2> QED
      BY <2>1, <2>2 DEF WorkHolds
  <1>3. OnlySyncs(work["sync"])'
    <2>1. work'["sync"] = IF j = "sync" THEN w ELSE work["sync"]
      BY <1>1 DEF All
    <2> QED
      BY <2>1 DEF BackupsInv, OnlySyncs
  <1>4. \A k \in Workers : ScratchHolds(k, work[k])'
    BY <1>1 DEF BackupsInv, ScratchHolds, All
  <1>5. work' = [k \in All |-> work'[k]]
    BY <1>1
  <1> QED
    BY <1>2, <1>3, <1>4, <1>5 DEF BackupsInv

(* The same, when the throwaway guests and what was adopted stay too. *)
LEMMA PlainStep ==
  ASSUME BackupsInv, NEW j \in All, NEW w, work' = [work EXCEPT ![j] = w],
         UNCHANGED <<mirror, scratch, apps>>,
         WorkHolds(w), j = "sync" => OnlySyncs(w), j \in Workers => ScratchHolds(j, w),
         written' \in 0..MaxArchives, store' \subseteq 1..written', deeds' \in 0..MaxDeeds
  PROVE  BackupsInv'
  BY JobStep DEF BackupsInv, ScratchHolds

(* Archives come and go on the storage, behind the mirror. *)
LEMMA OthersInv ==
  ASSUME BackupsInv, NewArchive \/ (\E f \in Files : Vanish(f)) \/ UNCHANGED backupVars
  PROVE  BackupsInv'
  <1>1. CASE NewArchive
    BY <1>1, BackupsAssumption
       DEF NewArchive, Deed, Write, BackupsInv, WorkHolds, OnlySyncs, ScratchHolds
  <1>2. CASE \E f \in Files : Vanish(f)
    BY <1>2, BackupsAssumption DEF Vanish, Deed, BackupsInv, WorkHolds, OnlySyncs, ScratchHolds
  <1>3. CASE UNCHANGED backupVars
    BY <1>3 DEF backupVars, BackupsInv, WorkHolds, OnlySyncs, ScratchHolds
  <1> QED
    BY <1>1, <1>2, <1>3

(* The process stops: its jobs are gone, and what they made stays. *)
LEMMA BackupsRestartInv == ASSUME BackupsInv, BackupsRestart PROVE BackupsInv'
  <1>1. work' = [j \in All |-> work'[j]] /\ \A j \in All : work'[j] = NoWork
    BY DEF BackupsRestart
  <1>2. (\A j \in All : WorkHolds(work[j])') /\ OnlySyncs(work["sync"])'
    BY <1>1, RestingWork DEF BackupsRestart, WorkHolds, All
  <1>3. scratch' \in [Workers -> {"none", "there", "told", "stray"}]
    BY DEF BackupsRestart, BackupsInv
  <1>4. \A j \in Workers : ScratchHolds(j, work[j])'
    BY DEF BackupsRestart, ScratchHolds
  <1>5. deeds' \in 0..MaxDeeds
    BY BackupsAssumption DEF BackupsRestart, Deed, BackupsInv
  <1> QED
    BY <1>1, <1>2, <1>3, <1>4, <1>5 DEF BackupsRestart, BackupsInv

(* What all of the steps use. *)
LEMMA BackupsTypes ==
  ASSUME BackupsInv
  PROVE  /\ written \in 0..MaxArchives /\ store \subseteq 1..written /\ deeds \in 0..MaxDeeds
         /\ Deed => deeds' \in 0..MaxDeeds
         /\ Write => written' \in 0..MaxArchives /\ store' \subseteq 1..written'
         /\ DOMAIN mirror \subseteq RowIds /\ \A i \in DOMAIN mirror : mirror[i].file \in Files
         /\ MaxArchives \in Nat /\ MaxDeeds \in Nat /\ "sync" \notin Workers /\ Workers \subseteq All
         /\ \A j \in All : WorkHolds(work[j])
         /\ \A j \in Workers : ScratchHolds(j, work[j])
  <1>1. /\ written \in 0..MaxArchives /\ store \subseteq 1..written /\ deeds \in 0..MaxDeeds
        /\ MaxArchives \in Nat /\ MaxDeeds \in Nat /\ "sync" \notin Workers /\ Workers \subseteq All
        /\ \A j \in All : WorkHolds(work[j])
        /\ \A j \in Workers : ScratchHolds(j, work[j])
    BY BackupsAssumption DEF BackupsInv, All
  <1>2. Deed => deeds' \in 0..MaxDeeds
    BY <1>1 DEF Deed
  <1>3. Write => written' \in 0..MaxArchives /\ store' \subseteq 1..written'
    BY <1>1 DEF Write
  <1>4. DOMAIN mirror \subseteq RowIds /\ \A i \in DOMAIN mirror : mirror[i].file \in Files
    BY DEF BackupsInv, RowIds, Row
  <1> QED
    BY <1>1, <1>2, <1>3, <1>4

(* A sync, a run or a sweep is asked for, or a job on a row of the mirror. *)
LEMMA AsksInv ==
  ASSUME BackupsInv,
         \/ AskSync
         \/ \E j \in Workers : \/ AskRun(j) \/ AskSweep(j)
                               \/ \E i \in DOMAIN mirror, kind \in {"verify", "test", "restore", "delete"} :
                                    AskFor(j, kind, i)
  PROVE  BackupsInv'
  <1>0. NoWork \in Work
    BY RestingWork DEF WorkHolds
  <1>1. CASE AskSync
    <2> DEFINE w == [NoWork EXCEPT !.kind = "sync", !.pc = "list"]
    <2>1. w \in Work
      BY <1>0 DEF NoWork, Work
    <2>2. WorkHolds(w) /\ OnlySyncs(w)
      BY <2>1 DEF WorkHolds, OnlySyncs, NoWork
    <2>3. work' = [work EXCEPT !["sync"] = w] /\ "sync" \in All /\ "sync" \notin Workers
      BY <1>1, BackupsAssumption DEF AskSync, Becomes, All
    <2> HIDE DEF w
    <2> QED
      BY <1>1, <2>2, <2>3, PlainStep, BackupsTypes DEF AskSync
  <1>2. ASSUME NEW j \in Workers, AskRun(j)
        PROVE  BackupsInv'
    <2>1. PICK chain \in BOOLEAN : Becomes(j, [NoWork EXCEPT !.kind = "run", !.pc = "act", !.chain = chain])
      BY <1>2 DEF AskRun
    <2> DEFINE w == [NoWork EXCEPT !.kind = "run", !.pc = "act", !.chain = chain]
    <2>2. w \in Work
      BY <1>0 DEF NoWork, Work
    <2>3. WorkHolds(w) /\ ScratchHolds(j, w)
      BY <1>2, <2>2 DEF WorkHolds, ScratchHolds, NoWork, AskRun, Free
    <2>4. work' = [work EXCEPT ![j] = w]
      BY <2>1 DEF Becomes
    <2> HIDE DEF w
    <2> QED
      BY <1>2, <2>3, <2>4, PlainStep, BackupsTypes DEF AskRun
  <1>3. ASSUME NEW j \in Workers, AskSweep(j)
        PROVE  BackupsInv'
    <2> DEFINE todo == {i \in DOMAIN mirror : mirror[i].verdict = "none"}
               w == [NoWork EXCEPT !.kind = "sweep", !.pc = "after", !.todo = todo]
    <2>1. todo \subseteq RowIds
      BY BackupsTypes
    <2>2. work' = [work EXCEPT ![j] = w]
      BY <1>3 DEF AskSweep, Becomes
    <2> HIDE DEF todo
    <2>3. w \in Work
      BY <1>0, <2>1 DEF NoWork, Work, Checks
    <2>4. WorkHolds(w) /\ ScratchHolds(j, w)
      BY <1>3, <2>3 DEF WorkHolds, ScratchHolds, NoWork, AskSweep, Free
    <2> HIDE DEF w
    <2> QED
      BY <1>3, <2>2, <2>4, PlainStep, BackupsTypes DEF AskSweep
  <1>4. ASSUME NEW j \in Workers, NEW i \in DOMAIN mirror,
               NEW kind \in {"verify", "test", "restore", "delete"}, AskFor(j, kind, i)
        PROVE  BackupsInv'
    <2> DEFINE w == [NoWork EXCEPT !.kind = kind, !.pc = "queued", !.id = i, !.asked = mirror[i].file]
    <2>1. i \in RowIds /\ mirror[i].file \in Files
      BY BackupsTypes
    <2>2. w \in Work
      BY <1>0, <2>1 DEF NoWork, Work, Checks
    <2>3. WorkHolds(w) /\ ScratchHolds(j, w)
      BY <1>4, <2>1, <2>2 DEF WorkHolds, ScratchHolds, NoWork, AskFor, Free, RowIds
    <2>4. work' = [work EXCEPT ![j] = w]
      BY <1>4 DEF AskFor, Becomes
    <2> HIDE DEF w
    <2> QED
      BY <1>4, <2>3, <2>4, PlainStep, BackupsTypes DEF AskFor
  <1> QED
    BY <1>1, <1>2, <1>3, <1>4

(* What a job goes on with once its mirror is fresh. *)
LEMMA ResyncedHolds ==
  ASSUME BackupsInv, NEW j \in All, work[j].pc \in {"list", "merge"}
  PROVE  /\ WorkHolds(Resynced(j)) /\ (OnlySyncs(work[j]) => OnlySyncs(Resynced(j)))
         /\ Resynced(j).id \in {0, work[j].id} /\ Resynced(j).lost \in {FALSE, work[j].lost}
         /\ Resynced(j).id # 0 => Resynced(j).lost = work[j].lost
  <1> DEFINE w == work[j]
  <1>1. WorkHolds(w) /\ WorkHolds(NoWork) /\ OnlySyncs(NoWork) /\ w \in Work
    BY RestingWork DEF BackupsInv, WorkHolds
  <1>2. CASE w.kind = "restore" \/ w.chain
    <2> DEFINE v == [w EXCEPT !.listed = {}, !.pc = "after", !.kind = w.kind]
    <2>1. NextPc(w) = v
      BY <1>1, <1>2 DEF NextPc, Work
    <2>2. v \in Work
      BY <1>1 DEF Work
    <2>3. v.kind = w.kind /\ v.pc = "after" /\ v.id = w.id /\ v.lost = w.lost /\ v.file = w.file
          /\ v.asked = w.asked /\ v.chain = w.chain
      BY <1>1 DEF Work
    <2> HIDE DEF v
    <2>4. WorkHolds(v)
      BY <1>1, <2>2, <2>3 DEF WorkHolds
    <2>5. ~OnlySyncs(w)
      BY <1>2 DEF OnlySyncs
    <2>6. Resynced(j) \in {v, NoWork}
      BY <2>1 DEF Resynced
    <2> QED
      <3>1. CASE Resynced(j) = v
        BY <1>1, <2>3, <2>4, <2>5, <3>1
      <3>2. CASE Resynced(j) = NoWork
        BY <1>1, <3>2 DEF NoWork
      <3> QED
        BY <2>6, <3>1, <3>2
  <1>3. CASE ~(w.kind = "restore" \/ w.chain)
    <2>1. NextPc(w).kind = "idle"
      BY <1>1, <1>3 DEF NextPc, Work
    <2> QED
      BY <1>1, <2>1 DEF Resynced, NoWork
  <1> QED
    BY <1>2, <1>3

(* A sync lists the storage. *)
LEMMA ListInv == ASSUME BackupsInv, NEW j \in All, List(j) PROVE BackupsInv'
  <1> DEFINE w == work[j]
  <1>0. WorkHolds(w) /\ w \in Work /\ w.pc = "list" /\ (j = "sync" => OnlySyncs(w))
        /\ (j \in Workers => scratch[j] # "there")
    BY DEF BackupsInv, WorkHolds, List, ScratchHolds
  <1>1. CASE NoDeed /\ Becomes(j, [w EXCEPT !.listed = store, !.pc = "merge"])
    <2> DEFINE v == [w EXCEPT !.listed = store, !.pc = "merge"]
    <2>1. store \subseteq Files
      BY BackupsTypes DEF Files
    <2>2. v \in Work
      BY <1>0, <2>1 DEF Work
    <2>3. v.kind = w.kind /\ v.pc = "merge" /\ v.id = w.id /\ v.lost = w.lost /\ v.file = w.file
          /\ v.asked = w.asked /\ v.chain = w.chain
      BY <1>0 DEF Work
    <2>4. work' = [work EXCEPT ![j] = v]
      BY <1>1 DEF Becomes
    <2> HIDE DEF v
    <2>5. WorkHolds(v) /\ (j = "sync" => OnlySyncs(v)) /\ (j \in Workers => ScratchHolds(j, v))
      BY <1>0, <2>2, <2>3 DEF WorkHolds, OnlySyncs, ScratchHolds
    <2> QED
      BY <1>1, <2>4, <2>5, PlainStep, BackupsTypes DEF List, NoDeed
  <1>2. CASE Deed /\ Becomes(j, Resynced(j))
    <2>1. WorkHolds(Resynced(j)) /\ (j = "sync" => OnlySyncs(Resynced(j)))
          /\ (j \in Workers => ScratchHolds(j, Resynced(j)))
      BY <1>0, ResyncedHolds DEF ScratchHolds
    <2>2. work' = [work EXCEPT ![j] = Resynced(j)]
      BY <1>2 DEF Becomes
    <2> QED
      BY <1>2, <2>1, <2>2, PlainStep, BackupsTypes DEF List
  <1> QED
    BY <1>1, <1>2 DEF List

(* A merge keeps the rows of what is listed as they are, and numbers what is *)
(* new past every row there was.                                             *)
LEMMA MergedIs ==
  ASSUME BackupsInv, NEW shown \in SUBSET Files
  PROVE  /\ \E n \in Nat : DOMAIN Merged(shown) \subseteq 1..n
         /\ \A i \in DOMAIN Merged(shown) : Merged(shown)[i] \in Row
         /\ \A i \in DOMAIN mirror \cap DOMAIN Merged(shown) : Merged(shown)[i] = mirror[i]
  <1> DEFINE known == {mirror[i].file : i \in DOMAIN mirror}
             kept == {i \in DOMAIN mirror : mirror[i].file \in shown}
             new == shown \ known
             top == Max(DOMAIN mirror \cup {0})
             rank(f) == Cardinality({g \in new : g <= f})
             Id(f) == top + rank(f)
             merged == [i \in kept \cup {Id(f) : f \in new} |->
                          IF i \in kept THEN mirror[i]
                          ELSE [file |-> CHOOSE f \in new : Id(f) = i, verdict |-> "none"]]
  <1>0. Merged(shown) = merged
    BY DEF Merged
  <1>1. PICK n \in Nat : DOMAIN mirror \subseteq 1..n
    BY DEF BackupsInv
  <1>2. top \in 0..n /\ \A i \in DOMAIN mirror : i <= top
    <2>1. DOMAIN mirror \cup {0} \subseteq 0..n /\ DOMAIN mirror \cup {0} # {}
      BY <1>1
    <2> QED
      BY <2>1, GreatestIs
  <1>3. new \subseteq 1..MaxArchives /\ MaxArchives \in Nat
    BY BackupsAssumption DEF Files
  <1>4. ASSUME NEW f \in new PROVE rank(f) \in 1..MaxArchives
    <2> DEFINE upto == {g \in new : g <= f}
    <2>1. IsFiniteSet(1..MaxArchives) /\ Cardinality(1..MaxArchives) = MaxArchives
      BY <1>3, FS_Interval, BackupsAssumption
    <2>2. upto \in SUBSET (1..MaxArchives) /\ f \in upto
      BY <1>3, <1>4
    <2> HIDE DEF upto
    <2>3. IsFiniteSet(upto) /\ Cardinality(upto) <= MaxArchives
      BY <2>1, <2>2, FS_Subset
    <2>4. Cardinality(upto) # 0 /\ Cardinality(upto) \in Nat
      BY <2>2, <2>3, FS_EmptySet, FS_CardinalityType
    <2>5. Cardinality(upto) \in 1..MaxArchives
      BY <2>3, <2>4, <1>3
    <2> QED
      BY <2>5 DEF upto
  <1> HIDE DEF top, rank
  <1>5. \A f \in new : Id(f) \in 1..(n + MaxArchives) /\ Id(f) > top
    BY <1>2, <1>3, <1>4
  <1>6. kept \subseteq 1..(n + MaxArchives)
    BY <1>1, <1>3
  <1>7. DOMAIN merged \subseteq 1..(n + MaxArchives) /\ n + MaxArchives \in Nat
    BY <1>3, <1>5, <1>6
  <1>8. ASSUME NEW i \in DOMAIN merged PROVE merged[i] \in Row
    <2>1. CASE i \in kept
      BY <2>1 DEF BackupsInv
    <2>2. CASE i \notin kept
      <3>1. \E f \in new : Id(f) = i
        BY <2>2
      <3>2. (CHOOSE f \in new : Id(f) = i) \in Files
        BY <3>1
      <3>3. merged[i] = [file |-> CHOOSE f \in new : Id(f) = i, verdict |-> "none"]
        BY <2>2
      <3> QED
        BY <3>2, <3>3 DEF Row
    <2> QED
      BY <2>1, <2>2
  <1>9. ASSUME NEW i \in DOMAIN mirror \cap DOMAIN merged PROVE merged[i] = mirror[i]
    <2>1. i \notin {Id(f) : f \in new}
      <3> SUFFICES ASSUME NEW f \in new, i = Id(f) PROVE FALSE
        OBVIOUS
      <3>1. i <= top /\ i > top
        BY <1>2, <1>5
      <3>2. i \in Nat /\ top \in Nat
        BY <1>1, <1>2
      <3> QED
        BY <3>1, <3>2
    <2>2. i \in kept
      BY <2>1
    <2> QED
      BY <2>2
  <1> QED
    BY <1>0, <1>7, <1>8, <1>9

(* It merges what it listed, which may be stale, into the mirror. *)
LEMMA MergeInv == ASSUME BackupsInv, NEW j \in All, Merge(j) PROVE BackupsInv'
  <1>0. /\ work[j].pc = "merge" /\ WorkHolds(work[j]) /\ work[j].listed \in SUBSET Files
        /\ (j \in Workers => scratch[j] # "there")
    BY DEF BackupsInv, WorkHolds, Merge, ScratchHolds, Work
  <1>1. CASE Deed /\ UNCHANGED mirror /\ Becomes(j, Resynced(j))
    <2>1. WorkHolds(Resynced(j)) /\ (j = "sync" => OnlySyncs(Resynced(j)))
          /\ (j \in Workers => ScratchHolds(j, Resynced(j)))
      BY <1>0, ResyncedHolds DEF ScratchHolds, BackupsInv
    <2>2. work' = [work EXCEPT ![j] = Resynced(j)]
      BY <1>1 DEF Becomes
    <2> QED
      BY <1>1, <2>1, <2>2, PlainStep, BackupsTypes DEF Merge
  <1>2. CASE /\ NoDeed /\ mirror' = Merged(work[j].listed)
             /\ work' = [k \in All |->
                  [(IF k = j THEN Resynced(j) ELSE work[k]) EXCEPT
                     !.lost = @ \/ work[k].id \in DOMAIN mirror \ DOMAIN mirror']]
    <2> DEFINE base(k) == IF k = j THEN Resynced(j) ELSE work[k]
               gone(k) == work[k].id \in DOMAIN mirror \ DOMAIN mirror'
    <2>1. /\ \E n \in Nat : DOMAIN mirror' \subseteq 1..n
          /\ \A i \in DOMAIN mirror' : mirror'[i] \in Row
          /\ \A i \in DOMAIN mirror \cap DOMAIN mirror' : mirror'[i] = mirror[i]
      BY <1>0, <1>2, MergedIs
    <2>2. ASSUME NEW k \in All
          PROVE  /\ WorkHolds(base(k)) /\ (OnlySyncs(work[k]) => OnlySyncs(base(k)))
                 /\ base(k).id \in {0, work[k].id}
                 /\ base(k).id # 0 => base(k).lost = work[k].lost
      BY <1>0, ResyncedHolds DEF BackupsInv
    <2>3. ASSUME NEW k \in All
          PROVE  /\ work'[k].id = base(k).id /\ work'[k].asked = base(k).asked
                 /\ work'[k].file = base(k).file /\ work'[k].kind = base(k).kind
                 /\ work'[k].pc = base(k).pc /\ work'[k].verdict = base(k).verdict
                 /\ work'[k].sound = base(k).sound /\ work'[k].chain = base(k).chain
                 /\ work'[k] \in Work
                 /\ (~work'[k].lost => ~base(k).lost /\ ~gone(k))
      <3>1. base(k) \in Work
        BY <2>2 DEF WorkHolds
      <3>2. work'[k] = [base(k) EXCEPT !.lost = base(k).lost \/ gone(k)]
        BY <1>2
      <3>3. PICK b \in BOOLEAN : b = (base(k).lost \/ gone(k))
        <4>1. (base(k).lost \/ gone(k)) \in BOOLEAN
          OBVIOUS
        <4> QED
          BY <4>1
      <3> HIDE DEF base, gone
      <3>4. work'[k] = [base(k) EXCEPT !.lost = b]
        BY <3>2, <3>3
      <3>5. work'[k] \in Work /\ work'[k].lost = b
        BY <3>1, <3>4 DEF Work
      <3>6. /\ work'[k].id = base(k).id /\ work'[k].asked = base(k).asked
            /\ work'[k].file = base(k).file /\ work'[k].kind = base(k).kind
            /\ work'[k].pc = base(k).pc /\ work'[k].verdict = base(k).verdict
            /\ work'[k].sound = base(k).sound /\ work'[k].chain = base(k).chain
        BY <3>1, <3>4 DEF Work
      <3> QED
        BY <3>3, <3>5, <3>6
    <2>4. ASSUME NEW k \in All
          PROVE  WorkHolds(work[k])'
      <3>1. WorkHolds(base(k)) /\ WorkHolds(work[k])
        BY <2>2 DEF BackupsInv
      <3>2. ASSUME work'[k].id # 0, ~work'[k].lost
            PROVE  work'[k].id \in DOMAIN mirror' /\ mirror'[work'[k].id].file = work'[k].asked
        <4>1. base(k).id # 0 /\ ~base(k).lost /\ ~gone(k) /\ base(k).id = work[k].id
          BY <2>2, <2>3, <3>2
        <4>2. base(k).id \in DOMAIN mirror /\ mirror[base(k).id].file = base(k).asked
          BY <3>1, <4>1 DEF WorkHolds
        <4> QED
          BY <2>1, <2>3, <4>1, <4>2
      <3> HIDE DEF base, gone
      <3> QED
        BY <2>3, <3>1, <3>2 DEF WorkHolds
    <2>5. OnlySyncs(work["sync"])'
      <3>1. "sync" \in All /\ OnlySyncs(work["sync"])
        BY DEF All, BackupsInv
      <3> HIDE DEF base, gone
      <3> QED
        BY <2>2, <2>3, <3>1 DEF OnlySyncs
    <2>6. ASSUME NEW k \in Workers PROVE ScratchHolds(k, work[k])'
      <3>1. ScratchHolds(k, work[k]) /\ scratch'[k] = scratch[k] /\ k \in All
        BY DEF BackupsInv, Merge, All
      <3>2. CASE k = j
        BY <1>0, <3>1, <3>2 DEF ScratchHolds
      <3>3. CASE k # j
        <4>1. base(k) = work[k]
          BY <3>3
        <4> HIDE DEF base, gone
        <4> QED
          BY <2>3, <3>1, <4>1 DEF ScratchHolds
      <3> QED
        BY <3>2, <3>3
    <2>7. work' = [k \in All |-> work'[k]]
      BY <1>2
    <2> QED
      BY <1>2, <2>1, <2>4, <2>5, <2>6, <2>7 DEF BackupsInv, Merge, NoDeed
  <1> QED
    BY <1>1, <1>2 DEF Merge

(* A job finds its archive by its row. *)
LEMMA ResolveInv == ASSUME BackupsInv, NEW j \in All, Resolve(j) PROVE BackupsInv'
  <1> DEFINE w == work[j]
             pc == IF w.kind = "test" THEN "post" ELSE "act"
             v == [w EXCEPT !.file = mirror[w.id].file, !.pc = pc]
  <1>0. WorkHolds(w) /\ w \in Work /\ w.pc = "queued" /\ j # "sync" /\ (j \in Workers => scratch[j] # "there")
    BY DEF BackupsInv, WorkHolds, Resolve, ScratchHolds, OnlySyncs
  <1>1. CASE w.id \notin DOMAIN mirror
    <2>1. work' = [work EXCEPT ![j] = NoWork]
      BY <1>1 DEF Resolve, Ends, Becomes
    <2> QED
      BY <1>0, <2>1, PlainStep, RestingWork, BackupsTypes DEF Resolve, ScratchHolds
  <1>2. CASE w.id \in DOMAIN mirror
    <2>1. work' = [work EXCEPT ![j] = v]
      BY <1>2 DEF Resolve, Becomes
    <2>2. mirror[w.id].file \in Files /\ w.id # 0 /\ mirror[w.id].file # 0
      BY <1>2, BackupsTypes DEF RowIds, Files
    <2>3. v \in Work /\ v.kind = w.kind /\ v.id = w.id /\ v.lost = w.lost /\ v.asked = w.asked
          /\ v.file = mirror[w.id].file /\ v.pc = pc /\ pc \in {"post", "act"}
      BY <1>0, <2>2 DEF Work
    <2> HIDE DEF v, pc
    <2>4. WorkHolds(v) /\ (j \in Workers => ScratchHolds(j, v))
      BY <1>0, <2>2, <2>3 DEF WorkHolds, ScratchHolds
    <2> QED
      BY <1>0, <2>1, <2>4, PlainStep, BackupsTypes DEF Resolve
  <1> QED
    BY <1>1, <1>2

(* A job that ends leaves nothing to say of it. *)
LEMMA EndsInv ==
  ASSUME BackupsInv, NEW j \in All, work[j].pc \notin {"await", "record", "drop"}, Ends(j),
         UNCHANGED <<mirror, scratch, apps>>,
         written' \in 0..MaxArchives, store' \subseteq 1..written', deeds' \in 0..MaxDeeds
  PROVE  BackupsInv'
  <1>1. work' = [work EXCEPT ![j] = NoWork]
    BY DEF Ends, Becomes
  <1>2. j \in Workers => ScratchHolds(j, NoWork)
    BY BackupsTypes DEF ScratchHolds
  <1> QED
    BY <1>1, <1>2, PlainStep, RestingWork

(* It reads the archive back, and forms its verdict. *)
LEMMA ReadBackInv == ASSUME BackupsInv, NEW j \in All, ReadBack(j) PROVE BackupsInv'
  <1> DEFINE w == work[j]
  <1>0. WorkHolds(w) /\ w \in Work /\ w.pc = "act" /\ w.kind \in {"verify", "sweep"} /\ j # "sync"
        /\ (j \in Workers => scratch[j] # "there")
    BY DEF BackupsInv, WorkHolds, ReadBack, ScratchHolds, OnlySyncs
  <1>1. CASE w.file \in store /\ NoDeed
             /\ Becomes(j, [w EXCEPT !.verdict = IF w.file \in Rotten THEN "failed" ELSE "ok", !.pc = "record"])
    <2> DEFINE verdict == IF w.file \in Rotten THEN "failed" ELSE "ok"
               v == [w EXCEPT !.verdict = verdict, !.pc = "record"]
    <2>1. work' = [work EXCEPT ![j] = v]
      BY <1>1 DEF Becomes
    <2>2. v \in Work /\ v.kind = w.kind /\ v.id = w.id /\ v.lost = w.lost /\ v.asked = w.asked
          /\ v.file = w.file /\ v.pc = "record" /\ v.verdict = verdict
      BY <1>0 DEF Work
    <2> HIDE DEF v
    <2>3. WorkHolds(v) /\ (j \in Workers => ScratchHolds(j, v))
      BY <1>0, <2>2 DEF WorkHolds, ScratchHolds
    <2> QED
      BY <1>0, <1>1, <2>1, <2>3, PlainStep, BackupsTypes DEF ReadBack, NoDeed
  <1>2. CASE (Deed \/ NoDeed) /\ Ends(j)
    BY <1>0, <1>2, EndsInv, BackupsTypes DEF ReadBack, NoDeed
  <1> QED
    BY <1>1, <1>2 DEF ReadBack

(* A verdict is recorded: rows keep their archives. *)
LEMMA RecordInv == ASSUME BackupsInv, NEW j \in All, Record(j) PROVE BackupsInv'
  <1> DEFINE w == work[j]
             pc == IF w.kind = "test" THEN "drop" ELSE "after"
             v == IF w.kind \in {"test", "sweep"} THEN [w EXCEPT !.pc = pc] ELSE NoWork
  <1>0. WorkHolds(w) /\ w \in Work /\ w.pc = "record" /\ j # "sync" /\ w.verdict \in {"none", "ok", "failed"}
    BY DEF BackupsInv, WorkHolds, Record, OnlySyncs, Work
  <1>1. /\ DOMAIN mirror' = DOMAIN mirror
        /\ \A i \in DOMAIN mirror : mirror'[i].file = mirror[i].file /\ mirror'[i] \in Row
    BY <1>0 DEF Record, BackupsInv, Row
  <1>2. work' = [work EXCEPT ![j] = v]
    BY DEF Record, Proceeds, Ends, Becomes
  <1>3. v \in Work /\ WorkHolds(v) /\ (j \in Workers => ScratchHolds(j, v))
    <2>1. CASE w.kind \in {"test", "sweep"}
      <3>1. v \in Work /\ v.kind = w.kind /\ v.id = w.id /\ v.lost = w.lost /\ v.asked = w.asked
            /\ v.file = w.file /\ v.pc = pc
        BY <1>0, <2>1 DEF Work
      <3>2. scratch[j] = "there" /\ j \in Workers => w.kind = "test"
        BY BackupsTypes DEF ScratchHolds
      <3> HIDE DEF v
      <3> QED
        BY <1>0, <2>1, <3>1, <3>2 DEF WorkHolds, ScratchHolds
    <2>2. CASE w.kind \notin {"test", "sweep"}
      <3>1. v = NoWork
        BY <2>2
      <3>2. j \in Workers => scratch[j] # "there"
        BY <2>2, BackupsTypes DEF ScratchHolds
      <3> QED
        BY <3>1, <3>2, RestingWork DEF WorkHolds, ScratchHolds
    <2> QED
      BY <2>1, <2>2
  <1> HIDE DEF v
  <1>4. work' = [k \in All |-> IF k = j THEN v ELSE work[k]]
    BY <1>2 DEF BackupsInv
  <1>5. \A k \in All : WorkHolds(work[k])'
    <2> SUFFICES ASSUME NEW k \in All PROVE WorkHolds(work[k])'
      OBVIOUS
    <2>1. work'[k] = v \/ work'[k] = work[k]
      BY <1>4
    <2>2. WorkHolds(v) /\ WorkHolds(work[k])
      BY <1>3 DEF BackupsInv
    <2> QED
      BY <1>1, <2>1, <2>2 DEF WorkHolds
  <1>6. OnlySyncs(work["sync"])'
    BY <1>0, <1>4 DEF BackupsInv, OnlySyncs, All
  <1>7. \A k \in Workers : ScratchHolds(k, work[k])'
    BY <1>3, <1>4 DEF BackupsInv, ScratchHolds, Record, All
  <1>8. \E n \in Nat : DOMAIN mirror' \subseteq 1..n
    BY <1>1 DEF BackupsInv
  <1>9. work' = [k \in All |-> work'[k]]
    BY <1>4
  <1> QED
    BY <1>1, <1>5, <1>6, <1>7, <1>8, <1>9 DEF BackupsInv, Record

(* A sweep goes on to its next row. *)
LEMMA SweepNextInv == ASSUME BackupsInv, NEW j \in All, SweepNext(j) PROVE BackupsInv'
  <1> DEFINE w == work[j]
             i == Min(w.todo)
             v == [w EXCEPT !.todo = w.todo \ {i}, !.id = i, !.asked = mirror[i].file,
                            !.file = mirror[i].file, !.lost = FALSE, !.pc = "act"]
  <1>0. WorkHolds(w) /\ w \in Work /\ w.kind = "sweep" /\ w.pc = "after" /\ j # "sync"
        /\ (j \in Workers => scratch[j] # "there")
    BY DEF BackupsInv, WorkHolds, SweepNext, ScratchHolds, OnlySyncs
  <1>1. CASE w.todo = {} \/ i \notin DOMAIN mirror
    <2>1. Ends(j)
      BY <1>1 DEF SweepNext
    <2> QED
      BY <1>0, <2>1, EndsInv, BackupsTypes DEF SweepNext
  <1>2. CASE ~(w.todo = {} \/ i \notin DOMAIN mirror)
    <2>1. Becomes(j, [w EXCEPT !.todo = @ \ {i}, !.id = i, !.asked = mirror[i].file,
                               !.file = mirror[i].file, !.lost = FALSE, !.pc = "act"])
      BY <1>2 DEF SweepNext
    <2> DEFINE m == i
    <2>2. m \in RowIds /\ mirror[m].file \in Files /\ m \in DOMAIN mirror
      BY <1>2, BackupsTypes
    <2>3. w.todo \ {m} \in SUBSET RowIds
      BY <1>0 DEF Work
    <2>4. work' = [work EXCEPT ![j] = v]
      BY <2>1 DEF Becomes
    <2> HIDE DEF i
    <2>5. v \in Work /\ v.kind = "sweep" /\ v.id = i /\ ~v.lost /\ v.asked = mirror[i].file
          /\ v.file = mirror[i].file /\ v.pc = "act"
      BY <1>0, <2>2, <2>3 DEF Work
    <2> HIDE DEF v
    <2>6. WorkHolds(v) /\ (j \in Workers => ScratchHolds(j, v))
      BY <1>0, <2>2, <2>5 DEF WorkHolds, ScratchHolds
    <2> QED
      BY <1>0, <2>4, <2>6, PlainStep, BackupsTypes DEF SweepNext
  <1> QED
    BY <1>1, <1>2

(* A job goes on to another place. *)
LEMMA MovedHolds ==
  ASSUME NEW w, WorkHolds(w), w.pc # "queued",
         NEW pc \in {"await", "drop", "list", "after"}
  PROVE  /\ WorkHolds([w EXCEPT !.pc = pc])
         /\ [w EXCEPT !.pc = pc].pc = pc /\ [w EXCEPT !.pc = pc].kind = w.kind
  <1> DEFINE v == [w EXCEPT !.pc = pc]
  <1>0. w \in Work
    BY DEF WorkHolds
  <1>1. v \in Work /\ v.kind = w.kind /\ v.id = w.id /\ v.lost = w.lost /\ v.asked = w.asked
        /\ v.file = w.file /\ v.pc = pc
    BY <1>0 DEF Work
  <1> HIDE DEF v
  <1>2. WorkHolds(v)
    BY <1>1 DEF WorkHolds
  <1> QED
    BY <1>1, <1>2 DEF v

(* The node writes, deletes or restores an archive. *)
LEMMA RunTaskInv == ASSUME BackupsInv, NEW j \in All, RunTask(j) PROVE BackupsInv'
  <1> DEFINE w == work[j]
             v == [w EXCEPT !.pc = "list"]
  <1>0. WorkHolds(w) /\ w.pc = "act" /\ j # "sync" /\ (j \in Workers => scratch[j] # "there")
    BY DEF BackupsInv, RunTask, ScratchHolds, OnlySyncs
  <1>1. written' \in 0..MaxArchives /\ store' \subseteq 1..written' /\ deeds' \in 0..MaxDeeds
    BY BackupsTypes DEF RunTask, NoDeed
  <1>2. CASE Proceeds(j, "list")
    <2>1. work' = [work EXCEPT ![j] = v]
      BY <1>2 DEF Proceeds
    <2>2. WorkHolds(v)
      BY <1>0, MovedHolds
    <2> HIDE DEF v
    <2> QED
      BY <1>0, <1>1, <2>1, <2>2, PlainStep DEF RunTask, ScratchHolds
  <1>3. CASE Ends(j)
    BY <1>0, <1>1, <1>3, EndsInv DEF RunTask
  <1> QED
    BY <1>2, <1>3 DEF RunTask

(* A restored guest is filed under the name its row gives. *)
LEMMA AdoptInv == ASSUME BackupsInv, NEW j \in All, Adopt(j) PROVE BackupsInv'
  <1> DEFINE w == work[j]
             new == [from |-> w.file, named |-> mirror[w.id].file, lost |-> w.lost]
  <1>0. WorkHolds(w) /\ w \in Work /\ w.pc = "after" /\ w.kind = "restore" /\ j # "sync"
        /\ (j \in Workers => scratch[j] # "there")
    BY DEF BackupsInv, Adopt, WorkHolds, ScratchHolds, OnlySyncs
  <1>1. work' = [work EXCEPT ![j] = NoWork]
    BY DEF Adopt, Ends, Becomes
  <1>2. CASE apps' = apps
    BY <1>0, <1>1, <1>2, PlainStep, RestingWork, BackupsTypes DEF Adopt, ScratchHolds
  <1>3. CASE w.id \in DOMAIN mirror /\ apps' = apps \cup {new}
    <2>1. w.file \in Files /\ w.file # 0 /\ w.lost \in BOOLEAN /\ w.id # 0
      BY <1>0 DEF WorkHolds, Work
    <2>2. mirror[w.id].file \in Files
      BY <1>3, BackupsTypes
    <2>3. ~w.lost => w.file = mirror[w.id].file
      BY <1>0, <2>1 DEF WorkHolds
    <2>4. new \in [from : Files, named : Files, lost : BOOLEAN] /\ (new.from = new.named \/ new.lost)
      BY <2>1, <2>2, <2>3
    <2> HIDE DEF new
    <2>5. /\ apps' \subseteq [from : Files, named : Files, lost : BOOLEAN]
          /\ \A a \in apps' : a.from = a.named \/ a.lost
      BY <1>3, <2>4 DEF BackupsInv
    <2>6. scratch' \in [Workers -> {"none", "there", "told", "stray"}] /\ scratch' = scratch
      BY DEF Adopt, BackupsInv
    <2>7. j \in Workers => scratch'[j] # "there"
      BY <1>0, <2>6
    <2>8. UNCHANGED <<mirror, written, store, deeds>>
      BY DEF Adopt
    <2> QED
      BY <1>1, <2>5, <2>6, <2>7, <2>8, JobStep, RestingWork, BackupsTypes
  <1> QED
    BY <1>2, <1>3 DEF Adopt

(* A run is followed by a check of the newest archive. *)
LEMMA QueueChecksInv == ASSUME BackupsInv, NEW j \in All, QueueChecks(j) PROVE BackupsInv'
  <1> DEFINE newest == {i \in DOMAIN mirror : \A k \in DOMAIN mirror : mirror[k].file <= mirror[i].file}
  <1>0. work[j].pc = "after" /\ j # "sync" /\ (j \in Workers => scratch[j] # "there")
    BY DEF BackupsInv, QueueChecks, ScratchHolds, OnlySyncs
  <1>1. CASE newest = {}
    <2>1. Ends(j)
      BY <1>1 DEF QueueChecks
    <2> QED
      BY <1>0, <2>1, EndsInv, BackupsTypes DEF QueueChecks
  <1>2. CASE newest # {}
    <2>1. PICK i \in newest : Becomes(j, [NoWork EXCEPT !.kind = "verify", !.pc = "queued",
                                                       !.id = i, !.asked = mirror[i].file])
      BY <1>2 DEF QueueChecks
    <2> DEFINE w == [NoWork EXCEPT !.kind = "verify", !.pc = "queued", !.id = i, !.asked = mirror[i].file]
    <2>2. i \in RowIds /\ i \in DOMAIN mirror /\ mirror[i].file \in Files
      BY BackupsTypes
    <2>3. work' = [work EXCEPT ![j] = w]
      BY <2>1 DEF Becomes
    <2>4. w \in Work
      BY <2>2, RestingWork DEF WorkHolds, NoWork, Work, Checks
    <2>5. WorkHolds(w) /\ (j \in Workers => ScratchHolds(j, w))
      BY <1>0, <2>2, <2>4 DEF WorkHolds, ScratchHolds, NoWork, RowIds
    <2> HIDE DEF w
    <2> QED
      BY <1>0, <2>3, <2>5, PlainStep, BackupsTypes DEF QueueChecks
  <1> QED
    BY <1>1, <1>2

(* A step of a test restore: it may make or unmake its own guest. *)
LEMMA TestStep ==
  ASSUME BackupsInv, NEW j \in All, j # "sync", NEW w, work' = [work EXCEPT ![j] = w], WorkHolds(w),
         UNCHANGED <<mirror, apps, written>>, store' \subseteq store, deeds' \in 0..MaxDeeds,
         scratch' = scratch \/ \E s \in {"none", "there", "told", "stray"} : scratch' = [scratch EXCEPT ![j] = s],
         j \in Workers /\ scratch'[j] = "there" => w.kind = "test" /\ w.pc \in {"await", "record", "drop"}
  PROVE  BackupsInv'
  <1>1. /\ scratch' \in [Workers -> {"none", "there", "told", "stray"}]
        /\ \A k \in Workers \ {j} : scratch'[k] = scratch[k]
    BY DEF BackupsInv
  <1>2. written' \in 0..MaxArchives /\ store' \subseteq 1..written'
    BY BackupsTypes
  <1>3. /\ apps' \subseteq [from : Files, named : Files, lost : BOOLEAN]
        /\ \A a \in apps' : a.from = a.named \/ a.lost
    BY DEF BackupsInv
  <1> QED
    BY <1>1, <1>2, <1>3, JobStep

(* A test makes a throwaway guest, waits for it and destroys it. *)
LEMMA TestsInv ==
  ASSUME BackupsInv, NEW j \in All, TestPost(j) \/ TestAwait(j) \/ TestDrop(j)
  PROVE  BackupsInv'
  <1> DEFINE w == work[j]
  <1>0. WorkHolds(w) /\ w \in Work /\ w.pc \in {"post", "await", "drop"} /\ j # "sync"
        /\ deeds' \in 0..MaxDeeds /\ store \subseteq store /\ scratch \in [Workers -> {"none", "there", "told", "stray"}]
        /\ (j \in Workers => ScratchHolds(j, w))
    BY BackupsTypes DEF BackupsInv, WorkHolds, OnlySyncs, TestPost, TestAwait, TestDrop, NoDeed
  <1>1. CASE TestPost(j)
    <2>1. CASE scratch' = [scratch EXCEPT ![j] = "there"] /\ Proceeds(j, "await")
      <3> DEFINE v == [w EXCEPT !.pc = "await"]
      <3>1. work' = [work EXCEPT ![j] = v]
        BY <2>1 DEF Proceeds
      <3>2. WorkHolds(v) /\ v.kind = "test" /\ v.pc = "await"
        BY <1>0, <1>1, MovedHolds DEF TestPost
      <3> HIDE DEF v
      <3> QED
        BY <1>0, <1>1, <2>1, <3>1, <3>2, TestStep DEF TestPost
    <2>2. CASE UNCHANGED scratch /\ Ends(j)
      <3>1. work' = [work EXCEPT ![j] = NoWork]
        BY <2>2 DEF Ends, Becomes
      <3>2. j \in Workers => scratch[j] # "there"
        BY <1>0, <1>1 DEF ScratchHolds, TestPost
      <3> QED
        BY <1>0, <1>1, <2>2, <3>1, <3>2, RestingWork, TestStep DEF TestPost
    <2> QED
      BY <1>1, <2>1, <2>2 DEF TestPost
  <1>2. CASE TestAwait(j)
    <2>1. PICK verdict \in {"ok", "failed"} :
            /\ verdict = "ok" => w.file \notin Rotten
            /\ \/ work' = [work EXCEPT ![j] = [w EXCEPT !.verdict = verdict, !.pc = "record"]]
               \/ work' = [work EXCEPT ![j] = [w EXCEPT !.verdict = verdict, !.sound = FALSE, !.pc = "record"]]
      <3>1. CASE w.file \in store \ Rotten /\ Becomes(j, [w EXCEPT !.verdict = "ok", !.pc = "record"])
        BY <3>1 DEF Becomes
      <3>2. CASE Becomes(j, [w EXCEPT !.verdict = "failed", !.pc = AfterTest])
        BY <3>2 DEF AfterTest, Becomes
      <3>3. CASE Becomes(j, [w EXCEPT !.verdict = "failed", !.sound = FALSE, !.pc = AfterTest])
        BY <3>3 DEF AfterTest, Becomes
      <3> QED
        BY <1>2, <3>1, <3>2, <3>3 DEF TestAwait
    <2>v. PICK v :
            /\ work' = [work EXCEPT ![j] = v]
            /\ \/ v = [w EXCEPT !.verdict = verdict, !.pc = "record"]
               \/ v = [w EXCEPT !.verdict = verdict, !.sound = FALSE, !.pc = "record"]
      BY <2>1
    <2>2. work' = [work EXCEPT ![j] = v]
      BY <2>v
    <2>3. v \in Work /\ v.kind = w.kind /\ v.id = w.id /\ v.lost = w.lost /\ v.asked = w.asked
          /\ v.file = w.file /\ v.pc = "record" /\ v.verdict = verdict
      <3>0. w \in Work
        BY <1>0
      <3>1. CASE v = [w EXCEPT !.verdict = verdict, !.pc = "record"]
        <4>1. v \in Work
          BY <3>0, <3>1 DEF Work
        <4> QED
          BY <3>0, <3>1, <4>1 DEF Work
      <3>2. CASE v = [w EXCEPT !.verdict = verdict, !.sound = FALSE, !.pc = "record"]
        <4>1. v \in Work
          BY <3>0, <3>2 DEF Work
        <4> QED
          BY <3>0, <3>2, <4>1 DEF Work
      <3> QED
        BY <2>v, <3>1, <3>2
    <2>4. WorkHolds(v) /\ v.kind = "test"
      BY <1>0, <1>2, <2>1, <2>3 DEF WorkHolds, TestAwait
    <2> QED
      BY <1>0, <1>2, <2>2, <2>3, <2>4, TestStep DEF TestAwait
  <1>3. CASE TestDrop(j)
    <2>1. work' = [work EXCEPT ![j] = NoWork]
      BY <1>3 DEF TestDrop, Ends, Becomes
    <2>2. PICK s \in {"none", "told"} : scratch' = [scratch EXCEPT ![j] = s]
      BY <1>3 DEF TestDrop
    <2>3. j \in Workers => scratch'[j] = s
      BY <1>0, <2>2
    <2> QED
      BY <1>0, <1>3, <2>1, <2>2, <2>3, RestingWork, TestStep DEF TestDrop
  <1> QED
    BY <1>1, <1>2, <1>3

(* A job is canceled, wherever it is. *)
LEMMA CancelInv == ASSUME BackupsInv, NEW j \in All, CancelWork(j) PROVE BackupsInv'
  <1> DEFINE w == work[j]
             typed == \E s \in {"none", "there", "told", "stray"} : scratch' = [scratch EXCEPT ![j] = s]
  <1>0. WorkHolds(w) /\ w \in Work /\ w.pc \notin {"idle", "record"} /\ (j = "sync" => OnlySyncs(w))
        /\ deeds' \in 0..MaxDeeds /\ store' \subseteq store /\ UNCHANGED <<written, mirror, apps>>
        /\ scratch \in [Workers -> {"none", "there", "told", "stray"}]
        /\ (j \in Workers => ScratchHolds(j, w))
    BY BackupsTypes DEF BackupsInv, WorkHolds, CancelWork
  <1>1. scratch' = scratch \/ scratch' = [scratch EXCEPT ![j] = "stray"] \/ scratch' = [scratch EXCEPT ![j] = "none"]
    BY DEF CancelWork
  <1>2. j \in Workers => scratch'[j] \in {scratch[j], "stray", "none"}
    BY <1>0, <1>1
  <1>3. CASE w.pc \in {"list", "merge"}
    <2> DEFINE v == [w EXCEPT !.kind = "sync", !.chain = FALSE]
    <2>1. work' = [work EXCEPT ![j] = v]
      BY <1>3 DEF CancelWork, Becomes
    <2>2. v \in Work /\ v.kind = "sync" /\ v.id = w.id /\ v.lost = w.lost /\ v.asked = w.asked
          /\ v.file = w.file /\ v.pc = w.pc /\ ~v.chain
      BY <1>0 DEF Work
    <2> HIDE DEF v
    <2>3. WorkHolds(v) /\ (j = "sync" => OnlySyncs(v))
      BY <1>0, <1>3, <2>2 DEF WorkHolds, OnlySyncs
    <2>4. j \in Workers => scratch'[j] # "there"
      BY <1>0, <1>2, <1>3 DEF ScratchHolds
    <2>5. j = "sync" => scratch' = scratch
      BY <1>0, <1>1, BackupsAssumption
    <2>6. /\ scratch' \in [Workers -> {"none", "there", "told", "stray"}]
          /\ \A k \in Workers \ {j} : scratch'[k] = scratch[k]
      BY <1>0, <1>1
    <2>7. written' \in 0..MaxArchives /\ store' \subseteq 1..written'
      BY <1>0, BackupsTypes
    <2>8. /\ apps' \subseteq [from : Files, named : Files, lost : BOOLEAN]
          /\ \A a \in apps' : a.from = a.named \/ a.lost
      BY <1>0 DEF BackupsInv
    <2> QED
      BY <1>0, <2>1, <2>3, <2>4, <2>6, <2>7, <2>8, JobStep
  <1>4. CASE w.pc \notin {"list", "merge"}
    <2>0. j # "sync"
      BY <1>0, <1>4 DEF OnlySyncs
    <2>1. CASE w.pc = "await"
      <3> DEFINE v == [w EXCEPT !.verdict = "failed", !.sound = FALSE, !.pc = "record"]
      <3>1. work' = [work EXCEPT ![j] = v]
        BY <2>1 DEF CancelWork, Becomes, AfterTest
      <3>2. v \in Work /\ v.kind = w.kind /\ v.id = w.id /\ v.lost = w.lost /\ v.asked = w.asked
            /\ v.file = w.file /\ v.pc = "record" /\ v.verdict = "failed" /\ ~v.sound
        <4>0. w \in Work
          BY <1>0
        <4>1. v \in Work
          BY <4>0 DEF Work
        <4>2. v.kind = w.kind /\ v.id = w.id /\ v.lost = w.lost /\ v.asked = w.asked
          BY <4>0 DEF Work
        <4>3. v.file = w.file /\ v.pc = "record" /\ v.verdict = "failed" /\ ~v.sound
          BY <4>0 DEF Work
        <4> QED
          BY <4>1, <4>2, <4>3
      <3> HIDE DEF v
      <3>3. WorkHolds(v)
        BY <1>0, <2>1, <3>2 DEF WorkHolds
      <3>4. j \in Workers /\ scratch'[j] = "there" => v.kind = "test"
        BY <1>0, <1>2, <3>2 DEF ScratchHolds
      <3> QED
        BY <1>0, <1>1, <2>0, <3>1, <3>2, <3>3, <3>4, TestStep
    <2>2. CASE w.pc # "await"
      <3>1. work' = [work EXCEPT ![j] = NoWork]
        BY <1>4, <2>2 DEF CancelWork, Ends, Becomes
      <3>2. j \in Workers => scratch'[j] # "there"
        <4> SUFFICES ASSUME j \in Workers, scratch'[j] = "there" PROVE FALSE
          OBVIOUS
        <4>1. scratch[j] = "there"
          BY <1>2
        <4>2. w.pc = "drop"
          BY <1>0, <2>2, <4>1 DEF ScratchHolds
        <4>3. scratch' = [scratch EXCEPT ![j] = "stray"] \/ scratch' = [scratch EXCEPT ![j] = "none"]
          BY <1>1, <4>2 DEF CancelWork
        <4> QED
          BY <1>0, <4>3
      <3> QED
        BY <1>0, <1>1, <2>0, <3>1, <3>2, RestingWork, TestStep
    <2> QED
      BY <2>1, <2>2
  <1> QED
    BY <1>3, <1>4

(* Every step keeps the invariant. *)
LEMMA BackupsStep == BackupsInv /\ [BackupsNext]_backupVars => BackupsInv'
  BY OthersInv, BackupsRestartInv, AsksInv, ListInv, MergeInv, ResolveInv, ReadBackInv, RecordInv,
     SweepNextInv, RunTaskInv, AdoptInv, QueueChecksInv, TestsInv, CancelInv
     DEF BackupsNext, Steps

(* Backups: however listings, deletions, runs and checks interleave, a job that has *)
(* lost no row works on the archive it was asked about, a guest is filed under the  *)
(* archive it was restored from, and a throwaway guest belongs to a test that still *)
(* runs.                                                                            *)
THEOREM BackupsAreHonest == BackupsSpec => []BackupsHonest
  <1>1. BackupsInv => BackupsHonest
    <2> SUFFICES ASSUME BackupsInv PROVE BackupsHonest
      OBVIOUS
    <2>1. \A j \in All : work[j] \in Work
      BY DEF BackupsInv, WorkHolds
    <2>2. work \in [All -> Work]
      BY <2>1 DEF BackupsInv
    <2>3. BackupsTypeOK
      BY <2>2, BackupsTypes DEF BackupsInv, BackupsTypeOK, Row
    <2>4. \A j \in Workers : WorkHolds(work[j]) /\ ScratchHolds(j, work[j])
      BY BackupsTypes
    <2>5. 0 \notin DOMAIN mirror
      BY DEF BackupsInv
    <2> QED
      BY <2>3, <2>4, <2>5 DEF BackupsInv, BackupsHonest, WorkHolds, ScratchHolds
  <1> QED
    BY <1>1, BackupsInitInv, BackupsStep, PTL DEF BackupsSpec

(* A verdict stays with its row, comes from a check of that row, says "ok" only of what *)
(* reads back, and "failed" of what does not unless the wait was cut short.             *)
THEOREM VerdictsAreEarned == BackupsSpec => VerdictsEarned
  <1> DEFINE Earned ==
        \A i \in DOMAIN mirror \cap DOMAIN mirror' :
          mirror'[i].verdict # mirror[i].verdict =>
            \E j \in Workers :
              /\ work[j].pc = "record" /\ work[j].id = i /\ mirror'[i].verdict = work[j].verdict
              /\ work[j].verdict = "ok" => work[j].file \notin Rotten
              /\ work[j].verdict = "failed" /\ work[j].sound
                   => work[j].file \in Rotten \/ work[j].kind = "test"
  <1>1. BackupsInv /\ [BackupsNext]_backupVars => [Earned]_backupVars
    <2> SUFFICES ASSUME BackupsInv, BackupsNext
                 PROVE  Earned
      OBVIOUS
    <2>1. ASSUME NEW j \in All, Record(j) PROVE Earned
      <3>1. j \in Workers /\ WorkHolds(work[j]) /\ work[j].pc = "record"
        BY <2>1 DEF Record, BackupsInv, OnlySyncs, All
      <3>2. ASSUME NEW i \in DOMAIN mirror, mirror'[i].verdict # mirror[i].verdict
            PROVE  work[j].id = i /\ mirror'[i].verdict = work[j].verdict
        <4>1. mirror[i] \in Row
          BY DEF BackupsInv
        <4>2. mirror'[i] = IF i = work[j].id THEN [mirror[i] EXCEPT !.verdict = work[j].verdict] ELSE mirror[i]
          BY <2>1 DEF Record
        <4> QED
          BY <3>2, <4>1, <4>2 DEF Row
      <3> QED
        BY <3>1, <3>2 DEF WorkHolds
    <2>2. ASSUME NEW j \in All, Merge(j) PROVE Earned
      <3>1. work[j].listed \in SUBSET Files
        BY DEF BackupsInv, WorkHolds, Work
      <3>2. \A i \in DOMAIN mirror \cap DOMAIN mirror' : mirror'[i] = mirror[i]
        BY <2>2, <3>1, MergedIs DEF Merge
      <3> QED
        BY <3>2
    <2>3. CASE UNCHANGED mirror
      BY <2>3
    <2> HIDE DEF Earned
    <2> QED
      BY <2>1, <2>2, <2>3
         DEF BackupsNext, Steps, NewArchive, AskSync, BackupsRestart, Vanish, List, Resolve, ReadBack,
             SweepNext, RunTask, Adopt, QueueChecks, TestPost, TestAwait, TestDrop, CancelWork,
             AskRun, AskSweep, AskFor
  <1> QED
    BY <1>1, BackupsInitInv, BackupsStep, PTL DEF BackupsSpec, VerdictsEarned
-----------------------------------------------------------------------------
(***************************************************************************)
(* Migration (services/migrate.py).  Jobs that overlap share containers,   *)
(* ids and archives they do not know of each other's: the invariant says   *)
(* where a job may be with which task under way, whose guest is whose, and *)
(* that there is a newer dump for every job that is about to look for one. *)
(***************************************************************************)
Tasks == {"none", "stop", "dump", "migrate", "restore", "start"}
Sweeps == {"sweepSource", "sweepTarget"}
(* What may be under way for a job, where, and what it knows by then. *)
StageOk(k, p) ==
    /\ k.st \in {"none", "queued", "loaded", "listing", "health", "proven", "succeeded"} => p = "none"
    /\ k.st \in {"stop", "dump", "restore", "start"} => p \in {"none", k.st}
    /\ k.st = "copy" => site # "shared" /\ p \in {"none", "migrate"}
    /\ k.st \in Sweeps => /\ site = "transfer" /\ p \in {"none", "restore"}
                          /\ k.then = "start" => p = "none"
    /\ k.st \in {"dump", "listing", "restore"} \/ p \in {"dump", "restore"} => site # "cluster"
    /\ p = "migrate" => site = "cluster"
    /\ k.st \in Under \/ p # "none" => k.src.ctid # 0 /\ k.dst.ctid # 0
    /\ site = "cluster" => k.src.ctid = k.dst.ctid
    /\ k.st = "none" => k.src = Gone /\ k.dst = Gone /\ ~k.excused
    /\ k.st \in {"none", "queued"} => k.src.ctid = 0
    /\ k.st \in {"none", "queued", "loaded", "stop", "dump", "listing"} => k.vol = 0
    /\ k.st \in {"none", "queued", "loaded", "stop", "dump", "listing", "copy", "restore"} => k.then = "failed"
StagesKnown == \A m \in Migrations : StageOk(mig[m], pve[m])
RowKnown == appRow = Gone \/ appRow.ctid # 0

(* Each migration makes one container at most, so there is an id left. *)
SpentIs(k, p) ==
    /\ p # "restore"
    /\ k.st \in Sweeps \cup {"restore", "start", "health", "proven", "failed", "canceled", "succeeded"}
Spent == {m \in Migrations : SpentIs(mig[m], pve[m])}
FewGuests == IsFiniteSet(DOMAIN cts) /\ Cardinality(DOMAIN cts) <= 1 + Cardinality(Spent)
OneGuest == site = "cluster" => \E c \in DOMAIN cts : DOMAIN cts = {c}

(* A guest that was brought to its target is nobody else's, *)
ArrivedIs(k, p) ==
    \/ k.st \in {"start", "health", "proven"} \/ p = "start"
    \/ k.st \in Sweeps /\ k.then = "start"
    \/ k.st = "restore" /\ p = "none"
    \/ k.st = "copy" /\ site = "cluster" /\ p = "none"
Arrived(m) == ArrivedIs(mig[m], pve[m])
GuestsStay ==
    site # "cluster" =>
      /\ appRow = Gone \/ At(appRow) \in DOMAIN cts
      /\ \A x \in Migrations : mig[x].src.ctid # 0 => At(mig[x].src) \in DOMAIN cts
      /\ \A m \in Migrations : Arrived(m) => /\ appRow # mig[m].dst
                                             /\ \A x \in Migrations : mig[x].src # mig[m].dst
(* unless another job of a cluster set out from there. *)
ArrivedAlone ==
    \A m \in Migrations : Arrived(m) /\ ~TakenOn(mig[m].dst) =>
      /\ At(mig[m].dst) \in DOMAIN cts
      /\ \A x \in Migrations \ {m} : Arrived(x) => mig[x].dst # mig[m].dst
      /\ mig[m].st = "proven" => cts[At(mig[m].dst)] = "running"

(* A number is one dump's, of one job's one dump; it lies in two places only *)
(* when a job took it for its own.                                           *)
Chosen(n) == \E x \in Migrations : mig[x].vol = n
NotYetIs(k, p) == k.st \in {"none", "queued", "loaded", "stop"} \/ p = "dump"
ArchivesKnown ==
    /\ IsFiniteSet(archives)
    /\ \A m \in Migrations : mig[m].vol <= clock
    /\ \A a \in archives :
         /\ a.n > 0 /\ a.n <= clock
         /\ a.aside => a.by = "user" /\ ~Chosen(a.n)
         /\ a.by \in Migrations => ~NotYetIs(mig[a.by], pve[a.by])
         /\ \A b \in archives :
              /\ a.n = b.n => /\ a.by = b.by /\ a.ctid = b.ctid /\ a.aside = b.aside
                              /\ a.at = b.at \/ Chosen(a.n)
              /\ a.by = b.by /\ a.by # "user" => a.n = b.n
(* For each job that is about to look, a dump later than any set aside. *)
WaitsIs(k, p, s, c) ==
    /\ Staging(k.src.host) = s /\ k.src.ctid = c
    /\ k.st = "listing" \/ (k.st = "dump" /\ p = "none")
Waiting(s, c) == {m \in Migrations : WaitsIs(mig[m], pve[m], s, c)}
Fresh(a) == {b \in archives : b.at = a.at /\ b.ctid = a.ctid /\ b.n > a.n /\ ~Chosen(b.n)}
AsideSafe == \A a \in archives : a.aside => Cardinality(Waiting(a.at, a.ctid)) <= Cardinality(Fresh(a))
(* A transfer that nothing kept from it knows where its dump lies. *)
OwnAt(k, a) ==
    \/ k.st \in {"dump", "listing"} /\ a.at = k.src.host /\ a.ctid = k.src.ctid
    \/ /\ k.st \in {"copy", "restore", "sweepSource"}
       /\ a.n = k.vol /\ a.at \in {k.src.host, k.dst.host}
    \/ k.st = "sweepTarget" /\ a.n = k.vol /\ a.at = k.dst.host
OwnKnown ==
    site = "transfer" =>
      \A m \in Migrations : ~mig[m].excused =>
        /\ pve[m] = "dump" => mig[m].st = "dump"
        /\ \A a \in archives : a.by = m =>
             /\ OwnAt(mig[m], a)
             /\ \A x \in Migrations \ {m} : mig[x].st = "copy" => a.n # mig[x].vol
MigrateInv ==
    /\ MigrateTypeOK /\ StagesKnown /\ RowKnown /\ FewGuests /\ OneGuest /\ GuestsStay /\ ArrivedAlone
    /\ ArchivesKnown /\ AsideSafe /\ OwnKnown

(* What the types say of a job. *)
LEMMA MigTypes ==
  ASSUME MigrateTypeOK, NEW m \in Migrations
  PROVE  /\ mig[m] \in Mig /\ pve[m] \in Tasks /\ mig \in [Migrations -> Mig]
         /\ mig[m].st \in Under \cup {"none", "queued", "failed", "canceled", "succeeded"}
         /\ mig[m].src.ctid \in Ctids \cup {0} /\ mig[m].dst.ctid \in Ctids \cup {0}
         /\ mig[m].src.host \in HostSet /\ mig[m].dst.host \in HostSet
         /\ mig[m].to \in HostSet /\ mig[m].vol \in Nat /\ mig[m].excused \in BOOLEAN
         /\ mig[m].then \in {"failed", "start"}
  <1>1. mig[m] \in Mig /\ pve[m] \in Tasks /\ mig \in [Migrations -> Mig]
    BY DEF MigrateTypeOK, Tasks
  <1> QED
    BY <1>1 DEF Mig

(* Numbers of containers. *)
LEMMA CtidsAre == Ctids \subseteq Nat \ {0} /\ Cardinality(Migrations) \in Nat
  BY SiteAssumption, FS_CardinalityType DEF Ctids

(* The record a job begins with. *)
LEMMA NoMigIs ==
  /\ NoMig \in Mig /\ Gone \in [host : HostSet, ctid : Ctids \cup {0}] /\ Gone.ctid = 0
  /\ NoMig.st = "none" /\ NoMig.src = Gone /\ NoMig.dst = Gone /\ NoMig.vol = 0 /\ ~NoMig.excused
  /\ NoMig.then = "failed"
  <1>1. Gone \in [host : HostSet, ctid : Ctids \cup {0}] /\ Gone.ctid = 0
    BY SiteAssumption DEF Gone
  <1>2. /\ NoMig.st = "none" /\ NoMig.src = Gone /\ NoMig.dst = Gone /\ NoMig.vol = 0 /\ ~NoMig.excused
        /\ NoMig.to = Home /\ NoMig.truncated = FALSE /\ NoMig.then = "failed"
    BY DEF NoMig
  <1>3. NoMig \in Mig
    BY <1>1, SiteAssumption DEF NoMig, Mig, Under
  <1> QED
    BY <1>1, <1>2, <1>3

(* One container, no job, no dump. *)
LEMMA MigrateInitInv == MigrateInit => MigrateInv
  <1> SUFFICES ASSUME MigrateInit PROVE MigrateInv
    OBVIOUS
  <1>1. /\ site \in Sites /\ appRow = [host |-> Home, ctid |-> 1]
        /\ archives = {} /\ clock = 0 /\ trouble = 0
        /\ \A m \in Migrations : mig[m] = NoMig /\ pve[m] = "none"
    BY DEF MigrateInit
  <1>2. PICK s \in {"running", "stopped"} : cts = [c \in {<<Home, 1>>} |-> s]
    BY DEF MigrateInit
  <1>3. DOMAIN cts = {<<Home, 1>>} /\ cts[<<Home, 1>>] = s
    BY <1>2
  <1>4. 1 \in Ctids /\ Home \in HostSet /\ MaxTrouble \in Nat
    BY CtidsAre, SiteAssumption DEF Ctids
  <1>5. MigrateTypeOK
    <2>1. appRow \in [host : HostSet, ctid : Ctids \cup {0}]
      BY <1>1, <1>4
    <2>2. mig \in [Migrations -> Mig] /\ pve \in [Migrations -> Tasks]
      BY <1>1, NoMigIs DEF MigrateInit, Tasks
    <2> QED
      BY <1>1, <1>3, <1>4, <2>1, <2>2 DEF MigrateTypeOK, Tasks
  <1>6. StagesKnown /\ RowKnown
    BY <1>1, NoMigIs DEF StagesKnown, StageOk, RowKnown, Sweeps, Under
  <1>7. FewGuests /\ OneGuest
    <2>1. Spent = {}
      BY <1>1, NoMigIs DEF Spent, SpentIs, Sweeps
    <2>2. Cardinality(Spent) = 0
      BY <2>1, FS_EmptySet
    <2>3. IsFiniteSet(DOMAIN cts) /\ Cardinality(DOMAIN cts) = 1
      BY <1>3, FS_Singleton
    <2> QED
      BY <1>3, <2>2, <2>3 DEF FewGuests, OneGuest
  <1>8. GuestsStay /\ ArrivedAlone
    <2>1. \A m \in Migrations : ~Arrived(m)
      BY <1>1, NoMigIs DEF Arrived, ArrivedIs, Sweeps
    <2>2. At(appRow) \in DOMAIN cts
      BY <1>1, <1>3 DEF At
    <2> QED
      BY <1>1, <2>1, <2>2, NoMigIs DEF GuestsStay, ArrivedAlone
  <1>9. ArchivesKnown /\ AsideSafe /\ OwnKnown
    BY <1>1, NoMigIs, FS_EmptySet DEF ArchivesKnown, AsideSafe, OwnKnown
  <1> QED
    BY <1>5, <1>6, <1>7, <1>8, <1>9 DEF MigrateInv

(* A part of what is fewer is fewer than a whole that contains it. *)
LEMMA Smaller ==
  ASSUME NEW S, NEW T, NEW U, NEW V, IsFiniteSet(T), IsFiniteSet(V),
         S \subseteq T, U \subseteq V, Cardinality(T) <= Cardinality(U)
  PROVE  Cardinality(S) <= Cardinality(V)
  <1>1. /\ IsFiniteSet(S) /\ IsFiniteSet(U)
        /\ Cardinality(S) <= Cardinality(T) /\ Cardinality(U) <= Cardinality(V)
    BY FS_Subset
  <1>2. /\ Cardinality(S) \in Nat /\ Cardinality(T) \in Nat
        /\ Cardinality(U) \in Nat /\ Cardinality(V) \in Nat
    BY <1>1, FS_CardinalityType
  <1> QED
    BY <1>1, <1>2

(* A step of one job that goes from one place to the next: what is not said of *)
(* the place it comes to was said of the one it comes from.  It may copy or    *)
(* delete the dump it took.                                                    *)
LEMMA MovesInv ==
  ASSUME MigrateInv, NEW m \in Migrations, NEW k \in Mig, NEW p \in Tasks,
         mig' = [mig EXCEPT ![m] = k], pve' = [pve EXCEPT ![m] = p],
         UNCHANGED <<site, cts, clock>>,
         appRow' = appRow \/ (mig[m].st = "proven" /\ k.st = "succeeded" /\ appRow' = mig[m].dst),
         trouble' \in 0..MaxTrouble, archives' \subseteq Archive, IsFiniteSet(archives'),
         k.src = mig[m].src, k.dst = mig[m].dst, k.vol = mig[m].vol, mig[m].excused => k.excused,
         StageOk(k, p),
         SpentIs(mig[m], pve[m]) => SpentIs(k, p),
         ArrivedIs(k, p) => Arrived(m),
         k.st = "proven" => SeenRunning(m),
         NotYetIs(k, p) => NotYetIs(mig[m], pve[m]),
         \A s, c : WaitsIs(k, p, s, c) => WaitsIs(mig[m], pve[m], s, c),
         k.st = "copy" => mig[m].st = "copy" \/ site # "transfer",
         \A b \in archives' :
           b \in archives \/ /\ mig[m].st = "copy" /\ b.n = mig[m].vol
                             /\ \E a \in archives : /\ a.n = b.n /\ a.by = b.by
                                                    /\ a.ctid = b.ctid /\ a.aside = b.aside,
         \A a \in archives : a.n # mig[m].vol => a \in archives',
         site = "transfer" /\ ~k.excused =>
           (p = "dump" => k.st = "dump") /\ \A a \in archives' : a.by = m => OwnAt(k, a)
  PROVE  MigrateInv'
  <1>0. /\ MigrateTypeOK /\ StagesKnown /\ RowKnown /\ FewGuests /\ OneGuest /\ GuestsStay /\ ArrivedAlone
        /\ ArchivesKnown /\ AsideSafe /\ OwnKnown
    BY DEF MigrateInv
  <1>1. /\ mig' \in [Migrations -> Mig] /\ pve' \in [Migrations -> Tasks]
        /\ mig'[m] = k /\ pve'[m] = p
        /\ \A x \in Migrations \ {m} : mig'[x] = mig[x] /\ pve'[x] = pve[x]
    BY <1>0 DEF MigrateTypeOK, Tasks
  <1>2. /\ site' = site /\ cts' = cts /\ clock' = clock
    OBVIOUS
  <1>3. \A x \in Migrations : mig'[x].src = mig[x].src /\ mig'[x].dst = mig[x].dst /\ mig'[x].vol = mig[x].vol
    BY <1>1
  <1>4. MigrateTypeOK'
    <2>1. mig[m].dst \in [host : HostSet, ctid : Ctids \cup {0}]
      BY <1>0, MigTypes DEF Mig
    <2> QED
      BY <1>0, <1>1, <1>2, <2>1 DEF MigrateTypeOK, Tasks
  <1>5. StagesKnown'
    <2>1. StageOk(mig[m], pve[m])'
      BY <1>1, <1>2 DEF StageOk
    <2>2. ASSUME NEW x \in Migrations \ {m} PROVE StageOk(mig[x], pve[x])'
      <3>1. StageOk(mig[x], pve[x]) /\ mig'[x] = mig[x] /\ pve'[x] = pve[x]
        BY <1>0, <1>1 DEF StagesKnown
      <3> QED
        BY <1>2, <3>1 DEF StageOk
    <2> QED
      BY <2>1, <2>2 DEF StagesKnown
  <1>6. RowKnown' /\ OneGuest'
    <2>1. mig[m].st = "proven" => mig[m].dst.ctid # 0
      BY <1>0 DEF StagesKnown, StageOk, Under
    <2> QED
      BY <1>0, <1>2, <2>1 DEF RowKnown, OneGuest, Gone
  <1>7. FewGuests'
    <2>1. Spent \subseteq Spent' /\ Spent' \subseteq Migrations
      BY <1>1 DEF Spent, SpentIs
    <2>2. IsFiniteSet(Spent')
      BY <2>1, SiteAssumption, FS_Subset
    <2>3. Cardinality(Spent) <= Cardinality(Spent') /\ IsFiniteSet(Spent)
      BY <2>1, <2>2, FS_Subset
    <2>4. Cardinality(Spent) \in Nat /\ Cardinality(Spent') \in Nat
      BY <2>2, <2>3, FS_CardinalityType
    <2>5. IsFiniteSet(DOMAIN cts) /\ Cardinality(DOMAIN cts) \in Nat /\ Cardinality(DOMAIN cts) <= 1 + Cardinality(Spent)
      BY <1>0, FS_CardinalityType DEF FewGuests
    <2>6. IsFiniteSet(DOMAIN cts') /\ Cardinality(DOMAIN cts') \in Nat /\ Cardinality(DOMAIN cts') <= 1 + Cardinality(Spent')
      BY <1>2, <2>3, <2>4, <2>5
    <2> QED
      BY <2>6 DEF FewGuests
  <1>8. \A x \in Migrations : Arrived(x)' => Arrived(x)
    <2>1. Arrived(m)' => Arrived(m)
      BY <1>1, <1>2 DEF Arrived, ArrivedIs
    <2>2. ASSUME NEW x \in Migrations \ {m} PROVE Arrived(x)' => Arrived(x)
      BY <1>1, <1>2, <2>2 DEF Arrived, ArrivedIs
    <2> QED
      BY <2>1, <2>2
  <1>9. GuestsStay'
    <2>1. \A x \in Migrations : mig'[x].src = mig[x].src /\ mig'[x].dst = mig[x].dst
      BY <1>3
    <2>2. ASSUME site # "cluster", mig[m].st = "proven", k.st = "succeeded"
          PROVE  /\ At(mig[m].dst) \in DOMAIN cts
                 /\ \A x \in Migrations : Arrived(x)' => mig[m].dst # mig[x].dst
      <3>1. Arrived(m) /\ ~TakenOn(mig[m].dst)
        BY <2>2 DEF Arrived, ArrivedIs, TakenOn
      <3>2. ~Arrived(m)'
        <4>1. p = "none"
          BY <2>2 DEF StageOk
        <4> QED
          BY <1>1, <1>2, <2>2, <4>1 DEF Arrived, ArrivedIs, Sweeps
      <3> QED
        BY <1>0, <1>8, <3>1, <3>2 DEF ArrivedAlone
    <2> QED
      BY <1>0, <1>2, <2>1, <1>8, <2>2 DEF GuestsStay, At, Gone
  <1>10. ArrivedAlone'
    <2>1. \A c : TakenOn(c)' = TakenOn(c)
      BY <1>2, <1>3 DEF TakenOn
    <2>2. \A x \in Migrations : mig'[x].st = "proven" => mig[x].st = "proven" \/ SeenRunning(x)
      BY <1>1
    <2> QED
      BY <1>0, <1>2, <1>3, <1>8, <2>1, <2>2 DEF ArrivedAlone, SeenRunning, At
  <1>11. \A n : Chosen(n)' = Chosen(n)
    BY <1>3 DEF Chosen
  <1>12. \A b \in archives' : \E a \in archives :
            /\ a.n = b.n /\ a.by = b.by /\ a.ctid = b.ctid /\ a.aside = b.aside
            /\ a = b \/ (mig[m].st = "copy" /\ b.n = mig[m].vol)
    OBVIOUS
  <1>13. \A x \in Migrations : NotYetIs(mig[x], pve[x])' => NotYetIs(mig[x], pve[x])
    <2>1. NotYetIs(mig[m], pve[m])' => NotYetIs(mig[m], pve[m])
      BY <1>1 DEF NotYetIs
    <2>2. ASSUME NEW x \in Migrations \ {m} PROVE NotYetIs(mig[x], pve[x])' => NotYetIs(mig[x], pve[x])
      BY <1>1, <2>2 DEF NotYetIs
    <2> QED
      BY <2>1, <2>2
  <1>14. ArchivesKnown'
    <2>1. \A x \in Migrations : mig'[x].vol <= clock'
      BY <1>0, <1>2, <1>3 DEF ArchivesKnown
    <2>2. Chosen(mig[m].vol)
      BY DEF Chosen
    <2>3. ASSUME NEW a \in archives'
          PROVE  /\ a.n > 0 /\ a.n <= clock'
                 /\ a.aside => a.by = "user" /\ ~Chosen(a.n)'
                 /\ a.by \in Migrations => ~NotYetIs(mig[a.by], pve[a.by])'
      <3>1. PICK o \in archives : o.n = a.n /\ o.by = a.by /\ o.aside = a.aside
        BY <1>12
      <3> QED
        BY <1>0, <1>2, <1>11, <1>13, <3>1 DEF ArchivesKnown
    <2>4. ASSUME NEW a \in archives', NEW b \in archives'
          PROVE  /\ a.n = b.n => /\ a.by = b.by /\ a.ctid = b.ctid /\ a.aside = b.aside
                                 /\ a.at = b.at \/ Chosen(a.n)'
                 /\ a.by = b.by /\ a.by # "user" => a.n = b.n
      <3>1. PICK o \in archives : /\ o.n = a.n /\ o.by = a.by /\ o.ctid = a.ctid /\ o.aside = a.aside
                                  /\ o = a \/ a.n = mig[m].vol
        BY <1>12
      <3>2. PICK q \in archives : /\ q.n = b.n /\ q.by = b.by /\ q.ctid = b.ctid /\ q.aside = b.aside
                                  /\ q = b \/ b.n = mig[m].vol
        BY <1>12
      <3>3. /\ o.n = q.n => /\ o.by = q.by /\ o.ctid = q.ctid /\ o.aside = q.aside
                            /\ o.at = q.at \/ Chosen(o.n)
            /\ o.by = q.by /\ o.by # "user" => o.n = q.n
        BY <1>0 DEF ArchivesKnown
      <3> QED
        BY <1>11, <2>2, <3>1, <3>2, <3>3
    <2> QED
      BY <2>1, <2>3, <2>4 DEF ArchivesKnown
  <1>15. AsideSafe'
    <2> SUFFICES ASSUME NEW a \in archives', a.aside
                 PROVE  Cardinality(Waiting(a.at, a.ctid)') <= Cardinality(Fresh(a)')
      BY DEF AsideSafe
    <2>1. a \in archives /\ ~Chosen(a.n)
      <3>1. PICK o \in archives : /\ o.n = a.n /\ o.aside = a.aside /\ (o = a \/ a.n = mig[m].vol)
        BY <1>12
      <3>2. ~Chosen(a.n)
        BY <1>0, <3>1 DEF ArchivesKnown
      <3> QED
        BY <3>1, <3>2 DEF Chosen
    <2>2. Waiting(a.at, a.ctid)' \subseteq Waiting(a.at, a.ctid)
      <3>1. ASSUME NEW x \in Migrations, WaitsIs(mig'[x], pve'[x], a.at, a.ctid)
            PROVE  WaitsIs(mig[x], pve[x], a.at, a.ctid)
        BY <1>1, <3>1
      <3>2. ASSUME NEW x \in Migrations, WaitsIs(mig[x], pve[x], a.at, a.ctid)'
            PROVE  WaitsIs(mig'[x], pve'[x], a.at, a.ctid)
        BY <1>2, <3>2 DEF WaitsIs, Staging
      <3> QED
        BY <3>1, <3>2 DEF Waiting
    <2>3. Fresh(a) \subseteq Fresh(a)'
      <3> SUFFICES ASSUME NEW b \in Fresh(a) PROVE b \in Fresh(a)'
        OBVIOUS
      <3>1. b \in archives /\ ~Chosen(b.n) /\ b.at = a.at /\ b.ctid = a.ctid /\ b.n > a.n
        BY DEF Fresh
      <3>2. b.n # mig[m].vol
        BY <3>1 DEF Chosen
      <3> QED
        BY <1>11, <3>1, <3>2 DEF Fresh
    <2>4. IsFiniteSet(Fresh(a)') /\ IsFiniteSet(Waiting(a.at, a.ctid))
      <3>1. Fresh(a)' \subseteq archives' /\ Waiting(a.at, a.ctid) \subseteq Migrations
        BY DEF Fresh, Waiting
      <3> QED
        BY <3>1, SiteAssumption, FS_Subset
    <2>5. Cardinality(Waiting(a.at, a.ctid)) <= Cardinality(Fresh(a))
      BY <1>0, <2>1 DEF AsideSafe
    <2> QED
      BY <2>2, <2>3, <2>4, <2>5, Smaller
  <1>16. OwnKnown'
    <2> SUFFICES ASSUME site = "transfer", NEW x \in Migrations, ~mig'[x].excused
                 PROVE  /\ pve'[x] = "dump" => mig'[x].st = "dump"
                        /\ \A a \in archives' : a.by = x =>
                             /\ OwnAt(mig[x], a)'
                             /\ \A y \in Migrations \ {x} : mig'[y].st = "copy" => a.n # mig'[y].vol
      BY <1>2 DEF OwnKnown
    <2>1. ~mig[x].excused /\ \A y \in Migrations : mig'[y].st = "copy" => mig[y].st = "copy"
      BY <1>1
    <2>2. /\ pve[x] = "dump" => mig[x].st = "dump"
          /\ \A a \in archives : a.by = x =>
               /\ OwnAt(mig[x], a)
               /\ \A y \in Migrations \ {x} : mig[y].st = "copy" => a.n # mig[y].vol
      BY <1>0, <2>1 DEF OwnKnown
    <2>3. \A a \in archives' : a.by = x =>
             \A y \in Migrations \ {x} : mig'[y].st = "copy" => a.n # mig'[y].vol
      BY <1>3, <1>12, <2>1, <2>2
    <2>4. CASE x = m
      BY <1>1, <2>3, <2>4 DEF OwnAt
    <2>5. CASE x # m
      <3>1. mig'[x] = mig[x] /\ pve'[x] = pve[x]
        BY <1>1, <2>5
      <3>2. \A a \in archives' : a.by = x => a \in archives
        BY <1>12, <2>2, <2>5
      <3> QED
        BY <2>2, <2>3, <3>1, <3>2 DEF OwnAt
    <2> QED
      BY <2>4, <2>5
  <1> QED
    BY <1>4, <1>5, <1>6, <1>7, <1>9, <1>10, <1>14, <1>15, <1>16 DEF MigrateInv

(* Jobs of which the same is known are the same. *)
LEMMA SameJob ==
  ASSUME NEW d \in Mig, NEW k \in Mig,
         d.st = k.st, d.to = k.to, d.src = k.src, d.dst = k.dst, d.vol = k.vol,
         d.truncated = k.truncated, d.then = k.then, d.excused = k.excused
  PROVE  d = k
  BY DEF Mig

(* A step that leaves the dumps alone as well. *)
LEMMA PlainInv ==
  ASSUME MigrateInv, NEW m \in Migrations, NEW k \in Mig, NEW p \in Tasks,
         mig' = [mig EXCEPT ![m] = k], pve' = [pve EXCEPT ![m] = p],
         UNCHANGED <<site, cts, archives, clock>>, trouble' \in 0..MaxTrouble,
         appRow' = appRow \/ (mig[m].st = "proven" /\ k.st = "succeeded" /\ appRow' = mig[m].dst),
         k.src = mig[m].src, k.dst = mig[m].dst, k.vol = mig[m].vol, mig[m].excused => k.excused,
         StageOk(k, p),
         SpentIs(mig[m], pve[m]) => SpentIs(k, p),
         ArrivedIs(k, p) => Arrived(m),
         k.st = "proven" => SeenRunning(m),
         NotYetIs(k, p) => NotYetIs(mig[m], pve[m]),
         k.st = "listing" \/ (k.st = "dump" /\ p = "none") =>
           mig[m].st = "listing" \/ (mig[m].st = "dump" /\ pve[m] = "none"),
         k.st = "copy" => mig[m].st = "copy" \/ site # "transfer",
         site = "transfer" /\ ~k.excused =>
           /\ p = "dump" => k.st = "dump"
           /\ \A a \in archives : a.by = m /\ OwnAt(mig[m], a) => OwnAt(k, a)
  PROVE  MigrateInv'
  <1>1. /\ archives' = archives /\ archives \subseteq Archive /\ IsFiniteSet(archives)
        /\ site' = site /\ cts' = cts /\ clock' = clock
    BY DEF MigrateInv, MigrateTypeOK, ArchivesKnown
  <1>2. \A s, c : WaitsIs(k, p, s, c) => WaitsIs(mig[m], pve[m], s, c)
    BY DEF WaitsIs
  <1>3. site = "transfer" /\ ~k.excused =>
           (p = "dump" => k.st = "dump") /\ \A a \in archives' : a.by = m => OwnAt(k, a)
    <2> SUFFICES ASSUME site = "transfer", ~k.excused
                 PROVE  (p = "dump" => k.st = "dump") /\ \A a \in archives' : a.by = m => OwnAt(k, a)
      OBVIOUS
    <2>1. ~mig[m].excused
      OBVIOUS
    <2>2. \A a \in archives : a.by = m => OwnAt(mig[m], a)
      BY <2>1 DEF MigrateInv, OwnKnown
    <2> QED
      BY <1>1, <2>2
  <1>4. /\ \A b \in archives' : b \in archives
        /\ \A a \in archives : a \in archives'
    BY <1>1
  <1> HIDE DEF MigrateInv
  <1> QED
    BY <1>1, <1>2, <1>3, <1>4, MovesInv

(* What the invariant says of one job. *)
LEMMA MigHas ==
  ASSUME MigrateInv, NEW m \in Migrations
  PROVE  /\ MigrateTypeOK /\ StageOk(mig[m], pve[m]) /\ mig[m] \in Mig /\ pve[m] \in Tasks
         /\ pve \in [Migrations -> Tasks] /\ pve = [pve EXCEPT ![m] = pve[m]]
         /\ trouble \in 0..MaxTrouble /\ MaxTrouble \in Nat
         /\ mig[m].st \in Under \cup {"none", "queued", "failed", "canceled", "succeeded"}
         /\ mig[m].then \in {"failed", "start"} /\ mig[m].excused \in BOOLEAN
         /\ mig[m].truncated \in BOOLEAN /\ site \in {"cluster", "shared", "transfer"}
         /\ (Trouble \/ NoTrouble => trouble' \in 0..MaxTrouble)
  <1>1. MigrateTypeOK /\ StageOk(mig[m], pve[m])
    BY DEF MigrateInv, StagesKnown
  <1>2. /\ mig[m] \in Mig /\ pve[m] \in Tasks
        /\ mig[m].st \in Under \cup {"none", "queued", "failed", "canceled", "succeeded"}
        /\ mig[m].then \in {"failed", "start"} /\ mig[m].excused \in BOOLEAN
    BY <1>1, MigTypes
  <1>3. mig[m].truncated \in BOOLEAN
    BY <1>2 DEF Mig
  <1>4. pve \in [Migrations -> Tasks] /\ trouble \in 0..MaxTrouble /\ site \in Sites
    BY <1>1 DEF MigrateTypeOK, Tasks
  <1>5. pve = [pve EXCEPT ![m] = pve[m]]
    BY <1>4
  <1> QED
    BY <1>1, <1>2, <1>3, <1>4, <1>5, SiteAssumption DEF Trouble, NoTrouble

(* What a step writes of a job. *)
Stages == Under \cup {"none", "queued", "failed", "canceled", "succeeded"}
Sets(m, s) == mig' = [mig EXCEPT ![m].st = s]
SetsExcused(m, s, e) == mig' = [mig EXCEPT ![m].st = s, ![m].excused = e]
ExcusesSets(m, s, e) == mig' = [mig EXCEPT ![m].excused = e, ![m].st = s]
SetsThen(m, s, t) == mig' = [mig EXCEPT ![m].st = s, ![m].then = t]
SetsCut(m, s, u) == mig' = [mig EXCEPT ![m].st = s, ![m].truncated = u]
Takes(m, k, s, e, t) ==
    /\ mig' = [mig EXCEPT ![m] = k] /\ k.st = s /\ k.excused = e /\ k.then = t
    /\ k.src = mig[m].src /\ k.dst = mig[m].dst /\ k.vol = mig[m].vol

(* It goes to s, *)
LEMMA Goes ==
  ASSUME MigrateInv, NEW m \in Migrations, NEW s \in Stages,
         Sets(m, s)
  PROVE  \E k \in Mig : Takes(m, k, s, mig[m].excused, mig[m].then)
  <1> DEFINE j == mig[m]
             k == [st |-> s, to |-> j.to, src |-> j.src, dst |-> j.dst, vol |-> j.vol,
                   truncated |-> j.truncated, then |-> j.then, excused |-> j.excused]
             d == [j EXCEPT !.st = s]
  <1>1. j \in Mig /\ mig \in [Migrations -> Mig]
    BY MigTypes DEF MigrateInv
  <1>2. k \in Mig
    BY <1>1 DEF Mig, Stages
  <1>3. d \in Mig
    BY <1>1 DEF Mig, Stages
  <1>4. /\ d.st = k.st /\ d.to = k.to /\ d.src = k.src /\ d.dst = k.dst /\ d.vol = k.vol
        /\ d.truncated = k.truncated /\ d.then = k.then /\ d.excused = k.excused
    BY <1>1 DEF Mig, Stages
  <1>5. d = k
    BY <1>2, <1>3, <1>4, SameJob
  <1>6. mig' = [mig EXCEPT ![m] = d]
    BY <1>1 DEF Sets
  <1> QED
    BY <1>2, <1>5, <1>6 DEF Takes

(* maybe excused, *)
LEMMA GoesExcused ==
  ASSUME MigrateInv, NEW m \in Migrations, NEW s \in Stages, NEW e \in BOOLEAN,
         SetsExcused(m, s, e)
  PROVE  \E k \in Mig : Takes(m, k, s, e, mig[m].then)
  <1> DEFINE j == mig[m]
             k == [st |-> s, to |-> j.to, src |-> j.src, dst |-> j.dst, vol |-> j.vol,
                   truncated |-> j.truncated, then |-> j.then, excused |-> e]
             d == [j EXCEPT !.st = s, !.excused = e]
  <1>1. j \in Mig /\ mig \in [Migrations -> Mig]
    BY MigTypes DEF MigrateInv
  <1>2. k \in Mig
    BY <1>1 DEF Mig, Stages
  <1>3. d \in Mig
    BY <1>1 DEF Mig, Stages
  <1>4. /\ d.st = k.st /\ d.to = k.to /\ d.src = k.src /\ d.dst = k.dst /\ d.vol = k.vol
        /\ d.truncated = k.truncated /\ d.then = k.then /\ d.excused = k.excused
    BY <1>1 DEF Mig, Stages
  <1>5. d = k
    BY <1>2, <1>3, <1>4, SameJob
  <1>6. mig' = [mig EXCEPT ![m] = d]
    BY <1>1 DEF SetsExcused
  <1> QED
    BY <1>2, <1>5, <1>6 DEF Takes

(* or so; *)
LEMMA ExcusedGoes ==
  ASSUME MigrateInv, NEW m \in Migrations, NEW s \in Stages, NEW e \in BOOLEAN,
         ExcusesSets(m, s, e)
  PROVE  \E k \in Mig : Takes(m, k, s, e, mig[m].then)
  <1> DEFINE j == mig[m]
             k == [st |-> s, to |-> j.to, src |-> j.src, dst |-> j.dst, vol |-> j.vol,
                   truncated |-> j.truncated, then |-> j.then, excused |-> e]
             d == [j EXCEPT !.excused = e, !.st = s]
  <1>1. j \in Mig /\ mig \in [Migrations -> Mig]
    BY MigTypes DEF MigrateInv
  <1>2. k \in Mig
    BY <1>1 DEF Mig, Stages
  <1>3. d \in Mig
    BY <1>1 DEF Mig, Stages
  <1>4. /\ d.st = k.st /\ d.to = k.to /\ d.src = k.src /\ d.dst = k.dst /\ d.vol = k.vol
        /\ d.truncated = k.truncated /\ d.then = k.then /\ d.excused = k.excused
    BY <1>1 DEF Mig, Stages
  <1>5. d = k
    BY <1>2, <1>3, <1>4, SameJob
  <1>6. mig' = [mig EXCEPT ![m] = d]
    BY <1>1 DEF ExcusesSets
  <1> QED
    BY <1>2, <1>5, <1>6 DEF Takes

(* with what comes then, *)
LEMMA GoesThen ==
  ASSUME MigrateInv, NEW m \in Migrations, NEW s \in Stages, NEW t \in {"failed", "start"},
         SetsThen(m, s, t)
  PROVE  \E k \in Mig : Takes(m, k, s, mig[m].excused, t)
  <1> DEFINE j == mig[m]
             k == [st |-> s, to |-> j.to, src |-> j.src, dst |-> j.dst, vol |-> j.vol,
                   truncated |-> j.truncated, then |-> t, excused |-> j.excused]
             d == [j EXCEPT !.st = s, !.then = t]
  <1>1. j \in Mig /\ mig \in [Migrations -> Mig]
    BY MigTypes DEF MigrateInv
  <1>2. k \in Mig
    BY <1>1 DEF Mig, Stages
  <1>3. d \in Mig
    BY <1>1 DEF Mig, Stages
  <1>4. /\ d.st = k.st /\ d.to = k.to /\ d.src = k.src /\ d.dst = k.dst /\ d.vol = k.vol
        /\ d.truncated = k.truncated /\ d.then = k.then /\ d.excused = k.excused
    BY <1>1 DEF Mig, Stages
  <1>5. d = k
    BY <1>2, <1>3, <1>4, SameJob
  <1>6. mig' = [mig EXCEPT ![m] = d]
    BY <1>1 DEF SetsThen
  <1> QED
    BY <1>2, <1>5, <1>6 DEF Takes

(* or with its copy. *)
LEMMA GoesCut ==
  ASSUME MigrateInv, NEW m \in Migrations, NEW s \in Stages, NEW u \in BOOLEAN,
         SetsCut(m, s, u)
  PROVE  \E k \in Mig : Takes(m, k, s, mig[m].excused, mig[m].then)
  <1> DEFINE j == mig[m]
             k == [st |-> s, to |-> j.to, src |-> j.src, dst |-> j.dst, vol |-> j.vol,
                   truncated |-> u, then |-> j.then, excused |-> j.excused]
             d == [j EXCEPT !.st = s, !.truncated = u]
  <1>1. j \in Mig /\ mig \in [Migrations -> Mig]
    BY MigTypes DEF MigrateInv
  <1>2. k \in Mig
    BY <1>1 DEF Mig, Stages
  <1>3. d \in Mig
    BY <1>1 DEF Mig, Stages
  <1>4. /\ d.st = k.st /\ d.to = k.to /\ d.src = k.src /\ d.dst = k.dst /\ d.vol = k.vol
        /\ d.truncated = k.truncated /\ d.then = k.then /\ d.excused = k.excused
    BY <1>1 DEF Mig, Stages
  <1>5. d = k
    BY <1>2, <1>3, <1>4, SameJob
  <1>6. mig' = [mig EXCEPT ![m] = d]
    BY <1>1 DEF SetsCut
  <1> QED
    BY <1>2, <1>5, <1>6 DEF Takes

(* A job goes on to the next call, *)
LEMMA CallsInv ==
  ASSUME NEW m \in Migrations, MigrateInv,
         StopSource(m) \/ SourceStopped(m) \/ Dumped(m) \/ Restored(m) \/ Started(m)
  PROVE  MigrateInv'
  <1>0. UNCHANGED <<site, appRow, cts, archives, clock, trouble>> /\ trouble' \in 0..MaxTrouble
    BY MigHas DEF StopSource, SourceStopped, Dumped, Restored, Started
  <1> DEFINE e == mig[m].excused
             t == mig[m].then
  <1>1. CASE StopSource(m)
    <2>1. /\ mig[m].st = "loaded" /\ pve[m] = "none" /\ Sets(m, "stop")
          /\ (pve' = [pve EXCEPT ![m] = "stop"] \/ pve' = pve)
      BY <1>1, MigHas DEF StopSource, Go, Ask, StageOk, Sets
    <2>2. PICK k \in Mig : Takes(m, k, "stop", e, t)
      BY <2>1, Goes DEF Under, Stages
    <2>3. PICK p \in {"none", "stop"} : pve' = [pve EXCEPT ![m] = p]
      BY <2>1, MigHas
    <2>4. p \in Tasks /\ StageOk(k, p)
      BY <2>1, <2>2, <2>3, MigHas DEF StageOk, Under, Sweeps, Tasks, Takes
    <2> QED
      BY <1>0, <2>1, <2>2, <2>3, <2>4, PlainInv DEF SpentIs, ArrivedIs, NotYetIs, OwnAt, Sweeps, Takes
  <1>2. CASE SourceStopped(m) /\ site = "cluster"
    <2>1. /\ mig[m].st = "stop" /\ pve[m] = "none" /\ Sets(m, "copy")
          /\ pve' = [pve EXCEPT ![m] = "migrate"]
      BY <1>2, MigHas DEF SourceStopped, Go, Ask, Sets
    <2>2. PICK k \in Mig : Takes(m, k, "copy", e, t)
      BY <2>1, Goes DEF Under, Stages
    <2>3. "migrate" \in Tasks /\ StageOk(k, "migrate")
      BY <1>2, <2>1, <2>2, MigHas DEF StageOk, Under, Sweeps, Tasks, Takes
    <2> QED
      BY <1>0, <1>2, <2>1, <2>2, <2>3, PlainInv DEF SpentIs, ArrivedIs, NotYetIs, OwnAt, Sweeps, Takes
  <1>3. CASE SourceStopped(m) /\ site # "cluster"
    <2>1. /\ mig[m].st = "stop" /\ pve[m] = "none" /\ Sets(m, "dump")
          /\ pve' = [pve EXCEPT ![m] = "dump"]
      BY <1>3, MigHas DEF SourceStopped, Go, Ask, Sets
    <2>2. PICK k \in Mig : Takes(m, k, "dump", e, t)
      BY <2>1, Goes DEF Under, Stages
    <2>3. "dump" \in Tasks /\ StageOk(k, "dump")
      BY <1>3, <2>1, <2>2, MigHas DEF StageOk, Under, Sweeps, Tasks, Takes
    <2> QED
      BY <1>0, <2>1, <2>2, <2>3, PlainInv DEF SpentIs, ArrivedIs, NotYetIs, OwnAt, Sweeps, Takes
  <1>4. CASE Dumped(m)
    <2>1. /\ mig[m].st = "dump" /\ pve[m] = "none" /\ Sets(m, "listing")
          /\ pve' = [pve EXCEPT ![m] = "none"]
      BY <1>4, MigHas DEF Dumped, Go, Sets
    <2>2. PICK k \in Mig : Takes(m, k, "listing", e, t)
      BY <2>1, Goes DEF Under, Stages
    <2>3. "none" \in Tasks /\ StageOk(k, "none")
      BY <2>1, <2>2, MigHas DEF StageOk, Under, Sweeps, Tasks, Takes
    <2> QED
      BY <1>0, <2>1, <2>2, <2>3, PlainInv DEF SpentIs, ArrivedIs, NotYetIs, OwnAt, Sweeps, Takes
  <1>5. CASE Restored(m) /\ site = "transfer"
    <2>1. /\ mig[m].st = "restore" /\ pve[m] = "none" /\ SetsThen(m, "sweepSource", "start")
          /\ pve' = [pve EXCEPT ![m] = "none"]
      BY <1>5, MigHas DEF Restored, SetsThen
    <2>2. PICK k \in Mig : Takes(m, k, "sweepSource", e, "start")
      BY <2>1, GoesThen DEF Under, Stages
    <2>3. "none" \in Tasks /\ StageOk(k, "none")
      BY <1>5, <2>1, <2>2, MigHas DEF StageOk, Under, Sweeps, Tasks, Takes
    <2> QED
      BY <1>0, <2>1, <2>2, <2>3, PlainInv DEF SpentIs, ArrivedIs, NotYetIs, OwnAt, Sweeps, Takes, Arrived
  <1>6. CASE Restored(m) /\ site # "transfer"
    <2>1. /\ mig[m].st = (IF site = "cluster" THEN "copy" ELSE "restore")
          /\ pve[m] = "none" /\ Sets(m, "start") /\ pve' = [pve EXCEPT ![m] = "start"]
      BY <1>6, MigHas DEF Restored, Go, Ask, Sets
    <2>2. PICK k \in Mig : Takes(m, k, "start", e, t)
      BY <2>1, Goes DEF Under, Stages
    <2>3. "start" \in Tasks /\ StageOk(k, "start")
      BY <1>6, <2>1, <2>2, MigHas DEF StageOk, Under, Sweeps, Tasks, Takes
    <2> QED
      BY <1>0, <1>6, <2>1, <2>2, <2>3, PlainInv DEF SpentIs, ArrivedIs, NotYetIs, OwnAt, Sweeps, Takes, Arrived
  <1>7. CASE Started(m)
    <2>1. /\ mig[m].st = "start" /\ pve[m] = "none" /\ Sets(m, "health")
          /\ pve' = [pve EXCEPT ![m] = "none"]
      BY <1>7, MigHas DEF Started, Go, Sets
    <2>2. PICK k \in Mig : Takes(m, k, "health", e, t)
      BY <2>1, Goes DEF Under, Stages
    <2>3. "none" \in Tasks /\ StageOk(k, "none")
      BY <2>1, <2>2, MigHas DEF StageOk, Under, Sweeps, Tasks, Takes
    <2> QED
      BY <1>0, <2>1, <2>2, <2>3, PlainInv DEF SpentIs, ArrivedIs, NotYetIs, OwnAt, Sweeps, Takes, Arrived
  <1> QED
    BY <1>1, <1>2, <1>3, <1>4, <1>5, <1>6, <1>7

(* finds its guest running or not, *)
LEMMA HealthInv == ASSUME NEW m \in Migrations, MigrateInv, Health(m) PROVE MigrateInv'
  <1> DEFINE e == mig[m].excused
             t == mig[m].then
  <1>0. /\ UNCHANGED <<site, appRow, cts, archives, clock>> /\ trouble' \in 0..MaxTrouble
        /\ mig[m].st = "health" /\ pve[m] = "none" /\ pve' = [pve EXCEPT ![m] = "none"]
    BY MigHas DEF Health, Go, StageOk
  <1>1. CASE Sets(m, "proven") /\ SeenRunning(m)
    <2>1. PICK k \in Mig : Takes(m, k, "proven", e, t)
      BY <1>1, Goes DEF Under, Stages
    <2>2. "none" \in Tasks /\ StageOk(k, "none")
      BY <1>0, <2>1, MigHas DEF StageOk, Under, Sweeps, Tasks, Takes
    <2> QED
      BY <1>0, <1>1, <2>1, <2>2, PlainInv DEF SpentIs, ArrivedIs, NotYetIs, OwnAt, Sweeps, Takes, Arrived
  <1>2. CASE Sets(m, "failed")
    <2>1. PICK k \in Mig : Takes(m, k, "failed", e, t)
      BY <1>2, Goes DEF Under, Stages
    <2>2. "none" \in Tasks /\ StageOk(k, "none")
      BY <1>0, <2>1, MigHas DEF StageOk, Under, Sweeps, Tasks, Takes
    <2> QED
      BY <1>0, <2>1, <2>2, PlainInv DEF SpentIs, ArrivedIs, NotYetIs, OwnAt, Sweeps, Takes, Arrived
  <1> QED
    BY <1>1, <1>2 DEF Health, Go, Sets

(* is cancelled, *)
LEMMA CancelMigrationInv == ASSUME NEW m \in Migrations, MigrateInv, CancelMigration(m) PROVE MigrateInv'
  <1>0. /\ UNCHANGED <<site, appRow, cts, archives, clock>> /\ trouble' \in 0..MaxTrouble
        /\ mig[m].st \in Under \cup {"queued"} /\ SetsExcused(m, "canceled", TRUE)
        /\ pve' = [pve EXCEPT ![m] = pve[m]]
    BY MigHas DEF CancelMigration, SetsExcused
  <1>1. PICK k \in Mig : Takes(m, k, "canceled", TRUE, mig[m].then)
    BY <1>0, GoesExcused DEF Under, Stages
  <1>2. pve[m] \in Tasks /\ StageOk(k, pve[m])
    BY <1>0, <1>1, MigHas DEF StageOk, Under, Sweeps, Tasks, Takes
  <1> QED
    BY <1>0, <1>1, <1>2, PlainInv DEF SpentIs, ArrivedIs, NotYetIs, OwnAt, Sweeps, Takes, Arrived

(* or hears that its task failed. *)
LEMMA TaskFailsInv == ASSUME NEW m \in Migrations, MigrateInv, TaskFails(m) PROVE MigrateInv'
  <1> DEFINE s == IF mig[m].st = "restore" /\ site = "transfer" THEN "sweepSource" ELSE "failed"
  <1>1. PICK late \in BOOLEAN :
          /\ trouble' \in 0..MaxTrouble
          /\ pve' = (IF late THEN pve ELSE [pve EXCEPT ![m] = "none"])
          /\ mig' = [mig EXCEPT ![m].st = IF @ = "restore" /\ site = "transfer" THEN "sweepSource" ELSE "failed",
                                ![m].excused = @ \/ (late /\ mig[m].st = "dump")]
    BY MigHas DEF TaskFails
  <1> DEFINE e == mig[m].excused \/ (late /\ mig[m].st = "dump")
             p == IF late THEN pve[m] ELSE "none"
  <1>2. /\ UNCHANGED <<site, appRow, cts, archives, clock>>
        /\ mig[m].st \in {"stop", "dump", "copy", "restore", "start"} /\ pve[m] # "none"
        /\ pve' = [pve EXCEPT ![m] = p] /\ SetsExcused(m, s, e) /\ e \in BOOLEAN
    BY <1>1, MigHas DEF TaskFails, SetsExcused
  <1>3. PICK k \in Mig : Takes(m, k, s, e, mig[m].then)
    BY <1>2, GoesExcused DEF Under, Stages
  <1>4. p \in Tasks /\ StageOk(k, p)
    BY <1>2, <1>3, MigHas DEF StageOk, Under, Sweeps, Tasks, Takes
  <1>5. site = "transfer" /\ ~k.excused =>
           /\ p = "dump" => k.st = "dump"
           /\ \A a \in archives : a.by = m /\ OwnAt(mig[m], a) => OwnAt(k, a)
    <2> SUFFICES ASSUME site = "transfer", ~k.excused
                 PROVE  /\ p = "dump" => k.st = "dump"
                        /\ \A a \in archives : a.by = m /\ OwnAt(mig[m], a) => OwnAt(k, a)
      OBVIOUS
    <2>1. ~mig[m].excused /\ ~(late /\ mig[m].st = "dump")
      BY <1>3 DEF Takes
    <2>2. pve[m] = "dump" => mig[m].st = "dump"
      BY <2>1 DEF MigrateInv, OwnKnown
    <2>3. \A a \in archives : a.by = m => ~NotYetIs(mig[m], pve[m])
      BY DEF MigrateInv, ArchivesKnown
    <2> QED
      BY <1>2, <1>3, <2>1, <2>2, <2>3, MigHas DEF NotYetIs, OwnAt, StageOk, Takes
  <1>6. /\ SpentIs(mig[m], pve[m]) => SpentIs(k, p)
        /\ ArrivedIs(k, p) => Arrived(m)
        /\ NotYetIs(k, p) => NotYetIs(mig[m], pve[m])
        /\ k.st = s /\ s \in {"sweepSource", "failed"}
    BY <1>2, <1>3, MigHas DEF SpentIs, ArrivedIs, NotYetIs, StageOk, Sweeps, Takes, Arrived
  <1>7. /\ mig' = [mig EXCEPT ![m] = k] /\ k.src = mig[m].src /\ k.dst = mig[m].dst /\ k.vol = mig[m].vol
        /\ mig[m].excused => k.excused
    BY <1>3 DEF Takes
  <1> HIDE DEF s, e, p
  <1> QED
    BY <1>1, <1>2, <1>4, <1>5, <1>6, <1>7, PlainInv

(* The copy arrives, in part or whole, or not. *)
LEMMA TransferInv == ASSUME NEW m \in Migrations, MigrateInv, Transfer(m) PROVE MigrateInv'
  <1> DEFINE j == mig[m]
             from == {a \in archives : a.n = j.vol /\ a.at = j.src.host}
             arrived == {[a EXCEPT !.at = j.dst.host] : a \in from}
  <1>1. /\ UNCHANGED <<site, appRow, cts, clock>> /\ trouble' \in 0..MaxTrouble
        /\ j.st = "copy" /\ site = "transfer" /\ pve[m] = "none"
        /\ archives' \in {archives, archives \cup arrived}
    BY MigHas DEF Transfer, StageOk
  <1>2. archives \subseteq Archive /\ IsFiniteSet(archives) /\ j.dst.host \in HostSet
    BY MigTypes DEF MigrateInv, MigrateTypeOK, ArchivesKnown
  <1>3. ASSUME NEW b \in arrived
        PROVE  \E a \in archives : /\ a.n = j.vol /\ b.n = j.vol /\ b.at = j.dst.host
                                   /\ b.by = a.by /\ b.ctid = a.ctid /\ b.aside = a.aside
                                   /\ b \in Archive
    <2>1. PICK a \in archives : a.n = j.vol /\ b = [a EXCEPT !.at = j.dst.host]
      OBVIOUS
    <2>2. a \in Archive
      BY <1>2
    <2> QED
      BY <1>2, <2>1, <2>2 DEF Archive
  <1>4. IsFiniteSet(arrived)
    <2>1. IsFiniteSet(from)
      BY <1>2, FS_Subset
    <2> DEFINE f == [a \in from |-> [a EXCEPT !.at = j.dst.host]]
    <2>2. f \in Surjection(from, arrived)
      BY DEF Surjection
    <2> HIDE DEF f, arrived, from
    <2> QED
      BY <2>1, <2>2, FS_Surjection
  <1>5. archives' \subseteq Archive /\ IsFiniteSet(archives')
    <2>1. arrived \subseteq Archive
      BY <1>3
    <2>2. IsFiniteSet(archives \cup arrived)
      BY <1>2, <1>4, FS_Union
    <2> HIDE DEF arrived
    <2> QED
      BY <1>1, <1>2, <2>1, <2>2
  <1>6. /\ \A b \in archives' :
             b \in archives \/ /\ j.st = "copy" /\ b.n = j.vol
                               /\ \E a \in archives : /\ a.n = b.n /\ a.by = b.by
                                                      /\ a.ctid = b.ctid /\ a.aside = b.aside
        /\ \A a \in archives : a \in archives'
    <2>1. \A b \in arrived : /\ b.n = j.vol
                             /\ \E a \in archives : /\ a.n = b.n /\ a.by = b.by
                                                    /\ a.ctid = b.ctid /\ a.aside = b.aside
      BY <1>3
    <2> HIDE DEF arrived
    <2> QED
      BY <1>1, <2>1
  <1>7. ~j.excused => \A a \in archives' : a.by = m => a.n = j.vol /\ a.at \in {j.src.host, j.dst.host}
    <2>1. \A b \in arrived : b.n = j.vol /\ b.at = j.dst.host
      BY <1>3
    <2>2. ~j.excused => \A a \in archives : a.by = m => a.n = j.vol /\ a.at \in {j.src.host, j.dst.host}
      BY <1>1 DEF MigrateInv, OwnKnown, OwnAt
    <2> HIDE DEF arrived
    <2> QED
      BY <1>1, <2>1, <2>2
  <1>8. CASE SetsCut(m, "restore", j.src.host = j.dst.host) /\ pve' = [pve EXCEPT ![m] = "restore"]
    <2>1. PICK k \in Mig : Takes(m, k, "restore", j.excused, j.then)
      BY <1>8, GoesCut DEF Under, Stages
    <2>2. "restore" \in Tasks /\ StageOk(k, "restore")
      BY <1>1, <2>1, MigHas DEF StageOk, Under, Sweeps, Tasks, Takes
    <2>3. /\ SpentIs(j, pve[m]) => SpentIs(k, "restore")
          /\ ~ArrivedIs(k, "restore") /\ ~NotYetIs(k, "restore") /\ k.st = "restore"
          /\ \A s, c : ~WaitsIs(k, "restore", s, c)
          /\ ~k.excused => \A a \in archives' : a.by = m => OwnAt(k, a)
      BY <1>1, <1>7, <2>1 DEF SpentIs, ArrivedIs, NotYetIs, WaitsIs, OwnAt, Sweeps, Takes
    <2>4. /\ mig' = [mig EXCEPT ![m] = k] /\ k.src = j.src /\ k.dst = j.dst /\ k.vol = j.vol
          /\ j.excused => k.excused
      BY <2>1 DEF Takes
    <2> HIDE DEF j, arrived, from
    <2> QED
      BY <1>1, <1>5, <1>6, <1>8, <2>2, <2>3, <2>4, MovesInv DEF j
  <1>9. CASE Sets(m, "sweepSource") /\ pve' = pve
    <2>1. PICK k \in Mig : Takes(m, k, "sweepSource", j.excused, j.then)
      BY <1>9, Goes DEF Under, Stages
    <2>2. "none" \in Tasks /\ StageOk(k, "none") /\ pve' = [pve EXCEPT ![m] = "none"]
      BY <1>1, <1>9, <2>1, MigHas DEF StageOk, Under, Sweeps, Tasks, Takes
    <2>3. /\ SpentIs(j, pve[m]) => SpentIs(k, "none")
          /\ ~ArrivedIs(k, "none") /\ ~NotYetIs(k, "none") /\ k.st = "sweepSource"
          /\ \A s, c : ~WaitsIs(k, "none", s, c)
          /\ ~k.excused => \A a \in archives' : a.by = m => OwnAt(k, a)
      BY <1>1, <1>7, <2>1, MigHas DEF StageOk, SpentIs, ArrivedIs, NotYetIs, WaitsIs, OwnAt, Sweeps, Takes
    <2>4. /\ mig' = [mig EXCEPT ![m] = k] /\ k.src = j.src /\ k.dst = j.dst /\ k.vol = j.vol
          /\ j.excused => k.excused
      BY <2>1 DEF Takes
    <2> HIDE DEF j, arrived, from
    <2> QED
      BY <1>1, <1>5, <1>6, <2>2, <2>3, <2>4, MovesInv DEF j
  <1> QED
    BY <1>8, <1>9 DEF Transfer, Ask, Sets, SetsCut

(* What a sweep leaves. *)
LEMMA SweepInv == ASSUME NEW m \in Migrations, MigrateInv, Sweep(m) PROVE MigrateInv'
  <1> DEFINE j == mig[m]
             node == IF j.st = "sweepSource" THEN j.src.host ELSE j.dst.host
             s == IF j.st = "sweepSource" THEN "sweepTarget" ELSE j.then
             p == IF j.st = "sweepTarget" /\ j.then = "start" THEN "start" ELSE pve[m]
  <1>1. PICK refused \in BOOLEAN :
          /\ trouble' \in 0..MaxTrouble
          /\ archives' = (IF refused THEN archives ELSE {a \in archives : a.at # node \/ a.n # j.vol})
          /\ mig' = [mig EXCEPT ![m].excused = @ \/ refused,
                                ![m].st = IF @ = "sweepSource" THEN "sweepTarget" ELSE j.then]
    BY MigHas DEF Sweep
  <1> DEFINE e == j.excused \/ refused
  <1>2. /\ UNCHANGED <<site, appRow, cts, clock>> /\ j.st \in Sweeps
        /\ j.st = "sweepTarget" /\ j.then = "start" => pve[m] = "none"
        /\ pve' = [pve EXCEPT ![m] = p] /\ ExcusesSets(m, s, e) /\ e \in BOOLEAN
        /\ j.then \in {"failed", "start"}
    BY <1>1, MigHas DEF Sweep, Ask, ExcusesSets, Sweeps
  <1>3. PICK k \in Mig : Takes(m, k, s, e, j.then)
    BY <1>2, ExcusedGoes DEF Under, Stages
  <1>4. p \in Tasks /\ StageOk(k, p)
    BY <1>2, <1>3, MigHas DEF StageOk, Under, Sweeps, Tasks, Takes
  <1>5. /\ SpentIs(j, pve[m]) => SpentIs(k, p)
        /\ ArrivedIs(k, p) => Arrived(m)
        /\ ~NotYetIs(k, p) /\ k.st \notin {"proven", "copy"} /\ p # "dump"
        /\ \A u, c : ~WaitsIs(k, p, u, c)
    BY <1>2, <1>3, MigHas DEF SpentIs, ArrivedIs, NotYetIs, WaitsIs, StageOk, Sweeps, Takes, Arrived
  <1>6. /\ archives' \subseteq Archive /\ IsFiniteSet(archives') /\ archives' \subseteq archives
        /\ \A a \in archives : a.n # j.vol => a \in archives'
    <2>1. archives \subseteq Archive /\ IsFiniteSet(archives)
      BY DEF MigrateInv, MigrateTypeOK, ArchivesKnown
    <2> QED
      BY <1>1, <2>1, FS_Subset
  <1>7. site = "transfer" /\ ~k.excused => \A a \in archives' : a.by = m => OwnAt(k, a)
    <2> SUFFICES ASSUME site = "transfer", ~k.excused, NEW a \in archives', a.by = m PROVE OwnAt(k, a)
      OBVIOUS
    <2>1. ~refused /\ ~j.excused /\ k.st = s /\ k.vol = j.vol /\ k.dst = j.dst
      BY <1>3 DEF Takes
    <2>2. a \in archives /\ (a.at # node \/ a.n # j.vol)
      BY <1>1, <2>1
    <2>3. OwnAt(j, a)
      BY <2>1, <2>2 DEF MigrateInv, OwnKnown
    <2> QED
      BY <1>2, <2>1, <2>2, <2>3 DEF OwnAt, Sweeps
  <1>8. /\ mig' = [mig EXCEPT ![m] = k] /\ k.src = j.src /\ k.dst = j.dst /\ k.vol = j.vol
        /\ j.excused => k.excused
    BY <1>3 DEF Takes
  <1> HIDE DEF e, p, s, node
  <1> QED
    BY <1>1, <1>2, <1>4, <1>5, <1>6, <1>7, <1>8, MovesInv

(* It asks, *)
LEMMA RequestMigrationInv ==
  ASSUME NEW m \in Migrations, NEW to \in HostSet, MigrateInv, RequestMigration(m, to)
  PROVE  MigrateInv'
  <1> DEFINE k == [NoMig EXCEPT !.st = "queued", !.to = to]
  <1>1. /\ UNCHANGED <<site, appRow, cts, archives, clock>> /\ trouble' \in 0..MaxTrouble
        /\ mig[m].st = "none" /\ pve[m] = "none" /\ pve' = [pve EXCEPT ![m] = "none"]
        /\ mig' = [mig EXCEPT ![m] = k] /\ mig[m].vol = 0
        /\ mig[m].src = Gone /\ mig[m].dst = Gone /\ ~mig[m].excused
    BY MigHas DEF RequestMigration, StageOk
  <1>2. /\ k \in Mig /\ k.st = "queued" /\ k.src = Gone /\ k.dst = Gone /\ k.vol = 0
        /\ k.excused = FALSE /\ k.then = "failed"
    BY NoMigIs DEF NoMig, Mig
  <1> HIDE DEF k
  <1>3. "none" \in Tasks /\ StageOk(k, "none")
    BY <1>2, NoMigIs, MigHas DEF StageOk, Under, Sweeps, Tasks
  <1> QED
    BY <1>1, <1>2, <1>3, PlainInv DEF SpentIs, ArrivedIs, NotYetIs, OwnAt, Sweeps

(* and moves the row, in the end. *)
LEMMA RepointInv == ASSUME NEW m \in Migrations, MigrateInv, Repoint(m) PROVE MigrateInv'
  <1> DEFINE e == mig[m].excused
             t == mig[m].then
  <1>0. /\ UNCHANGED <<site, cts, archives, clock>> /\ trouble' \in 0..MaxTrouble
        /\ mig[m].st = "proven" /\ pve[m] = "none" /\ pve' = [pve EXCEPT ![m] = "none"]
    BY MigHas DEF Repoint, Go, StageOk
  <1>1. CASE Sets(m, "failed") /\ appRow' = appRow
    <2>1. PICK k \in Mig : Takes(m, k, "failed", e, t)
      BY <1>1, Goes DEF Under, Stages
    <2>2. "none" \in Tasks /\ StageOk(k, "none")
      BY <1>0, <2>1, MigHas DEF StageOk, Under, Sweeps, Tasks, Takes
    <2> QED
      BY <1>0, <1>1, <2>1, <2>2, PlainInv DEF SpentIs, ArrivedIs, NotYetIs, OwnAt, Sweeps, Takes, Arrived
  <1>2. CASE Sets(m, "succeeded") /\ appRow' = mig[m].dst
    <2>1. PICK k \in Mig : Takes(m, k, "succeeded", e, t)
      BY <1>2, Goes DEF Under, Stages
    <2>2. "none" \in Tasks /\ StageOk(k, "none")
      BY <1>0, <2>1, MigHas DEF StageOk, Under, Sweeps, Tasks, Takes
    <2> QED
      BY <1>0, <1>2, <2>1, <2>2, PlainInv DEF SpentIs, ArrivedIs, NotYetIs, OwnAt, Sweeps, Takes, Arrived
  <1> QED
    BY <1>1, <1>2 DEF Repoint, Go, Sets

(* There is an id left for a job that has made no container yet. *)
LEMMA NextIdIs ==
  ASSUME MigrateInv, NEW m \in Migrations, ~SpentIs(mig[m], pve[m]), NEW node \in HostSet
  PROVE  NextId(node) \in Ctids /\ NextId(node) # 0
  <1> DEFINE left == {i \in Ctids : <<node, i>> \notin DOMAIN cts}
  <1>1. /\ IsFiniteSet(DOMAIN cts) /\ Cardinality(DOMAIN cts) <= 1 + Cardinality(Spent)
        /\ Cardinality(Migrations) \in Nat
    BY CtidsAre DEF MigrateInv, FewGuests
  <1>2. Cardinality(Spent) <= Cardinality(Migrations) - 1
    <2>1. Spent \subseteq Migrations \ {m}
      BY DEF Spent
    <2>2. IsFiniteSet(Migrations \ {m}) /\ Cardinality(Migrations \ {m}) = Cardinality(Migrations) - 1
      BY SiteAssumption, FS_RemoveElement
    <2> QED
      BY <2>1, <2>2, FS_Subset
  <1>3. Cardinality(Spent) \in Nat
    <2>1. Spent \subseteq Migrations
      BY DEF Spent
    <2> QED
      BY <2>1, SiteAssumption, FS_Subset, FS_CardinalityType
  <1>4. Cardinality(Ctids) = Cardinality(Migrations) + 1 /\ IsFiniteSet(Ctids)
    BY <1>1, FS_Interval DEF Ctids
  <1>5. left # {}
    <2> SUFFICES ASSUME left = {} PROVE FALSE
      OBVIOUS
    <2> DEFINE f == [i \in Ctids |-> <<node, i>>]
    <2>1. f \in [Ctids -> DOMAIN cts]
      OBVIOUS
    <2>2. \A a, b \in Ctids : f[a] = f[b] => a = b
      OBVIOUS
    <2> HIDE DEF f
    <2>3. f \in Injection(Ctids, DOMAIN cts)
      BY <2>1, <2>2 DEF Injection, IsInjective
    <2>4. Cardinality(Ctids) <= Cardinality(DOMAIN cts)
      BY <1>1, <2>3, FS_Injection
    <2>5. Cardinality(DOMAIN cts) \in Nat
      BY <1>1, FS_CardinalityType
    <2> QED
      BY <1>1, <1>2, <1>3, <1>4, <2>4, <2>5
  <1>6. left \subseteq Nat /\ Ctids \subseteq Nat \ {0}
    BY CtidsAre
  <1>7. Min(left) \in left /\ \A y \in left : Min(left) <= y
    <2> HIDE DEF left
    <2> QED
      BY <1>5, <1>6, LeastIs
  <1> DEFINE P(i) == <<node, i>> \notin DOMAIN cts /\ \A k \in Ctids : k < i => <<node, k>> \in DOMAIN cts
  <1>8. Min(left) \in Ctids /\ P(Min(left))
    <2>1. Min(left) \in Nat /\ Min(left) \in Ctids /\ <<node, Min(left)>> \notin DOMAIN cts
      BY <1>6, <1>7
    <2>2. ASSUME NEW k \in Ctids, k < Min(left) PROVE <<node, k>> \in DOMAIN cts
      <3>1. k \in Nat /\ (k \in left => Min(left) <= k)
        BY <1>6, <1>7
      <3>2. k \notin left
        BY <2>1, <2>2, <3>1
      <3> QED
        BY <3>2
    <2> QED
      BY <2>1, <2>2
  <1>9. NextId(node) = CHOOSE i \in Ctids : P(i)
    BY DEF NextId
  <1> HIDE DEF P, left
  <1>10. NextId(node) \in Ctids
    BY <1>8, <1>9
  <1> QED
    BY <1>6, <1>10

(* It takes the guest its row names. *)
LEMMA LoadMigrationInv == ASSUME NEW m \in Migrations, MigrateInv, LoadMigration(m) PROVE MigrateInv'
  <1>0. /\ UNCHANGED <<site, cts, archives, clock>> /\ appRow' = appRow /\ trouble' \in 0..MaxTrouble
        /\ mig[m].st = "queued" /\ pve[m] = "none" /\ pve' = [pve EXCEPT ![m] = "none"] /\ pve' = pve
    BY MigHas DEF LoadMigration, StageOk
  <1>1. CASE Sets(m, "failed")
    <2>1. PICK k \in Mig : Takes(m, k, "failed", mig[m].excused, mig[m].then)
      BY <1>1, Goes DEF Under, Stages
    <2>2. "none" \in Tasks /\ StageOk(k, "none")
      BY <1>0, <2>1, MigHas DEF StageOk, Under, Sweeps, Tasks, Takes
    <2> QED
      BY <1>0, <1>1, <2>1, <2>2, PlainInv DEF SpentIs, ArrivedIs, NotYetIs, OwnAt, Sweeps, Takes, Arrived
  <1>2. CASE /\ appRow # Gone
             /\ mig' = [mig EXCEPT ![m].st = "loaded", ![m].src = appRow,
                          ![m].dst = [host |-> mig[m].to,
                                      ctid |-> IF site = "cluster" THEN appRow.ctid ELSE NextId(mig[m].to)]]
    <2> DEFINE dst == [host |-> mig[m].to,
                       ctid |-> IF site = "cluster" THEN appRow.ctid ELSE NextId(mig[m].to)]
    <2>0. /\ MigrateTypeOK /\ StagesKnown /\ RowKnown /\ FewGuests /\ OneGuest /\ GuestsStay /\ ArrivedAlone
          /\ ArchivesKnown /\ AsideSafe /\ OwnKnown
      BY DEF MigrateInv
    <2>1. /\ mig[m] \in Mig /\ mig \in [Migrations -> Mig] /\ mig[m].to \in HostSet
          /\ appRow \in [host : HostSet, ctid : Ctids \cup {0}] /\ appRow.ctid # 0
      BY <1>2, <2>0, MigTypes DEF MigrateTypeOK, RowKnown
    <2>2. dst \in [host : HostSet, ctid : Ctids \cup {0}] /\ dst.ctid # 0
      <3>1. ~SpentIs(mig[m], pve[m])
        BY <1>0 DEF SpentIs, Sweeps
      <3> QED
        BY <2>1, <3>1, NextIdIs
    <2>3. site = "cluster" => dst.ctid = appRow.ctid
      OBVIOUS
    <2> DEFINE k == [mig[m] EXCEPT !.st = "loaded", !.src = appRow, !.dst = dst]
    <2>4. mig' = [mig EXCEPT ![m] = k]
      BY <1>2, <2>1
    <2> HIDE DEF dst
    <2>5. /\ k \in Mig /\ k.st = "loaded" /\ k.src = appRow /\ k.dst = dst /\ k.vol = mig[m].vol
          /\ k.then = mig[m].then /\ k.excused = mig[m].excused
      BY <2>1, <2>2 DEF Mig, Under
    <2> HIDE DEF k
    <2>6. /\ mig' \in [Migrations -> Mig] /\ mig'[m] = k
          /\ \A x \in Migrations \ {m} : mig'[x] = mig[x]
      BY <2>1, <2>4, <2>5
    <2>7. MigrateTypeOK'
      BY <1>0, <2>0, <2>6 DEF MigrateTypeOK
    <2>8. StagesKnown'
      <3>1. StageOk(k, "none")
        BY <1>0, <2>1, <2>2, <2>3, <2>5, MigHas DEF StageOk, Sweeps, Under
      <3>2. StageOk(mig[m], pve[m])'
        BY <1>0, <2>6, <3>1 DEF StageOk
      <3>3. ASSUME NEW x \in Migrations \ {m} PROVE StageOk(mig[x], pve[x])'
        <4>1. StageOk(mig[x], pve[x]) /\ mig'[x] = mig[x] /\ pve'[x] = pve[x]
          BY <1>0, <2>0, <2>6 DEF StagesKnown
        <4> QED
          BY <1>0, <4>1 DEF StageOk
      <3> QED
        BY <3>2, <3>3 DEF StagesKnown
    <2>9. RowKnown' /\ OneGuest'
      BY <1>0, <2>0 DEF RowKnown, OneGuest, Gone
    <2>10. \A x \in Migrations :
             /\ SpentIs(mig[x], pve[x])' <=> SpentIs(mig[x], pve[x])
             /\ NotYetIs(mig[x], pve[x])' <=> NotYetIs(mig[x], pve[x])
             /\ (Arrived(x)' => Arrived(x)) /\ (Arrived(x)' => x # m)
      <3>1. ASSUME NEW x \in Migrations \ {m}
            PROVE  /\ SpentIs(mig[x], pve[x])' <=> SpentIs(mig[x], pve[x])
                   /\ NotYetIs(mig[x], pve[x])' <=> NotYetIs(mig[x], pve[x])
                   /\ Arrived(x)' => Arrived(x)
        BY <1>0, <2>6 DEF SpentIs, NotYetIs, Arrived, ArrivedIs
      <3>2. /\ SpentIs(mig[m], pve[m])' <=> SpentIs(mig[m], pve[m])
            /\ NotYetIs(mig[m], pve[m])' <=> NotYetIs(mig[m], pve[m])
            /\ ~Arrived(m)'
        BY <1>0, <2>5, <2>6 DEF SpentIs, NotYetIs, Arrived, ArrivedIs, Sweeps
      <3> QED
        BY <3>1, <3>2
    <2>11. FewGuests'
      <3>1. Spent' = Spent
        BY <2>10 DEF Spent
      <3> QED
        BY <1>0, <2>0, <3>1 DEF FewGuests
    <2>12. GuestsStay'
      <3> SUFFICES ASSUME site # "cluster"
                   PROVE  /\ appRow = Gone \/ At(appRow) \in DOMAIN cts
                          /\ \A x \in Migrations : mig'[x].src.ctid # 0 => At(mig'[x].src) \in DOMAIN cts
                          /\ \A y \in Migrations : Arrived(y)' =>
                               appRow # mig'[y].dst /\ \A x \in Migrations : mig'[x].src # mig'[y].dst
        BY <1>0 DEF GuestsStay, At, Gone
      <3>1. At(appRow) \in DOMAIN cts
        BY <1>2, <2>0 DEF GuestsStay
      <3>2. \A x \in Migrations : mig'[x].src = mig[x].src \/ mig'[x].src = appRow
        BY <2>5, <2>6
      <3>3. ASSUME NEW y \in Migrations, Arrived(y)'
            PROVE  appRow # mig'[y].dst /\ \A x \in Migrations : mig[x].src # mig'[y].dst
        <4>1. Arrived(y) /\ mig'[y] = mig[y]
          BY <2>6, <2>10, <3>3
        <4> QED
          BY <2>0, <4>1 DEF GuestsStay
      <3>4. \A x \in Migrations : mig'[x].src.ctid # 0 => At(mig'[x].src) \in DOMAIN cts
        BY <2>0, <3>1, <3>2 DEF GuestsStay
      <3> QED
        BY <3>1, <3>2, <3>3, <3>4
    <2>13. ArrivedAlone'
      <3> SUFFICES ASSUME NEW y \in Migrations, Arrived(y)', ~TakenOn(mig[y].dst)'
                   PROVE  /\ At(mig'[y].dst) \in DOMAIN cts
                          /\ \A x \in Migrations \ {y} : Arrived(x)' => mig'[x].dst # mig'[y].dst
                          /\ mig'[y].st = "proven" => cts[At(mig'[y].dst)] = "running"
        BY <1>0 DEF ArrivedAlone, At
      <3>1. Arrived(y) /\ mig'[y] = mig[y] /\ y # m
        BY <2>6, <2>10
      <3>2. ~TakenOn(mig[y].dst)
        <4>1. mig[y].dst.ctid # 0
          BY <2>0, <3>1 DEF StagesKnown, StageOk, Arrived, ArrivedIs, Sweeps, Under
        <4>2. mig[m].src.ctid = 0
          BY <1>0, MigHas DEF StageOk
        <4>3. ~(site = "cluster" /\ \E x \in Migrations : mig'[x].src = mig[y].dst)
          BY <1>0, <3>1 DEF TakenOn
        <4> QED
          BY <2>6, <4>1, <4>2, <4>3 DEF TakenOn
      <3>3. \A x \in Migrations : Arrived(x)' => Arrived(x) /\ mig'[x] = mig[x]
        BY <2>6, <2>10
      <3> QED
        BY <2>0, <3>1, <3>2, <3>3 DEF ArrivedAlone
    <2>14. \A x \in Migrations : mig'[x].vol = mig[x].vol
      BY <2>5, <2>6
    <2>15. \A n : Chosen(n)' <=> Chosen(n)
      BY <2>14 DEF Chosen
    <2>16. ArchivesKnown'
      BY <1>0, <2>0, <2>10, <2>14, <2>15 DEF ArchivesKnown
    <2>17. AsideSafe'
      <3>1. \A s, c : Waiting(s, c)' = Waiting(s, c)
        <4>1. ASSUME NEW s, NEW c, NEW x \in Migrations
              PROVE  WaitsIs(mig[x], pve[x], s, c)' <=> WaitsIs(mig[x], pve[x], s, c)
          BY <1>0, <2>5, <2>6 DEF WaitsIs, Staging
        <4> QED
          BY <4>1 DEF Waiting
      <3>2. \A a : Fresh(a)' = Fresh(a)
        BY <1>0, <2>15 DEF Fresh
      <3> QED
        BY <1>0, <2>0, <3>1, <3>2 DEF AsideSafe
    <2>18. OwnKnown'
      <3> SUFFICES ASSUME site = "transfer", NEW x \in Migrations, ~mig'[x].excused
                   PROVE  /\ pve[x] = "dump" => mig'[x].st = "dump"
                          /\ \A a \in archives : a.by = x =>
                               /\ OwnAt(mig'[x], a)
                               /\ \A y \in Migrations \ {x} : mig'[y].st = "copy" => a.n # mig'[y].vol
        BY <1>0 DEF OwnKnown, OwnAt
      <3>1. \A y \in Migrations : mig'[y].st = "copy" => mig[y].st = "copy"
        BY <2>5, <2>6
      <3>2. CASE x = m
        <4>1. \A a \in archives : a.by # m
          BY <1>0, <2>0 DEF ArchivesKnown, NotYetIs
        <4> QED
          BY <1>0, <3>2, <4>1
      <3>3. CASE x # m
        BY <2>0, <2>6, <2>14, <3>1, <3>3 DEF OwnKnown
      <3> QED
        BY <3>2, <3>3
    <2> QED
      BY <2>7, <2>8, <2>9, <2>11, <2>12, <2>13, <2>16, <2>17, <2>18 DEF MigrateInv
  <1> QED
    BY <1>1, <1>2 DEF LoadMigration, Sets

(* The newest of those found. *)
LEMMA MineIs ==
  ASSUME ArchivesKnown, clock \in Nat, archives \subseteq Archive,
         NEW found, found \subseteq archives, found # {}
  PROVE  Mine(found) \in found /\ \A b \in found : b.n <= Mine(found).n
  <1> DEFINE ns == {a.n : a \in found}
  <1>1. ns \subseteq 0..clock /\ ns # {}
    <2>1. \A a \in found : a.n \in Nat /\ a.n <= clock
      BY DEF ArchivesKnown, Archive
    <2> QED
      BY <2>1
  <1>2. Max(ns) \in ns /\ \A y \in ns : Max(ns) >= y
    <2> HIDE DEF ns
    <2> QED
      BY <1>1, GreatestIs
  <1>3. PICK a \in found : a.n = Max(ns)
    BY <1>2
  <1>4. \A b \in found : b.n <= a.n
    <2>1. \A b \in found : b.n \in ns /\ b.n \in Nat /\ a.n \in Nat
      BY <1>1
    <2> QED
      BY <1>2, <1>3, <2>1
  <1> QED
    BY <1>4 DEF Mine

(* A job takes the newest dump of its container for its own: it is nobody's that *)
(* was set aside, and who else was counting on it finds another.                 *)
LEMMA ListedInv ==
  ASSUME MigrateInv, NEW m \in Migrations, mig[m].st = "listing", site # "cluster",
         NEW k \in Mig, NEW p \in Tasks, NEW f \in archives,
         f.at = Staging(mig[m].src.host), f.ctid = mig[m].src.ctid,
         \A b \in archives : b.at = f.at /\ b.ctid = f.ctid => b.n <= f.n,
         mig' \in [Migrations -> Mig], mig'[m] = k, pve' = [pve EXCEPT ![m] = p],
         UNCHANGED <<site, appRow, cts, archives, clock>>, trouble' \in 0..MaxTrouble,
         k.src = mig[m].src, k.dst = mig[m].dst, k.vol = f.n,
         mig[m].excused \/ f.by # m => k.excused,
         \/ k.st = "copy" /\ p = "none" /\ site = "transfer"
         \/ k.st = "restore" /\ p = "restore" /\ site = "shared"
         \/ k.st = "sweepSource" /\ p = "none" /\ site = "transfer" /\ k.then = "failed",
         k.then = "failed",
         \A x \in Migrations \ {m} :
           /\ mig'[x].st = mig[x].st /\ mig'[x].src = mig[x].src /\ mig'[x].dst = mig[x].dst
           /\ mig'[x].vol = mig[x].vol /\ mig'[x].then = mig[x].then
           /\ mig'[x].excused = mig[x].excused \/ (mig'[x].excused /\ f.by = x)
           /\ k.st = "copy" /\ f.by = x => mig'[x].excused
  PROVE  MigrateInv'
  <1>0. /\ MigrateTypeOK /\ StagesKnown /\ RowKnown /\ FewGuests /\ OneGuest /\ GuestsStay /\ ArrivedAlone
        /\ ArchivesKnown /\ AsideSafe /\ OwnKnown
    BY DEF MigrateInv
  <1>1. /\ pve \in [Migrations -> Tasks] /\ pve' \in [Migrations -> Tasks] /\ pve'[m] = p
        /\ \A x \in Migrations \ {m} : pve'[x] = pve[x]
        /\ pve[m] = "none"
    BY <1>0, MigHas DEF StageOk
  <1>2. /\ site' = site /\ appRow' = appRow /\ cts' = cts /\ archives' = archives /\ clock' = clock
    OBVIOUS
  <1>3. /\ f \in Archive /\ f.n > 0 /\ f.n <= clock /\ f.n \in Nat /\ clock \in Nat
        /\ archives \subseteq Archive
    BY <1>0 DEF MigrateTypeOK, ArchivesKnown, Archive
  <1>4. MigrateTypeOK'
    BY <1>0, <1>1, <1>2 DEF MigrateTypeOK, Tasks
  <1>5. StagesKnown'
    <2>1. StageOk(k, p)
      BY <1>0, <1>1, MigHas DEF StageOk, Sweeps, Under
    <2>2. StageOk(mig[m], pve[m])'
      BY <1>1, <1>2, <2>1 DEF StageOk
    <2>3. ASSUME NEW x \in Migrations \ {m} PROVE StageOk(mig[x], pve[x])'
      <3>1. StageOk(mig[x], pve[x]) /\ pve'[x] = pve[x]
        BY <1>0, <1>1 DEF StagesKnown
      <3>2. mig[x].st = "none" => f.by # x
        <4>1. f.by = x => ~NotYetIs(mig[x], pve[x])
          BY <1>0 DEF ArchivesKnown
        <4> QED
          BY <4>1 DEF NotYetIs
      <3> QED
        BY <1>2, <3>1, <3>2 DEF StageOk
    <2> QED
      BY <2>2, <2>3 DEF StagesKnown
  <1>6. RowKnown' /\ OneGuest'
    BY <1>0, <1>2 DEF RowKnown, OneGuest, Gone
  <1>7. \A x \in Migrations :
          /\ SpentIs(mig[x], pve[x]) => SpentIs(mig[x], pve[x])'
          /\ NotYetIs(mig[x], pve[x])' <=> NotYetIs(mig[x], pve[x])
          /\ (Arrived(x)' => Arrived(x)) /\ (Arrived(x)' => x # m)
    <2>1. ASSUME NEW x \in Migrations \ {m}
          PROVE  /\ SpentIs(mig[x], pve[x]) => SpentIs(mig[x], pve[x])'
                 /\ NotYetIs(mig[x], pve[x])' <=> NotYetIs(mig[x], pve[x])
                 /\ Arrived(x)' => Arrived(x)
      BY <1>1, <1>2 DEF SpentIs, NotYetIs, Arrived, ArrivedIs
    <2>2. /\ ~SpentIs(mig[m], pve[m]) /\ ~NotYetIs(mig[m], pve[m])
      BY <1>1 DEF SpentIs, NotYetIs, Sweeps
    <2>3. ~NotYetIs(mig[m], pve[m])' /\ ~Arrived(m)'
      BY <1>1, <1>2 DEF NotYetIs, Arrived, ArrivedIs, Sweeps
    <2> QED
      BY <2>1, <2>2, <2>3
  <1>8. FewGuests'
    <2>1. Spent \subseteq Spent' /\ Spent' \subseteq Migrations
      BY <1>7 DEF Spent
    <2>2. IsFiniteSet(Spent')
      BY <2>1, SiteAssumption, FS_Subset
    <2>3. Cardinality(Spent) <= Cardinality(Spent') /\ IsFiniteSet(Spent)
      BY <2>1, <2>2, FS_Subset
    <2>4. Cardinality(Spent) \in Nat /\ Cardinality(Spent') \in Nat
      BY <2>2, <2>3, FS_CardinalityType
    <2>5. IsFiniteSet(DOMAIN cts) /\ Cardinality(DOMAIN cts) \in Nat /\ Cardinality(DOMAIN cts) <= 1 + Cardinality(Spent)
      BY <1>0, FS_CardinalityType DEF FewGuests
    <2>6. IsFiniteSet(DOMAIN cts') /\ Cardinality(DOMAIN cts') \in Nat /\ Cardinality(DOMAIN cts') <= 1 + Cardinality(Spent')
      BY <1>2, <2>3, <2>4, <2>5
    <2> QED
      BY <2>6 DEF FewGuests
  <1>9. \A x \in Migrations : mig'[x].src = mig[x].src /\ mig'[x].dst = mig[x].dst
    OBVIOUS
  <1>10. GuestsStay'
    BY <1>0, <1>2, <1>7, <1>9 DEF GuestsStay, At, Gone
  <1>11. ArrivedAlone'
    <2>1. \A c : TakenOn(c)' = TakenOn(c)
      BY <1>2, <1>9 DEF TakenOn
    <2>2. \A x \in Migrations : Arrived(x)' => x # m /\ mig'[x].st = mig[x].st
      BY <1>7
    <2> QED
      BY <1>0, <1>2, <1>7, <1>9, <2>1, <2>2 DEF ArrivedAlone, At
  <1>12. \A n : Chosen(n)' => Chosen(n) \/ n = f.n
    BY DEF Chosen
  <1>13. Chosen(f.n)' /\ \A n : Chosen(n) /\ n # 0 => Chosen(n)'
    <2>1. mig[m].vol = 0
      BY <1>0, MigHas DEF StageOk
    <2> QED
      BY <2>1 DEF Chosen
  <1>14. WaitsIs(mig[m], pve[m], f.at, f.ctid) /\ m \in Waiting(f.at, f.ctid)
    BY DEF WaitsIs, Waiting
  <1>15. \A s, c : /\ IsFiniteSet(Waiting(s, c)) /\ Cardinality(Waiting(s, c)) \in Nat
    <2>1. \A s, c : Waiting(s, c) \subseteq Migrations
      BY DEF Waiting
    <2> QED
      BY <2>1, SiteAssumption, FS_Subset, FS_CardinalityType
  <1>16. ASSUME NEW s \in SUBSET archives
         PROVE  IsFiniteSet(s) /\ Cardinality(s) \in Nat
    BY <1>0, FS_Subset, FS_CardinalityType DEF ArchivesKnown
  <1>17. ~f.aside
    <2> SUFFICES ASSUME f.aside PROVE FALSE
      OBVIOUS
    <2>1. Cardinality(Waiting(f.at, f.ctid)) <= Cardinality(Fresh(f))
      BY <1>0 DEF AsideSafe
    <2>2. Fresh(f) = {}
      BY <1>3 DEF Fresh, Archive
    <2>3. Cardinality(Fresh(f)) = 0
      BY <2>2, FS_EmptySet
    <2>4. Cardinality(Waiting(f.at, f.ctid)) # 0
      BY <1>14, <1>15, FS_EmptySet
    <2> QED
      BY <1>15, <2>1, <2>3, <2>4
  <1>18. ArchivesKnown'
    <2>1. \A x \in Migrations : mig'[x].vol <= clock'
      BY <1>0, <1>3 DEF ArchivesKnown
    <2>2. ASSUME NEW a \in archives, a.aside PROVE ~Chosen(a.n)'
      <3>1. a.n # f.n /\ ~Chosen(a.n)
        BY <1>0, <1>17, <2>2 DEF ArchivesKnown
      <3> QED
        BY <1>12, <3>1
    <2>3. \A a \in archives : Chosen(a.n) => Chosen(a.n)'
      BY <1>0, <1>13 DEF ArchivesKnown, Archive
    <2> QED
      BY <1>0, <1>2, <1>7, <2>1, <2>2, <2>3 DEF ArchivesKnown
  <1>19. AsideSafe'
    <2> SUFFICES ASSUME NEW a \in archives, a.aside
                 PROVE  Cardinality(Waiting(a.at, a.ctid)') <= Cardinality(Fresh(a)')
      BY <1>2 DEF AsideSafe
    <2>1. Cardinality(Waiting(a.at, a.ctid)) <= Cardinality(Fresh(a))
      BY <1>0 DEF AsideSafe
    <2>2. Waiting(a.at, a.ctid)' = Waiting(a.at, a.ctid) \ {m}
      <3>1. ASSUME NEW x \in Migrations \ {m}
            PROVE  WaitsIs(mig[x], pve[x], a.at, a.ctid)' <=> WaitsIs(mig[x], pve[x], a.at, a.ctid)
        BY <1>1, <1>2 DEF WaitsIs, Staging
      <3>2. ~WaitsIs(mig[m], pve[m], a.at, a.ctid)'
        BY DEF WaitsIs
      <3> QED
        BY <3>1, <3>2 DEF Waiting
    <2>3. Fresh(a)' \subseteq archives /\ Fresh(a) \subseteq archives
      BY <1>2 DEF Fresh
    <2>4. CASE a.at = f.at /\ a.ctid = f.ctid
      <3>1. m \in Waiting(a.at, a.ctid)
        BY <1>14, <2>4
      <3>2. Cardinality(Waiting(a.at, a.ctid)') = Cardinality(Waiting(a.at, a.ctid)) - 1
        BY <1>15, <2>2, <3>1, FS_RemoveElement
      <3>3. Fresh(a) \subseteq Fresh(a)' \cup {f}
        <4> SUFFICES ASSUME NEW b \in Fresh(a), b # f PROVE b \in Fresh(a)'
          OBVIOUS
        <4>1. b \in archives /\ b.at = a.at /\ b.ctid = a.ctid /\ b.n > a.n /\ ~Chosen(b.n)
          BY DEF Fresh
        <4>2. b.n # f.n
          <5> SUFFICES ASSUME b.n = f.n PROVE FALSE
            OBVIOUS
          <5>1. b.by = f.by /\ b.aside = f.aside
            BY <1>0, <4>1 DEF ArchivesKnown
          <5>2. b \in Archive /\ f \in Archive /\ b.at = f.at /\ b.ctid = f.ctid
            BY <1>3, <2>4, <4>1
          <5>3. b = f
            BY <5>1, <5>2 DEF Archive
          <5> QED
            BY <5>3
        <4> QED
          BY <1>2, <1>12, <4>1, <4>2 DEF Fresh
      <3>4. /\ IsFiniteSet(Fresh(a)') /\ Cardinality(Fresh(a)') \in Nat
            /\ IsFiniteSet(Fresh(a)) /\ Cardinality(Fresh(a)) \in Nat
        BY <1>16, <2>3
      <3>5. /\ IsFiniteSet(Fresh(a)' \cup {f}) /\ Cardinality(Fresh(a)' \cup {f}) \in Nat
            /\ Cardinality(Fresh(a)' \cup {f}) <= Cardinality(Fresh(a)') + 1
        <4>1. /\ IsFiniteSet(Fresh(a)' \cup {f})
              /\ \/ Cardinality(Fresh(a)' \cup {f}) = Cardinality(Fresh(a)')
                 \/ Cardinality(Fresh(a)' \cup {f}) = Cardinality(Fresh(a)') + 1
          BY <3>4, FS_AddElement
        <4> QED
          BY <3>4, <4>1
      <3>6. Cardinality(Fresh(a)) <= Cardinality(Fresh(a)' \cup {f})
        BY <3>3, <3>5, FS_Subset
      <3> QED
        BY <1>15, <2>1, <3>2, <3>4, <3>5, <3>6
    <2>5. CASE ~(a.at = f.at /\ a.ctid = f.ctid)
      <3>1. Fresh(a) \subseteq Fresh(a)'
        <4> SUFFICES ASSUME NEW b \in Fresh(a) PROVE b \in Fresh(a)'
          OBVIOUS
        <4>1. b \in archives /\ b.at = a.at /\ b.ctid = a.ctid /\ b.n > a.n /\ ~Chosen(b.n)
          BY DEF Fresh
        <4>2. b.n # f.n
          BY <1>0, <2>5, <4>1 DEF ArchivesKnown
        <4> QED
          BY <1>2, <1>12, <4>1, <4>2 DEF Fresh
      <3>2. Waiting(a.at, a.ctid)' \subseteq Waiting(a.at, a.ctid)
        BY <2>2
      <3> QED
        BY <1>15, <1>16, <2>1, <2>3, <3>1, <3>2, Smaller
    <2> QED
      BY <2>4, <2>5
  <1>20. OwnKnown'
    <2> SUFFICES ASSUME site = "transfer", NEW x \in Migrations, ~mig'[x].excused
                 PROVE  /\ pve'[x] = "dump" => mig'[x].st = "dump"
                        /\ \A a \in archives : a.by = x =>
                             /\ OwnAt(mig'[x], a)
                             /\ \A y \in Migrations \ {x} : mig'[y].st = "copy" => a.n # mig'[y].vol
      BY <1>2 DEF OwnKnown, OwnAt
    <2>1. ~mig[x].excused
      OBVIOUS
    <2>2. /\ pve[x] = "dump" => mig[x].st = "dump"
          /\ \A a \in archives : a.by = x =>
               /\ OwnAt(mig[x], a)
               /\ \A y \in Migrations \ {x} : mig[y].st = "copy" => a.n # mig[y].vol
      BY <1>0, <2>1 DEF OwnKnown
    <2>3. ASSUME NEW a \in archives, a.by = x, NEW y \in Migrations \ {x}, mig'[y].st = "copy"
          PROVE  a.n # mig'[y].vol
      <3>1. CASE y = m
        <4>1. f.by # x
          BY <2>3, <3>1
        <4>2. a.n # f.n
          BY <1>0, <2>3, <4>1 DEF ArchivesKnown
        <4> QED
          BY <3>1, <4>2
      <3>2. CASE y # m
        BY <2>2, <2>3, <3>2
      <3> QED
        BY <3>1, <3>2
    <2>4. ASSUME NEW a \in archives, a.by = x PROVE OwnAt(mig'[x], a)
      <3>1. CASE x = m
        <4>1. f.by = m
          BY <3>1
        <4>2. a.n = f.n
          BY <1>0, <2>4, <3>1, <4>1, SiteAssumption DEF ArchivesKnown
        <4>3. a.at = mig[m].src.host
          BY <2>2, <2>4, <3>1 DEF OwnAt
        <4> QED
          BY <3>1, <4>2, <4>3 DEF OwnAt
      <3>2. CASE x # m
        BY <2>2, <2>4, <3>2 DEF OwnAt
      <3> QED
        BY <3>1, <3>2
    <2>5. pve'[x] = "dump" => mig'[x].st = "dump"
      BY <1>1, <2>2
    <2> QED
      BY <2>3, <2>4, <2>5
  <1> QED
    BY <1>4, <1>5, <1>6, <1>8, <1>10, <1>11, <1>18, <1>19, <1>20 DEF MigrateInv

(* One that is excused. *)
LEMMA ExcusedIs ==
  ASSUME NEW j \in Mig, NEW d, d = [j EXCEPT !.excused = TRUE]
  PROVE  /\ d \in Mig /\ d.st = j.st /\ d.src = j.src /\ d.dst = j.dst /\ d.vol = j.vol
         /\ d.then = j.then /\ d.excused
  BY DEF Mig

(* It lists the storage. *)
LEMMA ListArchivesInv == ASSUME NEW m \in Migrations, MigrateInv, ListArchives(m) PROVE MigrateInv'
  <1> DEFINE j == mig[m]
             found == {a \in archives : a.at = Staging(j.src.host) /\ a.ctid = j.src.ctid}
             f == Mine(found)
  <1>0. /\ UNCHANGED <<site, cts, archives, clock>> /\ appRow' = appRow /\ trouble' \in 0..MaxTrouble
        /\ j.st = "listing" /\ pve[m] = "none" /\ site # "cluster" /\ j.src = mig[m].src
        /\ j.excused \in BOOLEAN /\ j.then = "failed"
    BY MigHas DEF ListArchives, StageOk
  <1>1. /\ mig \in [Migrations -> Mig] /\ j \in Mig /\ archives \subseteq Archive /\ clock \in Nat
        /\ site \in Sites /\ ArchivesKnown
    BY MigTypes DEF MigrateInv, MigrateTypeOK
  <1>2. ASSUME found # {} PROVE f \in archives /\ f.at = Staging(j.src.host) /\ f.ctid = j.src.ctid
                                /\ \A b \in archives : b.at = f.at /\ b.ctid = f.ctid => b.n <= f.n
                                /\ f.n \in Nat /\ (f.by # m) \in BOOLEAN
    <2>1. f \in found /\ \A b \in found : b.n <= f.n
      <3>1. found \subseteq archives
        OBVIOUS
      <3> HIDE DEF found
      <3> QED
        BY <1>1, <1>2, <3>1, MineIs
    <2> HIDE DEF f
    <2> QED
      BY <1>1, <2>1 DEF Archive
  <1>3. CASE /\ found # {} /\ pve' = (IF site = "shared" THEN [pve EXCEPT ![m] = "restore"] ELSE pve)
             /\ mig' = [x \in Migrations |->
                  IF x = m THEN [j EXCEPT !.vol = f.n, !.excused = @ \/ f.by # m,
                                          !.st = IF site = "shared" THEN "restore" ELSE "copy"]
                  ELSE IF f.by = x THEN [mig[x] EXCEPT !.excused = TRUE] ELSE mig[x]]
    <2>1. /\ f \in archives /\ f.at = Staging(j.src.host) /\ f.ctid = j.src.ctid
          /\ \A b \in archives : b.at = f.at /\ b.ctid = f.ctid => b.n <= f.n
          /\ f.n \in Nat /\ (f.by # m) \in BOOLEAN
      BY <1>2, <1>3
    <2> HIDE DEF f
    <2> DEFINE k == [j EXCEPT !.vol = f.n, !.excused = @ \/ f.by # m,
                              !.st = IF site = "shared" THEN "restore" ELSE "copy"]
               p == IF site = "shared" THEN "restore" ELSE "none"
    <2>2. /\ k \in Mig /\ k.src = j.src /\ k.dst = j.dst /\ k.vol = f.n /\ k.then = j.then
          /\ k.st = (IF site = "shared" THEN "restore" ELSE "copy")
          /\ k.excused = (j.excused \/ f.by # m)
      BY <1>0, <1>1, <2>1 DEF Mig, Under
    <2>3. mig'[m] = k
      BY <1>3
    <2> HIDE DEF k
    <2>4. ASSUME NEW x \in Migrations \ {m}
          PROVE  /\ mig'[x] \in Mig /\ mig'[x].st = mig[x].st /\ mig'[x].src = mig[x].src
                 /\ mig'[x].dst = mig[x].dst /\ mig'[x].vol = mig[x].vol /\ mig'[x].then = mig[x].then
                 /\ mig'[x].excused = mig[x].excused \/ (mig'[x].excused /\ f.by = x)
                 /\ f.by = x => mig'[x].excused
      <3>1. mig'[x] = IF f.by = x THEN [mig[x] EXCEPT !.excused = TRUE] ELSE mig[x]
        BY <1>3
      <3>2. mig[x] \in Mig
        BY <1>1
      <3>3. CASE f.by = x
        BY <3>1, <3>2, <3>3, ExcusedIs
      <3>4. CASE f.by # x
        BY <3>1, <3>2, <3>4
      <3> QED
        BY <3>3, <3>4
    <2>5. mig' \in [Migrations -> Mig]
      <3>1. DOMAIN mig' = Migrations /\ mig' = [x \in Migrations |-> mig'[x]]
        BY <1>3
      <3> QED
        BY <2>2, <2>3, <2>4, <3>1
    <2>6. p \in Tasks /\ pve' = [pve EXCEPT ![m] = p]
      BY <1>0, <1>3, MigHas DEF Tasks
    <2>7. \/ k.st = "copy" /\ p = "none" /\ site = "transfer"
          \/ k.st = "restore" /\ p = "restore" /\ site = "shared"
      BY <1>0, <1>1, <2>2, SiteAssumption
    <2> HIDE DEF p
    <2>8. /\ mig[m].excused \/ f.by # m => k.excused
          /\ k.src = mig[m].src /\ k.dst = mig[m].dst /\ k.vol = f.n /\ k.then = "failed"
          /\ f.at = Staging(mig[m].src.host) /\ f.ctid = mig[m].src.ctid
      BY <1>0, <2>1, <2>2
    <2>9. \A x \in Migrations \ {m} :
            /\ mig'[x].st = mig[x].st /\ mig'[x].src = mig[x].src /\ mig'[x].dst = mig[x].dst
            /\ mig'[x].vol = mig[x].vol /\ mig'[x].then = mig[x].then
            /\ mig'[x].excused = mig[x].excused \/ (mig'[x].excused /\ f.by = x)
            /\ k.st = "copy" /\ f.by = x => mig'[x].excused
      BY <2>4
    <2>10. mig[m].st = "listing" /\ site # "cluster"
      BY <1>0
    <2> HIDE DEF j
    <2> QED
      BY <1>0, <2>1, <2>2, <2>3, <2>5, <2>6, <2>7, <2>8, <2>9, <2>10, ListedInv
  <1>4. CASE found = {} /\ Sets(m, "failed") /\ pve' = pve
    <2>1. PICK k \in Mig : Takes(m, k, "failed", j.excused, j.then)
      BY <1>4, Goes DEF Under, Stages
    <2>2. "none" \in Tasks /\ StageOk(k, "none") /\ pve' = [pve EXCEPT ![m] = "none"]
      BY <1>0, <1>4, <2>1, MigHas DEF StageOk, Under, Sweeps, Tasks, Takes
    <2>3. site = "transfer" => \A a \in archives : ~(a.by = m /\ OwnAt(mig[m], a))
      BY <1>0, <1>4 DEF OwnAt, Staging
    <2> HIDE DEF j, found
    <2> QED
      BY <1>0, <2>1, <2>2, <2>3, PlainInv DEF SpentIs, ArrivedIs, NotYetIs, Sweeps, Takes, j
  <1>5. CASE SetsExcused(m, "failed", TRUE) /\ pve' = pve
    <2>1. PICK k \in Mig : Takes(m, k, "failed", TRUE, j.then)
      BY <1>5, GoesExcused DEF Under, Stages
    <2>2. "none" \in Tasks /\ StageOk(k, "none") /\ pve' = [pve EXCEPT ![m] = "none"]
      BY <1>0, <1>5, <2>1, MigHas DEF StageOk, Under, Sweeps, Tasks, Takes
    <2> HIDE DEF j, found
    <2> QED
      BY <1>0, <2>1, <2>2, PlainInv DEF SpentIs, ArrivedIs, NotYetIs, Sweeps, Takes, j
  <1>6. CASE /\ found # {} /\ site = "transfer" /\ pve' = pve
             /\ mig' = [mig EXCEPT ![m].st = "sweepSource", ![m].vol = f.n, ![m].excused = @ \/ f.by # m]
    <2>1. /\ f \in archives /\ f.at = Staging(j.src.host) /\ f.ctid = j.src.ctid
          /\ \A b \in archives : b.at = f.at /\ b.ctid = f.ctid => b.n <= f.n
          /\ f.n \in Nat /\ (f.by # m) \in BOOLEAN
      BY <1>2, <1>6
    <2> HIDE DEF f
    <2> DEFINE k == [j EXCEPT !.st = "sweepSource", !.vol = f.n, !.excused = @ \/ f.by # m]
    <2>2. /\ k \in Mig /\ k.src = j.src /\ k.dst = j.dst /\ k.vol = f.n /\ k.then = j.then
          /\ k.st = "sweepSource" /\ k.excused = (j.excused \/ f.by # m)
      BY <1>0, <1>1, <2>1 DEF Mig, Under
    <2>3. mig' = [mig EXCEPT ![m] = k]
      BY <1>1, <1>6
    <2> HIDE DEF k
    <2>4. /\ mig' \in [Migrations -> Mig] /\ mig'[m] = k
          /\ \A x \in Migrations \ {m} : mig'[x] = mig[x]
      BY <1>1, <2>2, <2>3
    <2>5. "none" \in Tasks /\ pve' = [pve EXCEPT ![m] = "none"]
      BY <1>0, <1>6, MigHas DEF Tasks
    <2>6. /\ mig[m].excused \/ f.by # m => k.excused
          /\ k.src = mig[m].src /\ k.dst = mig[m].dst /\ k.vol = f.n /\ k.then = "failed"
          /\ f.at = Staging(mig[m].src.host) /\ f.ctid = mig[m].src.ctid
      BY <1>0, <2>1, <2>2
    <2>7. \A x \in Migrations \ {m} :
            /\ mig'[x].st = mig[x].st /\ mig'[x].src = mig[x].src /\ mig'[x].dst = mig[x].dst
            /\ mig'[x].vol = mig[x].vol /\ mig'[x].then = mig[x].then
            /\ mig'[x].excused = mig[x].excused \/ (mig'[x].excused /\ f.by = x)
            /\ k.st = "copy" /\ f.by = x => mig'[x].excused
      BY <2>2, <2>4
    <2>8. /\ mig[m].st = "listing" /\ site # "cluster"
          /\ k.st = "sweepSource" /\ site = "transfer" /\ k.then = "failed"
      BY <1>0, <1>6, <2>2
    <2> HIDE DEF j, found
    <2>9. k \in Mig
      BY <2>2
    <2> QED
      BY <1>0, <2>1, <2>9, <2>4, <2>5, <2>6, <2>7, <2>8, ListedInv
  <1> QED
    BY <1>0, <1>1, <1>3, <1>4, <1>5, <1>6 DEF ListArchives, Ask, Sets, SetsExcused

(* The dumps there are, when another task is done; *)
LEMMA DumpsStay ==
  ASSUME MigrateInv, UNCHANGED <<site, mig, archives, clock>>,
         \A x \in Migrations : pve'[x] = pve[x] \/ (pve[x] # "dump" /\ pve'[x] = "none")
  PROVE  ArchivesKnown' /\ AsideSafe' /\ OwnKnown'
  <1>0. ArchivesKnown /\ AsideSafe /\ OwnKnown
    BY DEF MigrateInv
  <1>1. /\ site' = site /\ mig' = mig /\ archives' = archives /\ clock' = clock
    OBVIOUS
  <1>2. \A n : Chosen(n)' <=> Chosen(n)
    BY DEF Chosen
  <1>3. \A x \in Migrations : NotYetIs(mig[x], pve[x])' => NotYetIs(mig[x], pve[x])
    BY <1>1 DEF NotYetIs
  <1>4. ArchivesKnown'
    BY <1>0, <1>1, <1>2, <1>3 DEF ArchivesKnown
  <1>5. \A s, c : Waiting(s, c)' = Waiting(s, c)
    <2>1. ASSUME NEW s, NEW c, NEW x \in Migrations
          PROVE  WaitsIs(mig[x], pve[x], s, c)' <=> WaitsIs(mig[x], pve[x], s, c)
      <3>1. mig[x].st = "dump" => pve[x] \in {"none", "dump"}
        BY MigHas DEF StageOk
      <3> QED
        BY <1>1, <3>1 DEF WaitsIs, Staging
    <2> QED
      BY <2>1 DEF Waiting
  <1>6. \A a : Fresh(a)' = Fresh(a)
    BY <1>1, <1>2 DEF Fresh
  <1>7. AsideSafe'
    BY <1>0, <1>1, <1>5, <1>6 DEF AsideSafe
  <1>8. \A x \in Migrations : pve'[x] = "dump" => pve[x] = "dump"
    OBVIOUS
  <1>9. OwnKnown'
    BY <1>0, <1>1, <1>8 DEF OwnKnown, OwnAt
  <1> QED
    BY <1>4, <1>7, <1>9

(* and when there is one more. *)
LEMMA NewDump ==
  ASSUME MigrateInv, NEW d \in Archive, d.n = clock + 1, clock' = clock + 1,
         archives' = archives \cup {d}, UNCHANGED <<site, mig>>,
         \A x \in Migrations : pve'[x] = pve[x] \/ (d.by = x /\ pve[x] = "dump" /\ pve'[x] = "none"),
         d.by \in Migrations =>
           /\ pve[d.by] = "dump" /\ pve'[d.by] = "none" /\ ~d.aside
           /\ d.at = Staging(mig[d.by].src.host) /\ d.ctid = mig[d.by].src.ctid,
         d.aside => \A x \in Migrations : ~Looking(x)
  PROVE  ArchivesKnown' /\ AsideSafe' /\ OwnKnown'
  <1>0. /\ ArchivesKnown /\ AsideSafe /\ OwnKnown /\ clock \in Nat /\ archives \subseteq Archive
    BY DEF MigrateInv, MigrateTypeOK
  <1>1. /\ site' = site /\ mig' = mig
    OBVIOUS
  <1>2. d.by \in Migrations \/ d.by = "user"
    BY DEF Archive
  <1>3. \A n : Chosen(n)' <=> Chosen(n)
    BY DEF Chosen
  <1>4. \A x \in Migrations : mig[x].vol <= clock /\ mig[x].vol \in Nat
    BY <1>0, MigTypes DEF ArchivesKnown, MigrateInv
  <1>5. ~Chosen(d.n)
    BY <1>0, <1>4 DEF Chosen
  <1>6. \A a \in archives : a.n > 0 /\ a.n <= clock /\ a.n \in Nat /\ a.n # d.n
    BY <1>0 DEF ArchivesKnown, Archive
  <1>7. \A x \in Migrations :
          /\ NotYetIs(mig[x], pve[x])' => NotYetIs(mig[x], pve[x])
          /\ d.by = x => NotYetIs(mig[x], pve[x]) /\ ~NotYetIs(mig[x], pve[x])'
    <2> SUFFICES ASSUME NEW x \in Migrations
                 PROVE  /\ NotYetIs(mig[x], pve[x])' => NotYetIs(mig[x], pve[x])
                        /\ d.by = x => NotYetIs(mig[x], pve[x]) /\ ~NotYetIs(mig[x], pve[x])'
      OBVIOUS
    <2>1. StageOk(mig[x], pve[x])
      BY MigHas
    <2> QED
      BY <1>1, <2>1 DEF NotYetIs, StageOk
  <1>8. \A a \in archives : d.by \in Migrations => a.by # d.by
    BY <1>0, <1>7 DEF ArchivesKnown
  <1>9. ArchivesKnown'
    <2>1. IsFiniteSet(archives')
      BY <1>0, FS_AddElement DEF ArchivesKnown
    <2>2. \A x \in Migrations : mig'[x].vol <= clock'
      BY <1>0, <1>1, <1>4
    <2>3. ASSUME NEW a \in archives'
          PROVE  /\ a.n > 0 /\ a.n <= clock'
                 /\ a.aside => a.by = "user" /\ ~Chosen(a.n)'
                 /\ a.by \in Migrations => ~NotYetIs(mig[a.by], pve[a.by])'
      <3>1. CASE a = d
        BY <1>0, <1>2, <1>3, <1>5, <1>7, <3>1
      <3>2. CASE a \in archives
        BY <1>0, <1>3, <1>6, <1>7, <3>2 DEF ArchivesKnown
      <3> QED
        BY <3>1, <3>2
    <2>4. ASSUME NEW a \in archives', NEW b \in archives'
          PROVE  /\ a.n = b.n => /\ a.by = b.by /\ a.ctid = b.ctid /\ a.aside = b.aside
                                 /\ a.at = b.at \/ Chosen(a.n)'
                 /\ a.by = b.by /\ a.by # "user" => a.n = b.n
      <3>1. CASE a \in archives /\ b \in archives
        BY <1>0, <1>3, <3>1 DEF ArchivesKnown
      <3>2. CASE a = d \/ b = d
        BY <1>2, <1>6, <1>8, <3>2
      <3> QED
        BY <3>1, <3>2
    <2> QED
      BY <2>1, <2>2, <2>3, <2>4 DEF ArchivesKnown
  <1>10. \A s, c : IsFiniteSet(Waiting(s, c)) /\ Cardinality(Waiting(s, c)) \in Nat
    <2>1. \A s, c : Waiting(s, c) \subseteq Migrations
      BY DEF Waiting
    <2> QED
      BY <2>1, SiteAssumption, FS_Subset, FS_CardinalityType
  <1>11. ASSUME NEW s \in SUBSET archives'
         PROVE  IsFiniteSet(s) /\ Cardinality(s) \in Nat
    BY <1>9, FS_Subset, FS_CardinalityType DEF ArchivesKnown
  <1>12. AsideSafe'
    <2> SUFFICES ASSUME NEW a \in archives', a.aside
                 PROVE  Cardinality(Waiting(a.at, a.ctid)') <= Cardinality(Fresh(a)')
      BY DEF AsideSafe
    <2>1. Fresh(a)' \subseteq archives'
      BY DEF Fresh
    <2>2. IsFiniteSet(Fresh(a)') /\ Cardinality(Fresh(a)') \in Nat
      BY <1>11, <2>1
    <2>3. CASE a = d
      <3>1. \A x \in Migrations : ~Looking(x)
        BY <2>3
      <3>2. Waiting(a.at, a.ctid)' = {}
        BY <1>1, <3>1 DEF Waiting, WaitsIs, Looking
      <3>3. Cardinality(Waiting(a.at, a.ctid)') = 0
        BY <3>2, FS_EmptySet
      <3> QED
        BY <2>2, <3>3
    <2>4. CASE a \in archives
      <3>1. /\ Cardinality(Waiting(a.at, a.ctid)) <= Cardinality(Fresh(a))
            /\ IsFiniteSet(Waiting(a.at, a.ctid)) /\ Cardinality(Waiting(a.at, a.ctid)) \in Nat
        BY <1>0, <1>10, <2>4 DEF AsideSafe
      <3>2. Fresh(a) \subseteq archives /\ d \notin Fresh(a)
        BY <1>6 DEF Fresh
      <3>3. IsFiniteSet(Fresh(a)) /\ Cardinality(Fresh(a)) \in Nat
        BY <1>11, <3>2
      <3>4. Fresh(a) \subseteq Fresh(a)'
        BY <1>3 DEF Fresh
      <3>5. ASSUME NEW x \in Migrations, WaitsIs(mig[x], pve[x], a.at, a.ctid)'
            PROVE  \/ WaitsIs(mig[x], pve[x], a.at, a.ctid)
                   \/ x = d.by /\ d.at = a.at /\ d.ctid = a.ctid
        BY <1>1, <3>5 DEF WaitsIs, Staging
      <3>6. CASE d.at = a.at /\ d.ctid = a.ctid
        <4>1. d.n > a.n
          BY <1>0, <1>6, <2>4
        <4>2. Fresh(a) \cup {d} \subseteq Fresh(a)'
          BY <1>3, <1>5, <3>4, <3>6, <4>1 DEF Fresh
        <4>3. Cardinality(Fresh(a) \cup {d}) = Cardinality(Fresh(a)) + 1
          BY <3>2, <3>3, FS_AddElement
        <4>4. Cardinality(Fresh(a) \cup {d}) <= Cardinality(Fresh(a)')
          BY <2>2, <4>2, FS_Subset
        <4>5. Waiting(a.at, a.ctid)' \subseteq Waiting(a.at, a.ctid) \cup {d.by}
          BY <3>5 DEF Waiting
        <4>6. /\ IsFiniteSet(Waiting(a.at, a.ctid) \cup {d.by})
              /\ Cardinality(Waiting(a.at, a.ctid) \cup {d.by}) <= Cardinality(Waiting(a.at, a.ctid)) + 1
          <5>1. /\ IsFiniteSet(Waiting(a.at, a.ctid) \cup {d.by})
                /\ \/ Cardinality(Waiting(a.at, a.ctid) \cup {d.by}) = Cardinality(Waiting(a.at, a.ctid))
                   \/ Cardinality(Waiting(a.at, a.ctid) \cup {d.by}) = Cardinality(Waiting(a.at, a.ctid)) + 1
            BY <3>1, FS_AddElement
          <5> QED
            BY <3>1, <5>1
        <4>7. /\ Cardinality(Waiting(a.at, a.ctid)') <= Cardinality(Waiting(a.at, a.ctid) \cup {d.by})
              /\ IsFiniteSet(Waiting(a.at, a.ctid)')
          BY <4>5, <4>6, FS_Subset
        <4>8. /\ Cardinality(Waiting(a.at, a.ctid) \cup {d.by}) \in Nat
              /\ Cardinality(Waiting(a.at, a.ctid)') \in Nat
          BY <4>6, <4>7, FS_CardinalityType
        <4> QED
          BY <2>2, <3>1, <3>3, <4>3, <4>4, <4>6, <4>7, <4>8
      <3>7. CASE ~(d.at = a.at /\ d.ctid = a.ctid)
        <4>1. Waiting(a.at, a.ctid)' \subseteq Waiting(a.at, a.ctid)
          BY <3>5, <3>7 DEF Waiting
        <4> QED
          BY <2>2, <3>1, <3>4, <4>1, Smaller
      <3> QED
        BY <3>6, <3>7
    <2> QED
      BY <2>3, <2>4
  <1>13. OwnKnown'
    <2> SUFFICES ASSUME site = "transfer", NEW x \in Migrations, ~mig[x].excused
                 PROVE  /\ pve'[x] = "dump" => mig[x].st = "dump"
                        /\ \A a \in archives' : a.by = x =>
                             /\ OwnAt(mig[x], a)
                             /\ \A y \in Migrations \ {x} : mig[y].st = "copy" => a.n # mig[y].vol
      BY <1>1 DEF OwnKnown, OwnAt
    <2>1. /\ pve[x] = "dump" => mig[x].st = "dump"
          /\ \A a \in archives : a.by = x =>
               /\ OwnAt(mig[x], a)
               /\ \A y \in Migrations \ {x} : mig[y].st = "copy" => a.n # mig[y].vol
      BY <1>0 DEF OwnKnown
    <2>2. ASSUME d.by = x
          PROVE  OwnAt(mig[x], d) /\ \A y \in Migrations : d.n # mig[y].vol
      <3>1. mig[x].st = "dump" /\ d.at = mig[x].src.host /\ d.ctid = mig[x].src.ctid
        BY <2>1, <2>2 DEF Staging
      <3> QED
        BY <1>5, <3>1 DEF OwnAt, Chosen
    <2> QED
      BY <2>1, <2>2
  <1> QED
    BY <1>9, <1>12, <1>13

(* A task ends: the job is where it was. *)
LEMMA TaskStages ==
  ASSUME MigrateInv, NEW m \in Migrations, pve' = [pve EXCEPT ![m] = "none"], UNCHANGED <<site, mig>>
  PROVE  /\ StagesKnown' /\ pve' \in [Migrations -> Tasks] /\ pve'[m] = "none"
         /\ \A x \in Migrations \ {m} : pve'[x] = pve[x]
         /\ Spent \subseteq Spent'
         /\ \A x \in Migrations \ {m} : Arrived(x)' => Arrived(x)
         /\ \A c : TakenOn(c)' = TakenOn(c)
  <1>1. /\ pve' \in [Migrations -> Tasks] /\ pve'[m] = "none"
        /\ \A x \in Migrations \ {m} : pve'[x] = pve[x]
    BY MigHas DEF Tasks
  <1>2. site' = site /\ mig' = mig
    OBVIOUS
  <1>3. \A x \in Migrations : StageOk(mig[x], pve[x]) /\ pve'[x] \in {pve[x], "none"}
    BY <1>1, MigHas
  <1>4. StagesKnown'
    BY <1>2, <1>3 DEF StagesKnown, StageOk
  <1>5. Spent \subseteq Spent'
    BY <1>2, <1>3 DEF Spent, SpentIs
  <1>6. \A x \in Migrations \ {m} : Arrived(x)' => Arrived(x)
    BY <1>1, <1>2 DEF Arrived, ArrivedIs
  <1>7. \A c : TakenOn(c)' = TakenOn(c)
    BY <1>2 DEF TakenOn
  <1> QED
    BY <1>1, <1>4, <1>5, <1>6, <1>7

(* At most one more has made a container. *)
LEMMA StillFew ==
  ASSUME MigrateInv, Spent \subseteq Spent', DOMAIN cts' = DOMAIN cts
  PROVE  FewGuests'
  <1>1. Spent' \subseteq Migrations
    BY DEF Spent
  <1>2. IsFiniteSet(Spent')
    BY <1>1, SiteAssumption, FS_Subset
  <1>3. Cardinality(Spent) <= Cardinality(Spent') /\ IsFiniteSet(Spent)
    BY <1>2, FS_Subset
  <1>4. Cardinality(Spent) \in Nat /\ Cardinality(Spent') \in Nat
    BY <1>2, <1>3, FS_CardinalityType
  <1>5. IsFiniteSet(DOMAIN cts) /\ Cardinality(DOMAIN cts) \in Nat /\ Cardinality(DOMAIN cts) <= 1 + Cardinality(Spent)
    BY FS_CardinalityType DEF MigrateInv, FewGuests
  <1>6. IsFiniteSet(DOMAIN cts') /\ Cardinality(DOMAIN cts') \in Nat /\ Cardinality(DOMAIN cts') <= 1 + Cardinality(Spent')
    BY <1>3, <1>4, <1>5
  <1> QED
    BY <1>6 DEF FewGuests

(* The row and the jobs name containers. *)
LEMMA Named ==
  ASSUME MigrateInv, NEW m \in Migrations
  PROVE  /\ mig[m].src \in [host : HostSet, ctid : Ctids \cup {0}]
         /\ mig[m].dst \in [host : HostSet, ctid : Ctids \cup {0}]
         /\ appRow \in [host : HostSet, ctid : Ctids \cup {0}]
         /\ (mig[m].st \in Under \/ pve[m] # "none" \/ Arrived(m) =>
               /\ mig[m].src.ctid # 0 /\ mig[m].dst.ctid # 0
               /\ At(mig[m].src) \in HostSet \X Ctids /\ At(mig[m].dst) \in HostSet \X Ctids)
  <1>1. /\ mig[m].src \in [host : HostSet, ctid : Ctids \cup {0}]
        /\ mig[m].dst \in [host : HostSet, ctid : Ctids \cup {0}]
        /\ appRow \in [host : HostSet, ctid : Ctids \cup {0}]
    BY MigTypes DEF MigrateInv, MigrateTypeOK, Mig
  <1>2. mig[m].st \in Under \/ pve[m] # "none" \/ Arrived(m) => mig[m].src.ctid # 0 /\ mig[m].dst.ctid # 0
    BY MigHas DEF StageOk, Arrived, ArrivedIs, Sweeps, Under
  <1> QED
    BY <1>1, <1>2 DEF At

(* Two names at one place are one. *)
LEMMA SamePlace ==
  ASSUME NEW c \in [host : HostSet, ctid : Ctids \cup {0}], NEW d \in [host : HostSet, ctid : Ctids \cup {0}],
         At(c) = At(d)
  PROVE  c = d
  BY DEF At

(* A guest stops or starts where it is, *)
LEMMA SameGuests ==
  ASSUME MigrateInv, NEW m \in Migrations, pve' = [pve EXCEPT ![m] = "none"], UNCHANGED <<site, mig, appRow>>,
         DOMAIN cts' = DOMAIN cts, \A c \in DOMAIN cts : cts'[c] \in {"running", "stopped"},
         Arrived(m)' => Arrived(m),
         NEW g, g \in [host : HostSet, ctid : Ctids \cup {0}],
         \A c \in DOMAIN cts : cts'[c] = cts[c] \/ c = At(g),
         \/ g = mig[m].src
         \/ g = mig[m].dst /\ Arrived(m) /\ mig[m].st # "proven",
         UNCHANGED <<archives, clock>>, trouble' \in 0..MaxTrouble, pve[m] # "dump"
  PROVE  MigrateInv'
  <1>0. /\ MigrateTypeOK /\ RowKnown /\ OneGuest /\ GuestsStay /\ ArrivedAlone
    BY DEF MigrateInv
  <1>1. site' = site /\ mig' = mig /\ appRow' = appRow /\ archives' = archives /\ clock' = clock
    OBVIOUS
  <1>2. /\ StagesKnown' /\ pve' \in [Migrations -> Tasks] /\ pve'[m] = "none"
        /\ \A x \in Migrations \ {m} : pve'[x] = pve[x]
        /\ Spent \subseteq Spent' /\ \A c : TakenOn(c)' = TakenOn(c)
        /\ \A x \in Migrations : Arrived(x)' => Arrived(x)
    BY TaskStages
  <1>3. MigrateTypeOK'
    BY <1>0, <1>1, <1>2 DEF MigrateTypeOK, Tasks
  <1>4. FewGuests' /\ RowKnown' /\ OneGuest'
    BY <1>0, <1>1, <1>2, StillFew DEF RowKnown, OneGuest, Gone
  <1>5. GuestsStay'
    BY <1>0, <1>1, <1>2 DEF GuestsStay, At, Gone
  <1>6. ArrivedAlone'
    <2> SUFFICES ASSUME NEW y \in Migrations, Arrived(y)', ~TakenOn(mig[y].dst)
                 PROVE  /\ At(mig[y].dst) \in DOMAIN cts
                        /\ \A x \in Migrations \ {y} : Arrived(x)' => mig[x].dst # mig[y].dst
                        /\ mig[y].st = "proven" => cts'[At(mig[y].dst)] = "running"
      BY <1>1, <1>2 DEF ArrivedAlone, At
    <2>1. Arrived(y)
      BY <1>2
    <2>2. /\ At(mig[y].dst) \in DOMAIN cts
          /\ \A x \in Migrations \ {y} : Arrived(x) => mig[x].dst # mig[y].dst
          /\ mig[y].st = "proven" => cts[At(mig[y].dst)] = "running"
      BY <1>0, <2>1 DEF ArrivedAlone
    <2>3. mig[y].st = "proven" => g # mig[y].dst
      <3>1. mig[m].src # mig[y].dst
        BY <1>0, <2>1 DEF GuestsStay, TakenOn, MigrateTypeOK
      <3>2. mig[m].st # "proven" /\ Arrived(m) => mig[y].st # "proven" \/ mig[m].dst # mig[y].dst
        BY <2>2
      <3> QED
        BY <3>1, <3>2
    <2>4. mig[y].st = "proven" => cts'[At(mig[y].dst)] = cts[At(mig[y].dst)]
      <3>1. mig[y].dst \in [host : HostSet, ctid : Ctids \cup {0}]
        BY Named
      <3> QED
        BY <2>2, <2>3, <3>1, SamePlace
    <2> QED
      BY <1>2, <2>2, <2>4
  <1>7. ArchivesKnown' /\ AsideSafe' /\ OwnKnown'
    BY <1>1, <1>2, DumpsStay
  <1> QED
    BY <1>2, <1>3, <1>4, <1>5, <1>6, <1>7 DEF MigrateInv

(* a restore makes one, *)
LEMMA RestoredInv ==
  ASSUME MigrateInv, NEW m \in Migrations, pve' = [pve EXCEPT ![m] = "none"], pve[m] = "restore",
         UNCHANGED <<site, mig, appRow, archives, clock, trouble>>,
         At(mig[m].dst) \notin DOMAIN cts, cts' = Set(At(mig[m].dst), "stopped")
  PROVE  MigrateInv'
  <1> DEFINE g == At(mig[m].dst)
  <1>0. /\ MigrateTypeOK /\ RowKnown /\ OneGuest /\ GuestsStay /\ ArrivedAlone /\ FewGuests
    BY DEF MigrateInv
  <1>1. /\ site' = site /\ mig' = mig /\ appRow' = appRow /\ archives' = archives /\ clock' = clock
        /\ trouble' = trouble
    OBVIOUS
  <1>2. /\ StagesKnown' /\ pve' \in [Migrations -> Tasks] /\ pve'[m] = "none"
        /\ \A x \in Migrations \ {m} : pve'[x] = pve[x]
        /\ Spent \subseteq Spent'
        /\ \A x \in Migrations \ {m} : Arrived(x)' => Arrived(x)
    BY TaskStages
  <1>3. site # "cluster" /\ g \in HostSet \X Ctids /\ mig[m].dst.ctid # 0
    BY MigHas, Named DEF StageOk
  <1>4. /\ DOMAIN cts' = DOMAIN cts \cup {g} /\ cts'[g] = "stopped"
        /\ \A c \in DOMAIN cts : cts'[c] = cts[c]
    BY DEF Set
  <1>5. MigrateTypeOK'
    BY <1>0, <1>1, <1>2, <1>3, <1>4 DEF MigrateTypeOK, Tasks
  <1>6. FewGuests'
    <2>1. m \notin Spent
      BY DEF Spent, SpentIs
    <2>2. m \in Spent'
      <3>1. StageOk(mig[m], pve[m]) /\ mig[m].st \in Stages
        BY MigHas DEF Stages
      <3>2. mig[m].st \in Sweeps \cup {"restore", "failed", "canceled"}
        BY <3>1 DEF StageOk, Stages, Under, Sweeps
      <3> QED
        BY <1>1, <1>2, <3>2 DEF Spent, SpentIs
    <2>3. Spent' \subseteq Migrations /\ Spent \cup {m} \subseteq Spent'
      BY <1>2, <2>2 DEF Spent
    <2>4. IsFiniteSet(Spent')
      BY <2>3, SiteAssumption, FS_Subset
    <2>5. IsFiniteSet(Spent) /\ IsFiniteSet(Spent \cup {m}) /\ Cardinality(Spent \cup {m}) <= Cardinality(Spent')
      BY <2>3, <2>4, FS_Subset
    <2>6. Cardinality(Spent \cup {m}) = Cardinality(Spent) + 1
      BY <2>1, <2>5, FS_AddElement
    <2>7. Cardinality(Spent) \in Nat /\ Cardinality(Spent') \in Nat
      BY <2>4, <2>5, FS_CardinalityType
    <2>8. IsFiniteSet(DOMAIN cts) /\ Cardinality(DOMAIN cts) \in Nat /\ Cardinality(DOMAIN cts) <= 1 + Cardinality(Spent)
      BY <1>0, FS_CardinalityType DEF FewGuests
    <2>9. IsFiniteSet(DOMAIN cts \cup {g}) /\ Cardinality(DOMAIN cts \cup {g}) = Cardinality(DOMAIN cts) + 1
      BY <2>8, FS_AddElement
    <2>10. IsFiniteSet(DOMAIN cts') /\ Cardinality(DOMAIN cts') <= 1 + Cardinality(Spent')
      BY <1>4, <2>5, <2>6, <2>7, <2>8, <2>9
    <2> QED
      BY <2>10 DEF FewGuests
  <1>7. RowKnown' /\ OneGuest'
    BY <1>0, <1>1, <1>3 DEF RowKnown, OneGuest, Gone
  <1>8. /\ appRow # mig[m].dst
        /\ \A x \in Migrations : mig[x].src # mig[m].dst
        /\ \A x \in Migrations \ {m} : Arrived(x) => mig[x].dst # mig[m].dst /\ At(mig[x].dst) \in DOMAIN cts
    <2>1. appRow # mig[m].dst
      <3>1. Gone.ctid = 0
        BY NoMigIs
      <3> QED
        BY <1>0, <1>3, <3>1 DEF GuestsStay
    <2>2. \A x \in Migrations : mig[x].src # mig[m].dst
      BY <1>0, <1>3 DEF GuestsStay
    <2>3. \A x \in Migrations : Arrived(x) => At(mig[x].dst) \in DOMAIN cts
      BY <1>0, <1>3 DEF ArrivedAlone, TakenOn
    <2> QED
      BY <2>1, <2>2, <2>3
  <1>9. GuestsStay'
    <2> SUFFICES /\ appRow = Gone \/ At(appRow) \in DOMAIN cts'
                 /\ \A x \in Migrations : mig[x].src.ctid # 0 => At(mig[x].src) \in DOMAIN cts'
                 /\ \A y \in Migrations : Arrived(y)' =>
                      appRow # mig[y].dst /\ \A x \in Migrations : mig[x].src # mig[y].dst
      BY <1>1 DEF GuestsStay, At, Gone
    <2>1. /\ appRow = Gone \/ At(appRow) \in DOMAIN cts'
          /\ \A x \in Migrations : mig[x].src.ctid # 0 => At(mig[x].src) \in DOMAIN cts'
      BY <1>0, <1>3, <1>4 DEF GuestsStay
    <2>2. ASSUME NEW y \in Migrations, Arrived(y)'
          PROVE  appRow # mig[y].dst /\ \A x \in Migrations : mig[x].src # mig[y].dst
      BY <1>0, <1>2, <1>3, <1>8, <2>2 DEF GuestsStay
    <2> QED
      BY <2>1, <2>2
  <1>10. ArrivedAlone'
    <2> SUFFICES ASSUME NEW y \in Migrations, Arrived(y)'
                 PROVE  /\ At(mig[y].dst) \in DOMAIN cts'
                        /\ \A x \in Migrations \ {y} : Arrived(x)' => mig[x].dst # mig[y].dst
                        /\ mig[y].st = "proven" => cts'[At(mig[y].dst)] = "running"
      BY <1>1 DEF ArrivedAlone, At
    <2>1. CASE y = m
      <3>1. mig[m].st # "proven"
        BY MigHas DEF StageOk
      <3> QED
        BY <1>2, <1>4, <1>8, <2>1, <3>1
    <2>2. CASE y # m
      <3>1. Arrived(y) /\ ~TakenOn(mig[y].dst)
        BY <1>2, <1>3, <2>2 DEF TakenOn
      <3> QED
        BY <1>0, <1>2, <1>4, <1>8, <2>2, <3>1 DEF ArrivedAlone
    <2> QED
      BY <2>1, <2>2
  <1>11. ArchivesKnown' /\ AsideSafe' /\ OwnKnown'
    BY <1>1, <1>2, DumpsStay
  <1> QED
    BY <1>2, <1>5, <1>6, <1>7, <1>9, <1>10, <1>11 DEF MigrateInv

(* and a cluster moves it. *)
LEMMA MovedInv ==
  ASSUME MigrateInv, NEW m \in Migrations, pve' = [pve EXCEPT ![m] = "none"], pve[m] = "migrate",
         UNCHANGED <<site, mig, appRow, archives, clock, trouble>>, At(mig[m].src) \in DOMAIN cts,
         DOMAIN cts' = (DOMAIN cts \ {At(mig[m].src)}) \cup {At(mig[m].dst)},
         cts'[At(mig[m].dst)] = "stopped"
  PROVE  MigrateInv'
  <1> DEFINE g == At(mig[m].dst)
  <1>0. /\ MigrateTypeOK /\ RowKnown /\ OneGuest /\ GuestsStay /\ ArrivedAlone /\ FewGuests
    BY DEF MigrateInv
  <1>1. /\ site' = site /\ mig' = mig /\ appRow' = appRow /\ archives' = archives /\ clock' = clock
        /\ trouble' = trouble
    OBVIOUS
  <1>2. /\ StagesKnown' /\ pve' \in [Migrations -> Tasks] /\ pve'[m] = "none"
        /\ \A x \in Migrations \ {m} : pve'[x] = pve[x]
        /\ \A x \in Migrations \ {m} : Arrived(x)' => Arrived(x)
        /\ \A c : TakenOn(c)' = TakenOn(c)
    BY TaskStages
  <1>3. site = "cluster" /\ g \in HostSet \X Ctids
    BY MigHas, Named DEF StageOk
  <1>4. DOMAIN cts = {At(mig[m].src)} /\ DOMAIN cts' = {g} /\ cts'[g] = "stopped"
    <2>1. DOMAIN cts = {At(mig[m].src)}
      BY <1>0, <1>3 DEF OneGuest
    <2> HIDE DEF g
    <2> QED
      BY <2>1 DEF g
  <1>5. MigrateTypeOK'
    BY <1>0, <1>1, <1>2, <1>3, <1>4 DEF MigrateTypeOK, Tasks
  <1>6. FewGuests'
    <2>1. Spent' \subseteq Migrations
      BY DEF Spent
    <2>2. IsFiniteSet(Spent')
      BY <2>1, SiteAssumption, FS_Subset
    <2>3. Cardinality(Spent') \in Nat
      BY <2>2, FS_CardinalityType
    <2>4. IsFiniteSet(DOMAIN cts') /\ Cardinality(DOMAIN cts') = 1
      BY <1>4, FS_Singleton
    <2> QED
      BY <2>3, <2>4 DEF FewGuests
  <1>7. RowKnown' /\ OneGuest' /\ GuestsStay'
    BY <1>0, <1>1, <1>3, <1>4 DEF RowKnown, OneGuest, Gone, GuestsStay
  <1>8. \A x \in Migrations \ {m} : Arrived(x)' => TakenOn(mig[x].dst)
    <2> SUFFICES ASSUME NEW x \in Migrations \ {m}, Arrived(x), ~TakenOn(mig[x].dst) PROVE FALSE
      BY <1>2
    <2>1. At(mig[x].dst) = At(mig[m].src)
      BY <1>0, <1>4 DEF ArrivedAlone
    <2>2. mig[x].dst = mig[m].src
      BY <2>1, Named, SamePlace
    <2> QED
      BY <1>3, <2>2 DEF TakenOn
  <1>9. ArrivedAlone'
    <2> SUFFICES ASSUME NEW y \in Migrations, Arrived(y)', ~TakenOn(mig[y].dst)
                 PROVE  /\ At(mig[y].dst) \in DOMAIN cts'
                        /\ \A x \in Migrations \ {y} : Arrived(x)' => mig[x].dst # mig[y].dst
                        /\ mig[y].st = "proven" => cts'[At(mig[y].dst)] = "running"
      BY <1>1, <1>2 DEF ArrivedAlone, At
    <2>1. y = m
      BY <1>8
    <2>2. mig[m].st # "proven"
      BY MigHas DEF StageOk
    <2> QED
      BY <1>4, <1>8, <2>1, <2>2
  <1>10. ArchivesKnown' /\ AsideSafe' /\ OwnKnown'
    BY <1>1, <1>2, DumpsStay
  <1> QED
    BY <1>2, <1>5, <1>6, <1>7, <1>9, <1>10 DEF MigrateInv

(* One container set to a state. *)
LEMMA SetIs ==
  ASSUME MigrateTypeOK, NEW g \in DOMAIN cts, NEW s \in {"running", "stopped"}, cts' = Set(g, s)
  PROVE  /\ DOMAIN cts' = DOMAIN cts
         /\ \A c \in DOMAIN cts : cts'[c] = cts[c] \/ c = g
         /\ \A c \in DOMAIN cts : cts'[c] \in {"running", "stopped"}
  <1>1. /\ DOMAIN cts' = DOMAIN cts
        /\ \A c \in DOMAIN cts : cts'[c] = IF c = g THEN s ELSE cts[c]
    BY DEF Set
  <1>2. \A c \in DOMAIN cts : cts[c] \in {"running", "stopped"}
    BY DEF MigrateTypeOK
  <1> QED
    BY <1>1, <1>2

(* Each task that Proxmox ends. *)
LEMMA TaskDoneInv == ASSUME NEW m \in Migrations, MigrateInv, TaskDone(m) PROVE MigrateInv'
  <1>0. /\ pve' = [pve EXCEPT ![m] = "none"] /\ UNCHANGED <<site, appRow, mig>>
        /\ trouble' \in 0..MaxTrouble /\ StageOk(mig[m], pve[m])
    BY MigHas DEF TaskDone
  <1>1. pve'[m] = "none" /\ \A x \in Migrations \ {m} : pve'[x] = pve[x]
    BY <1>0, TaskStages
  <1>2. CASE /\ pve[m] = "stop" /\ At(mig[m].src) \in DOMAIN cts /\ UNCHANGED <<archives, clock>>
             /\ cts' = Set(At(mig[m].src), "stopped")
    <2>1. /\ DOMAIN cts' = DOMAIN cts
          /\ \A c \in DOMAIN cts : cts'[c] = cts[c] \/ c = At(mig[m].src)
          /\ \A c \in DOMAIN cts : cts'[c] \in {"running", "stopped"}
      BY <1>2, SetIs DEF MigrateInv
    <2>2. Arrived(m)' => Arrived(m)
      BY <1>0, <1>1, <1>2 DEF Arrived, ArrivedIs, StageOk, Sweeps
    <2>3. mig[m].src \in [host : HostSet, ctid : Ctids \cup {0}]
      BY Named
    <2> QED
      BY <1>0, <1>2, <2>1, <2>2, <2>3, SameGuests
  <1>3. CASE /\ pve[m] = "start" /\ At(mig[m].dst) \in DOMAIN cts /\ UNCHANGED <<archives, clock>>
             /\ \E s \in {"running", "stopped"} : cts' = Set(At(mig[m].dst), s)
    <2>1. /\ DOMAIN cts' = DOMAIN cts
          /\ \A c \in DOMAIN cts : cts'[c] = cts[c] \/ c = At(mig[m].dst)
          /\ \A c \in DOMAIN cts : cts'[c] \in {"running", "stopped"}
      BY <1>3, SetIs DEF MigrateInv
    <2>2. Arrived(m) /\ mig[m].st # "proven"
      BY <1>0, <1>3 DEF Arrived, ArrivedIs, StageOk
    <2>3. mig[m].dst \in [host : HostSet, ctid : Ctids \cup {0}]
      BY Named
    <2> QED
      BY <1>0, <1>3, <2>1, <2>2, <2>3, SameGuests
  <1>4. CASE /\ pve[m] = "restore" /\ At(mig[m].dst) \notin DOMAIN cts /\ UNCHANGED <<archives, clock, trouble>>
             /\ cts' = Set(At(mig[m].dst), "stopped")
    BY <1>0, <1>4, RestoredInv
  <1>5. CASE /\ pve[m] = "migrate" /\ At(mig[m].src) \in DOMAIN cts /\ UNCHANGED <<archives, clock, trouble>>
             /\ cts' = [c \in (DOMAIN cts \ {At(mig[m].src)}) \cup {At(mig[m].dst)} |->
                          IF c = At(mig[m].dst) THEN "stopped" ELSE cts[c]]
    <2>1. /\ DOMAIN cts' = (DOMAIN cts \ {At(mig[m].src)}) \cup {At(mig[m].dst)}
          /\ cts'[At(mig[m].dst)] = "stopped"
      BY <1>5
    <2>2. pve[m] = "migrate" /\ At(mig[m].src) \in DOMAIN cts /\ UNCHANGED <<archives, clock, trouble>>
      BY <1>5
    <2> QED
      BY <1>0, <2>1, <2>2, MovedInv
  <1>6. CASE /\ pve[m] = "dump" /\ clock' = clock + 1 /\ UNCHANGED <<cts, trouble>>
             /\ archives' = archives \cup {[at |-> Staging(mig[m].src.host), n |-> clock', by |-> m,
                                            ctid |-> mig[m].src.ctid, aside |-> FALSE]}
    <2> DEFINE d == [at |-> Staging(mig[m].src.host), n |-> clock', by |-> m,
                     ctid |-> mig[m].src.ctid, aside |-> FALSE]
    <2>0. /\ MigrateTypeOK /\ RowKnown /\ OneGuest /\ GuestsStay /\ ArrivedAlone
      BY DEF MigrateInv
    <2>1. clock \in Nat /\ archives \subseteq Archive
      BY <2>0 DEF MigrateTypeOK
    <2>2. mig[m].src.ctid \in Ctids /\ mig[m].src.host \in HostSet
      BY <1>6, Named
    <2>3. d \in Archive /\ d.n = clock + 1 /\ d.by = m /\ ~d.aside /\ d.at = Staging(mig[m].src.host)
          /\ d.ctid = mig[m].src.ctid
      BY <1>6, <2>1, <2>2 DEF Archive, Staging
    <2>4. archives' = archives \cup {d}
      BY <1>6
    <2> HIDE DEF d
    <2>5. ArchivesKnown' /\ AsideSafe' /\ OwnKnown'
      BY <1>0, <1>1, <1>6, <2>3, <2>4, NewDump
    <2>6. /\ StagesKnown' /\ pve' \in [Migrations -> Tasks] /\ Spent \subseteq Spent'
          /\ \A c : TakenOn(c)' = TakenOn(c)
          /\ \A x \in Migrations \ {m} : Arrived(x)' => Arrived(x)
      BY <1>0, TaskStages
    <2>7. site' = site /\ appRow' = appRow /\ mig' = mig /\ cts' = cts /\ clock' \in Nat
      BY <1>0, <1>6, <2>1
    <2>8. ~Arrived(m)'
      BY <1>0, <1>1, <1>6, <2>7 DEF Arrived, ArrivedIs, StageOk, Sweeps
    <2>9. MigrateTypeOK'
      BY <1>0, <2>0, <2>3, <2>4, <2>6, <2>7 DEF MigrateTypeOK, Tasks
    <2>10. FewGuests' /\ RowKnown' /\ OneGuest'
      BY <2>0, <2>6, <2>7, StillFew DEF RowKnown, OneGuest, Gone
    <2>11. GuestsStay'
      BY <2>0, <2>6, <2>7, <2>8 DEF GuestsStay, At, Gone
    <2>12. ArrivedAlone'
      BY <2>0, <2>6, <2>7, <2>8 DEF ArrivedAlone, At
    <2> QED
      BY <2>5, <2>6, <2>9, <2>10, <2>11, <2>12 DEF MigrateInv
  <1> QED
    BY <1>2, <1>3, <1>4, <1>5, <1>6 DEF TaskDone, Possible

(* Where no job moves. *)
LEMMA JobsStay ==
  ASSUME StagesKnown, RowKnown, OneGuest, FewGuests, UNCHANGED <<site, mig, pve, cts>>,
         appRow' = appRow \/ appRow' = Gone
  PROVE  StagesKnown' /\ RowKnown' /\ OneGuest' /\ FewGuests'
  <1>1. site' = site /\ mig' = mig /\ pve' = pve /\ cts' = cts
    OBVIOUS
  <1>2. ASSUME NEW x \in Migrations PROVE StageOk(mig[x], pve[x])'
    <2>1. StageOk(mig[x], pve[x])
      BY DEF StagesKnown
    <2> QED
      BY <1>1, <2>1 DEF StageOk, Gone
  <1>3. StagesKnown'
    BY <1>2 DEF StagesKnown
  <1>4. RowKnown' /\ OneGuest'
    BY <1>1 DEF RowKnown, OneGuest, Gone
  <1>5. FewGuests'
    BY <1>1 DEF FewGuests, Spent, SpentIs
  <1> QED
    BY <1>3, <1>4, <1>5

(* Somebody backs the app up, *)
LEMMA UserBackupInv == MigrateInv /\ UserBackup => MigrateInv'
  <1> SUFFICES ASSUME MigrateInv, UserBackup PROVE MigrateInv'
    OBVIOUS
  <1> DEFINE d == [at |-> Staging(appRow.host), n |-> clock', by |-> "user", ctid |-> appRow.ctid,
                   aside |-> \A m \in Migrations : ~Looking(m)]
  <1>0. /\ MigrateTypeOK /\ StagesKnown /\ RowKnown /\ FewGuests /\ OneGuest /\ GuestsStay /\ ArrivedAlone
    BY DEF MigrateInv
  <1>1. /\ site' = site /\ appRow' = appRow /\ cts' = cts /\ mig' = mig /\ pve' = pve
        /\ clock' = clock + 1 /\ trouble' \in 0..MaxTrouble /\ archives' = archives \cup {d}
        /\ <<appRow.host, appRow.ctid>> \in DOMAIN cts
    BY <1>0, SiteAssumption DEF UserBackup, Trouble, MigrateTypeOK
  <1>2. /\ clock \in Nat /\ archives \subseteq Archive /\ appRow.host \in HostSet /\ appRow.ctid \in Ctids
    BY <1>0, <1>1 DEF MigrateTypeOK
  <1>3. /\ d \in Archive /\ d.n = clock + 1 /\ d.by = "user"
        /\ d.aside => \A m \in Migrations : ~Looking(m)
    BY <1>1, <1>2 DEF Archive, Staging
  <1> HIDE DEF d
  <1>4. ArchivesKnown' /\ AsideSafe' /\ OwnKnown'
    BY <1>1, <1>3, SiteAssumption, NewDump
  <1>5. MigrateTypeOK'
    BY <1>0, <1>1, <1>2, <1>3 DEF MigrateTypeOK
  <1>6. StagesKnown' /\ RowKnown' /\ OneGuest' /\ FewGuests'
    BY <1>0, <1>1, JobsStay
  <1>8. GuestsStay' /\ ArrivedAlone'
    BY <1>0, <1>1 DEF GuestsStay, ArrivedAlone, Arrived, ArrivedIs, TakenOn, At, Gone
  <1> QED
    BY <1>4, <1>5, <1>6, <1>8 DEF MigrateInv

(* or forgets it. *)
LEMMA ForgetAppInv == MigrateInv /\ ForgetApp => MigrateInv'
  <1> SUFFICES ASSUME MigrateInv, ForgetApp PROVE MigrateInv'
    OBVIOUS
  <1>0. /\ MigrateTypeOK /\ StagesKnown /\ RowKnown /\ FewGuests /\ OneGuest /\ GuestsStay /\ ArrivedAlone
    BY DEF MigrateInv
  <1>1. /\ site' = site /\ appRow' = Gone /\ cts' = cts /\ mig' = mig /\ pve' = pve
        /\ clock' = clock /\ trouble' \in 0..MaxTrouble /\ archives' = archives
    BY <1>0, SiteAssumption DEF ForgetApp, Trouble, MigrateTypeOK
  <1>2. Gone \in [host : HostSet, ctid : Ctids \cup {0}] /\ Gone.ctid = 0
    BY NoMigIs
  <1>3. ArchivesKnown' /\ AsideSafe' /\ OwnKnown'
    BY <1>1, DumpsStay
  <1>4. MigrateTypeOK'
    BY <1>0, <1>1, <1>2 DEF MigrateTypeOK
  <1>5. StagesKnown' /\ RowKnown' /\ OneGuest' /\ FewGuests'
    BY <1>0, <1>1, JobsStay
  <1>7. GuestsStay'
    <2> SUFFICES ASSUME site # "cluster"
                 PROVE  /\ \A x \in Migrations : mig[x].src.ctid # 0 => At(mig[x].src) \in DOMAIN cts
                        /\ \A y \in Migrations : Arrived(y) =>
                             Gone # mig[y].dst /\ \A x \in Migrations : mig[x].src # mig[y].dst
      BY <1>1 DEF GuestsStay, Arrived, ArrivedIs, At, Gone
    <2>1. \A y \in Migrations : Arrived(y) => mig[y].dst.ctid # 0
      BY Named
    <2> QED
      BY <1>0, <1>2, <2>1 DEF GuestsStay
  <1>8. ArrivedAlone'
    BY <1>0, <1>1 DEF ArrivedAlone, Arrived, ArrivedIs, TakenOn, At
  <1> QED
    BY <1>3, <1>4, <1>5, <1>7, <1>8 DEF MigrateInv

(* Every step keeps the invariant. *)
LEMMA MigrateStep == MigrateInv /\ [MigrateNext]_migrateVars => MigrateInv'
  <1> SUFFICES ASSUME MigrateInv, [MigrateNext]_migrateVars PROVE MigrateInv'
    OBVIOUS
  <1>1. CASE UNCHANGED migrateVars
    <2>0. /\ MigrateTypeOK /\ StagesKnown /\ RowKnown /\ FewGuests /\ OneGuest /\ GuestsStay /\ ArrivedAlone
      BY DEF MigrateInv
    <2>1. UNCHANGED <<site, appRow, cts, archives, clock, mig, pve, trouble>>
      BY <1>1 DEF migrateVars
    <2>2. ArchivesKnown' /\ AsideSafe' /\ OwnKnown'
      BY <2>1, DumpsStay
    <2>3. MigrateTypeOK'
      BY <2>0, <2>1 DEF MigrateTypeOK
    <2>4. StagesKnown' /\ RowKnown' /\ OneGuest' /\ FewGuests'
      BY <2>0, <2>1, JobsStay
    <2>5. GuestsStay' /\ ArrivedAlone'
      BY <2>0, <2>1 DEF GuestsStay, ArrivedAlone, Arrived, ArrivedIs, TakenOn, At, Gone
    <2> QED
      BY <2>2, <2>3, <2>4, <2>5 DEF MigrateInv
  <1>2. CASE UserBackup \/ ForgetApp
    BY <1>2, UserBackupInv, ForgetAppInv
  <1>3. CASE \E m \in Migrations : Migrate(m) \/ TaskDone(m) \/ TaskFails(m) \/ CancelMigration(m)
    <2>1. PICK m \in Migrations : Migrate(m) \/ TaskDone(m) \/ TaskFails(m) \/ CancelMigration(m)
      BY <1>3
    <2> QED
      BY <2>1, LoadMigrationInv, CallsInv, ListArchivesInv, TransferInv, SweepInv, HealthInv, RepointInv,
         TaskDoneInv, TaskFailsInv, CancelMigrationInv DEF Migrate
  <1>4. CASE \E m \in Migrations, to \in HostSet : RequestMigration(m, to)
    BY <1>4, RequestMigrationInv
  <1> QED
    BY <1>1, <1>2, <1>3, <1>4 DEF MigrateNext

(* What a step does to the row, the containers and the dumps. *)
StepKeeps ==
    /\ site' = site
    /\ appRow' # appRow /\ appRow' # Gone =>
         \E m \in Migrations : appRow' = mig[m].dst /\ mig[m].st = "proven" /\ UNCHANGED cts
    /\ \/ DOMAIN cts \subseteq DOMAIN cts'
       \/ site = "cluster" /\ \E m \in Migrations :
            /\ DOMAIN cts = {At(mig[m].src)} /\ DOMAIN cts' = {At(mig[m].dst)}
            /\ mig[m].src.ctid = mig[m].dst.ctid
    /\ \/ archives \subseteq archives'
       \/ \E m \in Migrations : \A a \in archives : a.n # mig[m].vol => a \in archives'
(* Every step keeps to that. *)
LEMMA StepsKeep == ASSUME MigrateInv, [MigrateNext]_migrateVars PROVE StepKeeps
  <1>1. CASE UNCHANGED migrateVars
    BY <1>1 DEF StepKeeps, migrateVars
  <1>2. CASE UserBackup \/ ForgetApp
    BY <1>2 DEF UserBackup, ForgetApp, StepKeeps
  <1>3. ASSUME NEW m \in Migrations, TaskDone(m) PROVE StepKeeps
    <2>1. site' = site /\ appRow' = appRow /\ archives \subseteq archives'
      BY <1>3 DEF TaskDone
    <2>2. CASE pve[m] # "migrate"
      BY <1>3, <2>1, <2>2 DEF TaskDone, Set, StepKeeps
    <2>3. CASE pve[m] = "migrate"
      <3>1. site = "cluster" /\ mig[m].src.ctid = mig[m].dst.ctid /\ OneGuest
        BY <2>3, MigHas DEF StageOk, MigrateInv
      <3>2. /\ At(mig[m].src) \in DOMAIN cts
            /\ DOMAIN cts' = (DOMAIN cts \ {At(mig[m].src)}) \cup {At(mig[m].dst)}
        BY <1>3, <2>3 DEF TaskDone, Possible
      <3>3. DOMAIN cts = {At(mig[m].src)}
        BY <3>1, <3>2 DEF OneGuest
      <3>4. DOMAIN cts' = {At(mig[m].dst)}
        BY <3>2, <3>3
      <3> QED
        BY <2>1, <3>1, <3>3, <3>4 DEF StepKeeps
    <2> QED
      BY <2>2, <2>3
  <1>4. ASSUME NEW m \in Migrations, TaskFails(m) \/ CancelMigration(m) PROVE StepKeeps
    BY <1>4 DEF TaskFails, CancelMigration, StepKeeps
  <1>5. ASSUME NEW m \in Migrations, Sweep(m) PROVE StepKeeps
    <2>1. site' = site /\ appRow' = appRow /\ cts' = cts
      BY <1>5 DEF Sweep
    <2>2. \A a \in archives : a.n # mig[m].vol => a \in archives'
      BY <1>5 DEF Sweep
    <2> QED
      BY <2>1, <2>2 DEF StepKeeps
  <1>6. ASSUME NEW m \in Migrations, Repoint(m) PROVE StepKeeps
    BY <1>6 DEF Repoint, Go, StepKeeps
  <1>7. ASSUME NEW m \in Migrations,
               \/ LoadMigration(m) \/ StopSource(m) \/ SourceStopped(m) \/ Dumped(m) \/ ListArchives(m)
               \/ Transfer(m) \/ Restored(m) \/ Started(m) \/ Health(m)
        PROVE  StepKeeps
    <2>1. UNCHANGED <<site, appRow, cts>> /\ archives \subseteq archives'
      BY <1>7 DEF LoadMigration, StopSource, SourceStopped, Dumped, ListArchives, Transfer, Restored, Started, Health
    <2> QED
      BY <2>1 DEF StepKeeps
  <1>8. ASSUME NEW m \in Migrations, NEW to \in HostSet, RequestMigration(m, to) PROVE StepKeeps
    BY <1>8 DEF RequestMigration, StepKeeps
  <1> QED
    BY <1>1, <1>2, <1>3, <1>4, <1>5, <1>6, <1>7, <1>8 DEF MigrateNext, Migrate

(* Which is to lose none, and to leave none that was to be swept. *)
LEMMA KeepsStep ==
  ASSUME MigrateInv, MigrateInv', [MigrateNext]_migrateVars
  PROVE  /\ appRow' # appRow /\ appRow' # Gone =>
              (At(appRow') \in DOMAIN cts /\ cts[At(appRow')] = "running") \/ TakenOn(appRow')
         /\ site # "cluster" => DOMAIN cts \subseteq DOMAIN cts'
         /\ \A c \in DOMAIN cts : \E d \in DOMAIN cts' : d[2] = c[2]
         /\ \A a \in archives : a.aside => \E b \in archives' : b.n = a.n
         /\ site = "transfer" => \A m \in Migrations :
              Finished(m)' /\ ~mig'[m].excused => Left(m)' = {}
  <1>0. StepKeeps
    BY StepsKeep
  <1>1. ASSUME appRow' # appRow, appRow' # Gone, ~TakenOn(appRow')
        PROVE  At(appRow') \in DOMAIN cts /\ cts[At(appRow')] = "running"
    <2>1. PICK m \in Migrations : appRow' = mig[m].dst /\ mig[m].st = "proven"
      BY <1>0, <1>1 DEF StepKeeps
    <2>2. Arrived(m) /\ ~TakenOn(mig[m].dst)
      BY <1>1, <2>1 DEF Arrived, ArrivedIs
    <2> QED
      BY <2>1, <2>2 DEF MigrateInv, ArrivedAlone
  <1>2. site # "cluster" => DOMAIN cts \subseteq DOMAIN cts'
    BY <1>0 DEF StepKeeps
  <1>3. ASSUME NEW c \in DOMAIN cts PROVE \E d \in DOMAIN cts' : d[2] = c[2]
    <2>1. CASE DOMAIN cts \subseteq DOMAIN cts'
      BY <2>1
    <2>2. ASSUME NEW m \in Migrations, DOMAIN cts = {At(mig[m].src)}, DOMAIN cts' = {At(mig[m].dst)},
                 mig[m].src.ctid = mig[m].dst.ctid
          PROVE  \E d \in DOMAIN cts' : d[2] = c[2]
      <3>1. At(mig[m].src)[2] = mig[m].src.ctid /\ At(mig[m].dst)[2] = mig[m].dst.ctid
        BY DEF At
      <3>2. c = At(mig[m].src)
        BY <2>2
      <3> QED
        BY <2>2, <3>1, <3>2
    <2> QED
      BY <1>0, <2>1, <2>2 DEF StepKeeps
  <1>4. ASSUME NEW a \in archives, a.aside PROVE a \in archives'
    <2>1. \A m \in Migrations : a.n # mig[m].vol
      BY <1>4 DEF MigrateInv, ArchivesKnown, Chosen
    <2> QED
      BY <1>0, <2>1 DEF StepKeeps
  <1>5. ASSUME site = "transfer", NEW m \in Migrations, Finished(m)', ~mig'[m].excused PROVE Left(m)' = {}
    <2>1. site' = site
      BY <1>0 DEF StepKeeps
    <2>2. \A a \in archives' : a.by = m => OwnAt(mig'[m], a)
      BY <1>5, <2>1 DEF MigrateInv, OwnKnown, OwnAt
    <2>3. mig'[m].st \in {"failed", "canceled", "succeeded"}
      BY <1>5 DEF Finished
    <2>4. \A a \in archives' : a.by # m
      BY <2>2, <2>3 DEF OwnAt
    <2> QED
      BY <2>4 DEF Left
  <1> QED
    BY <1>1, <1>2, <1>3, <1>4, <1>5

(* A migration that stops anywhere, beside any others, costs nobody a container  *)
(* or a backup: services/migrate.py, "Failure ordering IS the safety property".  *)
THEOREM MigrationsKeep == MigrateSpec => MigrationKeeps
  <1>1. MigrateInit => MigrateInv
    BY MigrateInitInv
  <1>2. MigrateInv /\ [MigrateNext]_migrateVars => MigrateInv'
    BY MigrateStep
  <1>3. MigrateInv => MigrateTypeOK
    BY DEF MigrateInv
  <1>4. MigrateInv /\ MigrateInv' /\ [MigrateNext]_migrateVars =>
          [/\ appRow' # appRow /\ appRow' # Gone =>
                (At(appRow') \in DOMAIN cts /\ cts[At(appRow')] = "running") \/ TakenOn(appRow')
           /\ site # "cluster" => DOMAIN cts \subseteq DOMAIN cts'
           /\ \A c \in DOMAIN cts : \E d \in DOMAIN cts' : d[2] = c[2]]_migrateVars
    BY KeepsStep
  <1>5. MigrateInv /\ MigrateInv' /\ [MigrateNext]_migrateVars =>
          [/\ \A a \in archives : a.aside => \E b \in archives' : b.n = a.n
           /\ site = "transfer" => \A m \in Migrations :
                Finished(m)' /\ ~mig'[m].excused => Left(m)' = {}]_migrateVars
    BY KeepsStep
  <1> QED
    BY <1>1, <1>2, <1>3, <1>4, <1>5, PTL DEF MigrateSpec, MigrationKeeps, SourceKept, ArchivesKept

=============================================================================
