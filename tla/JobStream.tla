------------------------------ MODULE JobStream ------------------------------
(***************************************************************************)
(* The transcript stream of one job: JobContext.log, JobBackend._finish,   *)
(* _fanout and subscribe/unsubscribe (jobs/backend.py), the generator of   *)
(* GET /jobs/{id}/events/stream (api/jobs.py) and the EventSource client   *)
(* reading it (frontend JobLog.tsx, or any client that resumes).           *)
(*                                                                         *)
(* The job and the generator share the event loop, so a commit and its     *)
(* fanout are one uninterrupted step for the generator; but the backlog is *)
(* read on a thread, with two SELECTs that see two snapshots, and these    *)
(* fall anywhere, also between a commit and its fanout.                    *)
(***************************************************************************)
EXTENDS Naturals, SequencesExt

CONSTANTS
  MaxLines,      \* bound: lines the job writes
  MaxDrops,      \* bound: connections lost
  Sizes,         \* how large a subscriber's queue and a page of backlog() may be
  ClosesOnError  \* TRUE for JobLog, whose onerror closes the EventSource

ASSUME StreamAssumption ==
  /\ MaxLines \in Nat /\ MaxDrops \in Nat
  /\ Sizes \subseteq [queue : Nat \ {0}, page : Nat \ {0}]
  /\ ClosesOnError \in BOOLEAN

VARIABLES
  size,       \* the sizes this process runs with
  lines,      \* job_events rows of stdout/stderr, seq 1..lines
  status,     \* "running"; "settled" by _finish, with a status row of
              \* seq lines + 1; "cut" by the cancel route's UPDATE, without
  unsent,     \* frames committed and not fanned out yet
  gen,        \* where the generator is; "off" when there is no connection
  queue,      \* its subscriber queue
  after,      \* the resume cursor of this connection
  rowSeen,    \* the status its first SELECT returned
  replay,     \* backlog rows it still has to send
  last,       \* its high-water mark
  got,        \* ids of the lines the client has shown, in order
  verdicts,   \* status frames the client has shown
  client,     \* "open", "retrying" or "closed"
  drops       \* connections lost

jobVars    == <<lines, status, unsent>>
genVars    == <<gen, queue, after, rowSeen, replay, last>>
clientVars == <<got, verdicts, client, drops>>
vars == <<size, jobVars, genVars, clientVars>>

Line(n)   == [event |-> "line", id |-> n]
Status    == [event |-> "status", id |-> 0]
Frames    == {Line(n) : n \in 1..MaxLines} \cup {Status}

TypeOK ==
  /\ size \in Sizes
  /\ lines \in 0..MaxLines
  /\ status \in {"running", "settled", "cut"}
  /\ unsent \in {<<>>} \cup {<<f>> : f \in Frames}
  /\ gen \in {"off", "subscribed", "haveRow", "replaying", "live"}
  /\ queue \in Seq(Frames) /\ Len(queue) <= size.queue
  /\ after \in 0..MaxLines /\ last \in 0..MaxLines + 1
  /\ rowSeen \in {"running", "terminal"}
  /\ replay \in Seq(Frames)
  /\ got \in Seq(1..MaxLines)
  /\ verdicts \in Seq({"running", "terminal"})
  /\ client \in {"open", "retrying", "closed"}
  /\ drops \in 0..MaxDrops

Init ==
  /\ size \in Sizes
  /\ lines = 0 /\ status = "running" /\ unsent = <<>>
  /\ gen = "off" /\ queue = <<>> /\ after = 0 /\ rowSeen = "running"
  /\ replay = <<>> /\ last = 0
  /\ got = <<>> /\ verdicts = <<>> /\ client = "retrying" /\ drops = 0

LoopFree == unsent = <<>>
Subscribed == gen # "off"

-----------------------------------------------------------------------------
(* The job.                                                                *)

\* JobContext.log: the row is committed ...
WriteLine ==
  /\ LoopFree /\ status = "running" /\ lines < MaxLines
  /\ lines' = lines + 1
  /\ unsent' = <<Line(lines + 1)>>
  /\ UNCHANGED <<size, status, genVars, clientVars>>

\* ... _finish likewise, with the status row and the job's status at once ...
BugFinish ==
  /\ LoopFree /\ status = "running"
  /\ status' = "settled"
  /\ UNCHANGED <<size, lines, unsent, genVars, clientVars>>
Finish ==
  /\ LoopFree /\ status = "running"
  /\ status' = "settled"
  /\ unsent' = <<Status>>
  /\ UNCHANGED <<size, lines, genVars, clientVars>>

\* ... then fanned out; a full queue loses the frame.
Room == Len(queue) < size.queue

Fanout ==
  /\ unsent # <<>>
  /\ queue' = IF Subscribed /\ Room THEN queue \o unsent ELSE queue
  /\ unsent' = <<>>
  /\ UNCHANGED <<size, lines, status, gen, after, rowSeen, replay, last, clientVars>>

\* cancel_job's own UPDATE, on a thread, for a job no task owns.
CutOff ==
  /\ LoopFree /\ status = "running"
  /\ status' = "cut"
  /\ UNCHANGED <<size, lines, unsent, genVars, clientVars>>

-----------------------------------------------------------------------------
(* The generator.                                                          *)

NewestShown == IF got = <<>> THEN 0 ELSE Last(got)

\* Connect and subscribe.  Last-Event-ID is the last line the client saw.
Connect ==
  /\ LoopFree
  /\ gen = "off" /\ client = "retrying"
  /\ gen' = "subscribed"
  /\ queue' = <<>> /\ replay' = <<>>
  /\ after' = NewestShown /\ last' = NewestShown
  /\ client' = "open"
  /\ UNCHANGED <<size, jobVars, rowSeen, got, verdicts, drops>>

\* The thread's first SELECT: the job row.
ReadRow ==
  /\ gen = "subscribed"
  /\ rowSeen' = IF status = "running" THEN "running" ELSE "terminal"
  /\ gen' = "haveRow"
  /\ UNCHANGED <<size, jobVars, queue, after, replay, last, clientVars>>

\* The job_events of this moment: the lines, then the status row if any.
Events ==
  [n \in 1..lines |-> Line(n)] \o (IF status = "settled" THEN <<Status>> ELSE <<>>)

\* Its second SELECT: at most a page of rows past the cursor.
Backlog == SubSeq(Events, after + 1,
                  IF after + size.page < Len(Events) THEN after + size.page ELSE Len(Events))

ReadBacklog ==
  /\ gen = "haveRow"
  /\ replay' = Backlog
  /\ gen' = "replaying"
  /\ UNCHANGED <<size, jobVars, queue, after, rowSeen, last, clientVars>>

\* The client shows a frame; a status frame makes it close the EventSource.
Show(f, stat) ==
  /\ got' = IF f.event = "line" THEN Append(got, f.id) ELSE got
  /\ verdicts' = IF f.event = "status" THEN Append(verdicts, stat) ELSE verdicts
  /\ UNCHANGED drops

\* A closed connection ends the generator, whose finally unsubscribes.
Close(next) ==
  /\ gen' = "off" /\ queue' = <<>> /\ replay' = <<>>
  /\ client' = next

\* One backlog row.  A status row is sent with the status read before.
SendReplay ==
  /\ LoopFree
  /\ gen = "replaying" /\ replay # <<>>
  /\ Show(Head(replay), rowSeen)
  /\ last' = IF Head(replay).event = "line" THEN Head(replay).id ELSE lines + 1
  /\ IF Head(replay).event = "status"
     THEN Close("closed")
     ELSE replay' = Tail(replay) /\ UNCHANGED <<gen, queue, client>>
  /\ UNCHANGED <<size, jobVars, after, rowSeen>>

\* After the backlog: over if the job was, else follow live.
AfterError == IF ClosesOnError THEN "closed" ELSE "retrying"
EndReplay ==
  /\ LoopFree
  /\ gen = "replaying" /\ replay = <<>>
  /\ IF rowSeen = "terminal" THEN Close(AfterError)
     ELSE gen' = "live" /\ UNCHANGED <<queue, replay, client>>
  /\ UNCHANGED <<size, jobVars, after, rowSeen, last, got, verdicts, drops>>

\* f["event"] == "line" and f["id"] <= last
BugReplayed(f) == FALSE
Replayed(f) == f.event = "line" /\ f.id <= last

Follow ==
  /\ LoopFree
  /\ gen = "live" /\ queue # <<>>
  /\ IF Replayed(Head(queue)) THEN UNCHANGED <<got, verdicts, drops>>
     ELSE Show(Head(queue), "terminal")
  /\ IF Head(queue).event = "status"
     THEN Close("closed")
     ELSE queue' = Tail(queue) /\ UNCHANGED <<gen, replay, client>>
  /\ UNCHANGED <<size, jobVars, after, rowSeen, last>>

\* The connection breaks; the generator is cancelled at its next await.
Drop ==
  /\ LoopFree
  /\ gen # "off" /\ drops < MaxDrops
  /\ drops' = drops + 1
  /\ Close(AfterError)
  /\ UNCHANGED <<size, jobVars, after, rowSeen, last, got, verdicts>>

-----------------------------------------------------------------------------
Next == \/ WriteLine \/ Finish \/ Fanout \/ CutOff
        \/ Connect \/ ReadRow \/ ReadBacklog \/ SendReplay \/ EndReplay
        \/ Follow \/ Drop

Spec == Init /\ [][Next]_vars

\* The loop and the reading thread are scheduled, and an EventSource that is
\* retrying connects.  Nothing obliges the job to end or connections to hold.
Fairness ==
  /\ WF_vars(Fanout) /\ WF_vars(Connect) /\ WF_vars(ReadRow)
  /\ WF_vars(ReadBacklog) /\ WF_vars(SendReplay) /\ WF_vars(EndReplay)
  /\ WF_vars(Follow)

FairSpec == Spec /\ Fairness

-----------------------------------------------------------------------------
(* Properties.                                                             *)

\* Room for every frame of the job, its status row included.
Roomy == size.queue > MaxLines /\ size.page > MaxLines

\* "At worst replayed twice rather than lost", and deduped: with room for
\* every frame a client shows every line exactly once and in order, whatever
\* falls between subscribe, the two reads and the fanout, and across resumed
\* connections.
InOrder == got = [n \in 1..Len(got) |-> n]
Transcript == Roomy => InOrder

\* Even when queues overflow or a page is cut short, what the client shows
\* never goes back and never repeats.
Forward == \A i \in 1..Len(got) - 1 : got[i] < got[i + 1]

\* A client that has been told the job is over has been shown all of it.
VerdictIsLast ==
  Roomy => \A i \in DOMAIN verdicts : verdicts[i] = "terminal" => Len(got) = lines

\* What a client has been shown is the job's own transcript, as far as it goes,
\* and nothing after the word that it is over.
Told == TypeOK /\ Transcript /\ Forward /\ VerdictIsLast

\* A client that resumes is told that the job is over once it is.
VerdictReached == status = "settled" /\ Roomy ~> verdicts # <<>>

(* What a doc says and a lost connection refutes.                          *)

\* JobLog.tsx:7-8: "EventSource resumes itself via Last-Event-ID".
LogResumes == (drops > 0 /\ status = "settled") ~> verdicts # <<>>
=============================================================================
