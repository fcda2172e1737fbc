--------------------------- MODULE JobStreamProofs ---------------------------
(***************************************************************************)
(* Proofs about JobStream, for any number of lines, lost connections and   *)
(* any sizes of the queue and of a page of backlog().                      *)
(***************************************************************************)
EXTENDS JobStream, SequenceTheorems, TLAPS

-----------------------------------------------------------------------------
(* The inductive invariant. *)

\* The frames on their way to the generator: in its queue, and committed but
\* not fanned out yet.
Coming == queue \o unsent

\* The generator's cursor: all of it is of this job, and the replay starts
\* where the client is.
CursorOk ==
  /\ \A i \in 1..Len(got) : got[i] <= lines
  /\ gen # "off" => last <= NewestShown /\ after <= lines
  /\ gen \in {"subscribed", "haveRow"} => after = last
  /\ gen \in {"subscribed", "haveRow", "replaying"} => last = NewestShown

\* What is left to replay is a stretch of job_events that starts at the cursor.
ReplayOk ==
  gen = "replaying" =>
    /\ last + Len(replay) <= Len(Events)
    /\ \A i \in 1..Len(replay) : replay[i] = Events[last + i]

\* What is coming is in order, the status row after every line, and none of it
\* past the high-water mark was shown before.
ComingOk ==
  gen # "off" =>
    \A i \in 1..Len(Coming) :
      /\ Coming[i] = Status => status = "settled"
      /\ Coming[i] # Status =>
           /\ Coming[i].id <= lines
           /\ Coming[i].id > last => Coming[i].id > NewestShown
           /\ \A k \in 1..i - 1 : Coming[k] # Status /\ Coming[k].id < Coming[i].id

\* Nothing else is committed between a commit and its fanout.
UnsentOk ==
  unsent # <<>> => unsent[1] = IF status = "settled" THEN Status ELSE Line(lines)

\* With room for every frame: what is coming is the tail of job_events, and what
\* was shown and is still to be replayed reaches up to it.
Covered ==
  gen # "off" =>
    /\ Len(Coming) <= Len(Events)
    /\ \A i \in 1..Len(Coming) : Coming[i] = Events[Len(Events) - Len(Coming) + i]
    /\ gen = "replaying" => Len(Events) - Len(Coming) <= last + Len(replay)
    /\ gen = "live" => Len(Events) - Len(Coming) <= Len(got)

\* What was said to be over is.
VerdictOk == \A i \in 1..Len(verdicts) : verdicts[i] = "terminal" => status = "settled"

StreamInv ==
  /\ Told
  /\ CursorOk /\ ReplayOk /\ ComingOk /\ UnsentOk
  /\ (Roomy => Covered /\ VerdictOk)
-----------------------------------------------------------------------------
(* What the operators return. *)

\* A frame is a line or the status row.
LEMMA FrameKinds ==
  /\ Status \in Frames /\ Status.event = "status"
  /\ \A n \in 1..MaxLines : /\ Line(n) \in Frames /\ Line(n) # Status
                            /\ Line(n).event = "line" /\ Line(n).id = n
  /\ \A f \in Frames : /\ f.event = "status" <=> f = Status
                       /\ f.event = "line" <=> f # Status
                       /\ f # Status => f.id \in 1..MaxLines /\ f = Line(f.id)
BY StreamAssumption DEF Frames, Line, Status

\* A queue and a frame, or none, behind it.
LEMMA Behind ==
  ASSUME NEW q \in Seq(Frames)
  PROVE  /\ q \o <<>> = q
         /\ \A f \in Frames :
              /\ q \o <<f>> \in Seq(Frames) /\ Len(q \o <<f>>) = Len(q) + 1
              /\ (q \o <<f>>)[Len(q) + 1] = f
              /\ \A i \in 1..Len(q) : (q \o <<f>>)[i] = q[i]
OBVIOUS

\* The rows of job_events: the lines in order, then the status row.
Rows(n, s) == [i \in 1..n |-> Line(i)] \o (IF s = "settled" THEN <<Status>> ELSE <<>>)

\* A line's row stands at its number, the status row after them.
LEMMA RowsAre ==
  ASSUME NEW n \in 0..MaxLines, NEW s
  PROVE  /\ Rows(n, s) \in Seq(Frames)
         /\ Len(Rows(n, s)) = IF s = "settled" THEN n + 1 ELSE n
         /\ \A i \in 1..n : Rows(n, s)[i] = Line(i)
         /\ s = "settled" => Rows(n, s)[n + 1] = Status
<1> DEFINE text == [i \in 1..n |-> Line(i)]
<1>1. n \in Nat /\ n <= MaxLines /\ MaxLines \in Nat
  BY StreamAssumption
<1>2. text \in Seq(Frames) /\ Len(text) = n /\ \A i \in 1..n : text[i] = Line(i)
  <2>1. \A i \in 1..n : Line(i) \in Frames
    BY <1>1 DEF Frames
  <2> QED
    BY <1>1, <2>1
<1>3. Rows(n, s) = text \o (IF s = "settled" THEN <<Status>> ELSE <<>>)
  BY DEF Rows
<1> HIDE DEF text
<1>4. CASE s = "settled"
  <2>2. Rows(n, s) = text \o <<Status>>
    BY <1>3, <1>4
  <2>3. Status \in Frames
    BY DEF Frames
  <2>4. /\ text \o <<Status>> \in Seq(Frames) /\ Len(text \o <<Status>>) = n + 1
        /\ (text \o <<Status>>)[n + 1] = Status
        /\ \A i \in 1..n : (text \o <<Status>>)[i] = text[i]
    BY <1>2, <2>3, Behind
  <2> QED
    BY <1>2, <1>4, <2>2, <2>4
<1>5. CASE s # "settled"
  <2>1. Rows(n, s) = text \o <<>>
    BY <1>3, <1>5
  <2> QED
    BY <1>1, <1>2, <1>5, <2>1
<1> QED
  BY <1>4, <1>5

\* The rest of a queue.
LEMMA Rest ==
  ASSUME NEW q \in Seq(Frames), q # <<>>
  PROVE  /\ Head(q) = q[1] /\ Head(q) \in Frames /\ Len(q) \in Nat \ {0}
         /\ Tail(q) \in Seq(Frames) /\ Len(Tail(q)) = Len(q) - 1
         /\ \A i \in 1..Len(q) - 1 : Tail(q)[i] = q[i + 1]
OBVIOUS

\* The last line shown.
LEMMA NewestIs ==
  ASSUME StreamInv
  PROVE  NewestShown \in 0..lines /\ (Roomy => NewestShown = Len(got))
<1>1. got \in Seq(1..MaxLines) /\ lines \in Nat /\ MaxLines \in Nat
  BY StreamAssumption DEF StreamInv, Told, TypeOK
<1>2. CASE got = <<>>
  BY <1>1, <1>2 DEF NewestShown
<1>3. CASE got # <<>>
  <2>1. Len(got) \in Nat /\ Len(got) > 0 /\ NewestShown = got[Len(got)]
    BY <1>1, <1>3 DEF NewestShown, Last
  <2>2. got[Len(got)] \in 1..MaxLines /\ got[Len(got)] <= lines
    BY <1>1, <2>1 DEF StreamInv, CursorOk
  <2>3. Roomy => got[Len(got)] = Len(got)
    BY <2>1 DEF StreamInv, Told, Transcript, InOrder
  <2> QED
    BY <1>1, <2>1, <2>2, <2>3
<1> QED
  BY <1>2, <1>3

\* Numbers and sequences of a state.
LEMMA Shapes ==
  ASSUME TypeOK
  PROVE  /\ queue \in Seq(Frames) /\ replay \in Seq(Frames) /\ Coming \in Seq(Frames)
         /\ got \in Seq(1..MaxLines)
         /\ size.queue \in Nat \ {0} /\ size.page \in Nat \ {0}
         /\ Events = Rows(lines, status) /\ Events \in Seq(Frames)
<1>1. unsent \in Seq(Frames)
  <2>1. CASE unsent = <<>>
    BY <2>1
  <2>2. CASE unsent # <<>>
    <3>1. PICK f \in Frames : unsent = <<f>>
      BY <2>2 DEF TypeOK
    <3> QED
      BY <3>1
  <2> QED
    BY <2>1, <2>2
<1>2. Coming \in Seq(Frames)
  BY <1>1, ConcatProperties DEF TypeOK, Coming
<1>3. Events = Rows(lines, status)
  BY DEF Events, Rows
<1>4. size.queue \in Nat \ {0} /\ size.page \in Nat \ {0}
  BY StreamAssumption DEF TypeOK
<1> QED
  BY <1>2, <1>3, <1>4, RowsAre DEF TypeOK

\* A sequence is the function of its elements.
LEMMA SeqIsFunction ==
  ASSUME NEW S, NEW s \in Seq(S)
  PROVE  s = [i \in 1..Len(s) |-> s[i]]
OBVIOUS

\* Length and elements of a sequence.
LEMMA SeqIn ==
  ASSUME NEW S, NEW s \in Seq(S)
  PROVE  Len(s) \in Nat /\ \A i \in 1..Len(s) : s[i] \in S
OBVIOUS

\* The counters and lengths the steps compute with are natural numbers.
LEMMA Numbers ==
  ASSUME TypeOK
  PROVE  /\ lines \in Nat /\ lines <= MaxLines /\ MaxLines \in Nat
         /\ after \in Nat /\ last \in Nat
         /\ Len(got) \in Nat /\ Len(queue) \in Nat /\ Len(replay) \in Nat
         /\ Len(Coming) \in Nat /\ Len(Events) \in Nat
         /\ \A i \in 1..Len(got) : got[i] \in 1..MaxLines
<1>1. /\ Len(queue) \in Nat /\ Len(replay) \in Nat
      /\ Len(Coming) \in Nat /\ Len(Events) \in Nat
  BY Shapes, SeqIn
<1>2. got \in Seq(1..MaxLines)
  BY DEF TypeOK
<1>3. Len(got) \in Nat /\ \A i \in 1..Len(got) : got[i] \in 1..MaxLines
  BY <1>2, SeqIn
<1>4. lines \in Nat /\ lines <= MaxLines /\ MaxLines \in Nat /\ after \in Nat /\ last \in Nat
  BY StreamAssumption DEF TypeOK
<1> QED
  BY <1>1, <1>3, <1>4

\* What is coming are frames, with an id on each line's.
LEMMA ComingTyped ==
  ASSUME TypeOK
  PROVE  \A i \in 1..Len(Coming) : Coming[i] \in Frames /\ (Coming[i] # Status => Coming[i].id \in Nat)
<1>1. \A i \in 1..Len(Coming) : Coming[i] \in Frames
  BY Shapes, SeqIn
<1> QED
  BY <1>1, FrameKinds

-----------------------------------------------------------------------------
(* The job. *)

\* A line: one more row, and the same frame behind what is coming.
LEMMA WriteLineInv == StreamInv /\ WriteLine => StreamInv'
<1> SUFFICES ASSUME StreamInv, WriteLine PROVE StreamInv'
  OBVIOUS
<1> DEFINE x == Line(lines + 1)
<1>0. TypeOK
  BY DEF StreamInv, Told
<1>1. /\ unsent = <<>> /\ status = "running" /\ lines < MaxLines /\ lines' = lines + 1
      /\ unsent' = <<x>>
      /\ UNCHANGED <<size, status, gen, queue, after, rowSeen, replay, last, got, verdicts, client, drops>>
  BY DEF WriteLine, LoopFree, genVars, clientVars
<1>2. x \in Frames /\ x # Status /\ x.id = lines + 1 /\ lines + 1 \in 1..MaxLines
  BY <1>0, <1>1, FrameKinds, Numbers
<1>3. Coming = queue /\ Coming' = queue \o <<x>>
  BY <1>0, <1>1, Shapes, Behind DEF Coming
<1> HIDE DEF x
<1>4. /\ Len(Coming') = Len(Coming) + 1 /\ Coming'[Len(Coming) + 1] = x
      /\ \A i \in 1..Len(Coming) : Coming'[i] = Coming[i]
  BY <1>0, <1>2, <1>3, Shapes, Behind
<1>5. /\ Len(Events) = lines /\ Len(Events') = lines + 1 /\ Events'[lines + 1] = x
      /\ \A i \in 1..lines : Events'[i] = Events[i]
  <2>1. Events' = Rows(lines + 1, status) /\ Events = Rows(lines, status)
    BY <1>1 DEF Events, Rows
  <2>2. lines \in Nat /\ lines \in 0..MaxLines /\ lines + 1 \in 0..MaxLines
    BY <1>0, <1>1, Numbers
  <2>3. Len(Rows(lines, status)) = lines /\ \A i \in 1..lines : Rows(lines, status)[i] = Line(i)
    BY <1>1, <2>2, RowsAre
  <2>4. /\ Len(Rows(lines + 1, status)) = lines + 1
        /\ \A i \in 1..lines + 1 : Rows(lines + 1, status)[i] = Line(i)
    BY <1>1, <2>2, RowsAre
  <2> QED
    BY <2>1, <2>2, <2>3, <2>4 DEF x
<1>6. TypeOK'
  BY <1>0, <1>1, <1>2 DEF TypeOK
<1>7. Told'
  <2>1. Transcript' /\ Forward'
    BY <1>1 DEF StreamInv, Told, Transcript, Forward, InOrder, Roomy
  <2>2. VerdictIsLast'
    <3>1. DOMAIN verdicts = 1..Len(verdicts)
      BY <1>0 DEF TypeOK
    <3> QED
      BY <1>1, <3>1 DEF StreamInv, VerdictOk, VerdictIsLast, Roomy
  <2> QED
    BY <1>6, <2>1, <2>2 DEF Told
<1>8. CursorOk'
  BY <1>0, <1>1, Numbers DEF StreamInv, CursorOk, NewestShown
<1>9. ReplayOk'
  <2> SUFFICES ASSUME gen = "replaying"
               PROVE  /\ last + Len(replay) <= Len(Events')
                      /\ \A i \in 1..Len(replay) : replay[i] = Events'[last + i]
    BY <1>1 DEF ReplayOk
  <2>1. lines \in Nat /\ last \in Nat /\ Len(replay) \in Nat
    BY <1>0, Numbers
  <2>2. /\ last + Len(replay) <= Len(Events)
        /\ \A i \in 1..Len(replay) : replay[i] = Events[last + i]
    BY DEF StreamInv, ReplayOk
  <2>3. last + Len(replay) <= Len(Events')
    BY <1>5, <2>1, <2>2
  <2>4. ASSUME NEW i \in 1..Len(replay) PROVE replay[i] = Events'[last + i]
    <3>1. last + i \in 1..lines
      BY <1>5, <2>1, <2>2
    <3> QED
      BY <1>5, <2>2, <3>1
  <2> QED
    BY <2>3, <2>4
<1>10. ComingOk'
  <2> SUFFICES ASSUME gen # "off", NEW i \in 1..Len(Coming) + 1
               PROVE  /\ Coming'[i] = Status => status = "settled"
                      /\ Coming'[i] # Status =>
                           /\ Coming'[i].id <= lines + 1
                           /\ Coming'[i].id > last => Coming'[i].id > NewestShown
                           /\ \A k \in 1..i - 1 : Coming'[k] # Status /\ Coming'[k].id < Coming'[i].id
    BY <1>1, <1>4 DEF ComingOk, NewestShown
  <2>1. Len(Coming) \in Nat /\ lines \in Nat /\ NewestShown \in 0..lines
    BY <1>0, Numbers, NewestIs
  <2>2. CASE i \in 1..Len(Coming)
    <3>1. Coming'[i] = Coming[i] /\ \A k \in 1..i - 1 : Coming'[k] = Coming[k]
      BY <1>4, <2>1, <2>2
    <3>2. Coming[i] # Status => Coming[i].id \in Nat
      BY <1>0, <2>2, ComingTyped
    <3> QED
      BY <2>1, <2>2, <3>1, <3>2 DEF StreamInv, ComingOk
  <2>3. CASE i = Len(Coming) + 1
    <3>1. \A k \in 1..i - 1 : /\ Coming'[k] = Coming[k] /\ Coming[k] # Status
                              /\ Coming[k].id \in Nat /\ Coming[k].id <= lines
      BY <1>0, <1>1, <1>4, <2>1, <2>3, ComingTyped DEF StreamInv, ComingOk
    <3> QED
      BY <1>2, <1>4, <2>1, <2>3, <3>1
  <2> QED
    BY <2>1, <2>2, <2>3
<1>11. UnsentOk'
  BY <1>1 DEF UnsentOk, x
<1>12. Roomy' => Covered' /\ VerdictOk'
  <2> SUFFICES ASSUME Roomy PROVE Covered' /\ VerdictOk'
    BY <1>1 DEF Roomy
  <2>1. VerdictOk'
    BY <1>1 DEF StreamInv, VerdictOk
  <2>2. CASE gen = "off"
    BY <1>1, <2>1, <2>2 DEF Covered
  <2>3. CASE gen # "off"
    <3> DEFINE m == Len(Coming)
               n == Len(Events)
    <3>1. /\ m \in Nat /\ n \in Nat /\ m <= n
          /\ \A i \in 1..m : Coming[i] = Events[n - m + i]
          /\ gen = "replaying" => n - m <= last + Len(replay)
          /\ gen = "live" => n - m <= Len(got)
      BY <1>0, <2>3, Numbers DEF StreamInv, Covered
    <3>2. Len(Coming') = m + 1 /\ Len(Events') = n + 1
      BY <1>4, <1>5
    <3>3. \A i \in 1..m + 1 : Coming'[i] = Events'[(n + 1) - (m + 1) + i]
      <4> SUFFICES ASSUME NEW i \in 1..m + 1
                   PROVE  Coming'[i] = Events'[(n + 1) - (m + 1) + i]
        OBVIOUS
      <4>1. (n + 1) - (m + 1) + i = n - m + i
        BY <3>1
      <4>2. CASE i = m + 1
        <5>1. n - m + i = n + 1
          BY <3>1, <4>2
        <5> QED
          BY <1>4, <1>5, <4>1, <4>2, <5>1
      <4>3. CASE i \in 1..m
        <5>1. n - m + i \in 1..n
          BY <3>1, <4>3
        <5>2. Coming'[i] = Coming[i] /\ Events'[n - m + i] = Events[n - m + i]
          BY <1>4, <1>5, <4>3, <5>1
        <5> QED
          BY <3>1, <4>1, <4>3, <5>2
      <4> QED
        BY <3>1, <4>2, <4>3
    <3>4. (n + 1) - (m + 1) = n - m /\ m + 1 <= n + 1
      BY <3>1
    <3> HIDE DEF m, n
    <3> QED
      BY <1>1, <2>1, <3>1, <3>2, <3>3, <3>4 DEF Covered
  <2> QED
    BY <2>2, <2>3
<1> QED
  BY <1>7, <1>8, <1>9, <1>10, <1>11, <1>12 DEF StreamInv

\* The end: the status row, and the frame that says so.
LEMMA FinishInv == StreamInv /\ Finish => StreamInv'
<1> SUFFICES ASSUME StreamInv, Finish PROVE StreamInv'
  OBVIOUS
<1>0. TypeOK
  BY DEF StreamInv, Told
<1>1. /\ unsent = <<>> /\ status = "running" /\ status' = "settled"
      /\ unsent' = <<Status>>
      /\ UNCHANGED <<size, lines, gen, queue, after, rowSeen, replay, last, got, verdicts, client, drops>>
  BY DEF Finish, LoopFree, genVars, clientVars
<1>2. Status \in Frames
  BY FrameKinds
<1>3. Coming = queue /\ Coming' = queue \o <<Status>>
  BY <1>0, <1>1, Shapes, Behind DEF Coming
<1>4. /\ Len(Coming') = Len(Coming) + 1 /\ Coming'[Len(Coming) + 1] = Status
      /\ \A i \in 1..Len(Coming) : Coming'[i] = Coming[i]
  BY <1>0, <1>2, <1>3, Shapes, Behind
<1>5. /\ Len(Events) = lines /\ Len(Events') = lines + 1 /\ Events'[lines + 1] = Status
      /\ \A i \in 1..lines : Events'[i] = Events[i]
  <2>1. Events' = Rows(lines, "settled") /\ Events = Rows(lines, status)
    BY <1>1 DEF Events, Rows
  <2> QED
    BY <1>0, <1>1, <2>1, Numbers, RowsAre
<1>6. TypeOK'
  BY <1>0, <1>1, <1>2 DEF TypeOK
<1>7. Told'
  BY <1>1, <1>6 DEF StreamInv, Told, Transcript, Forward, InOrder, Roomy, VerdictIsLast
<1>8. CursorOk'
  BY <1>0, <1>1, Numbers DEF StreamInv, CursorOk, NewestShown
<1>9. ReplayOk'
  <2> SUFFICES ASSUME gen = "replaying"
               PROVE  /\ last + Len(replay) <= Len(Events')
                      /\ \A i \in 1..Len(replay) : replay[i] = Events'[last + i]
    BY <1>1 DEF ReplayOk
  <2>1. lines \in Nat /\ last \in Nat /\ Len(replay) \in Nat
    BY <1>0, Numbers
  <2>2. /\ last + Len(replay) <= Len(Events)
        /\ \A i \in 1..Len(replay) : replay[i] = Events[last + i]
    BY DEF StreamInv, ReplayOk
  <2>3. last + Len(replay) <= Len(Events')
    BY <1>5, <2>1, <2>2
  <2>4. ASSUME NEW i \in 1..Len(replay) PROVE replay[i] = Events'[last + i]
    <3>1. last + i \in 1..lines
      BY <1>5, <2>1, <2>2
    <3> QED
      BY <1>5, <2>2, <3>1
  <2> QED
    BY <2>3, <2>4
<1>10. ComingOk'
  <2> SUFFICES ASSUME gen # "off", NEW i \in 1..Len(Coming) + 1, Coming'[i] # Status
               PROVE  /\ Coming'[i].id <= lines
                      /\ Coming'[i].id > last => Coming'[i].id > NewestShown
                      /\ \A k \in 1..i - 1 : Coming'[k] # Status /\ Coming'[k].id < Coming'[i].id
    BY <1>1, <1>4 DEF ComingOk, NewestShown
  <2>1. Len(Coming) \in Nat
    BY <1>0, Numbers
  <2>2. i \in 1..Len(Coming)
    BY <1>4, <2>1
  <2>3. Coming'[i] = Coming[i] /\ \A k \in 1..i - 1 : Coming'[k] = Coming[k]
    BY <1>4, <2>1, <2>2
  <2> QED
    BY <2>1, <2>2, <2>3 DEF StreamInv, ComingOk
<1>11. UnsentOk'
  BY <1>1 DEF UnsentOk
<1>12. Roomy' => Covered' /\ VerdictOk'
  <2> SUFFICES ASSUME Roomy PROVE Covered' /\ VerdictOk'
    BY <1>1 DEF Roomy
  <2>1. VerdictOk'
    BY <1>1 DEF StreamInv, VerdictOk
  <2>2. CASE gen = "off"
    BY <1>1, <2>1, <2>2 DEF Covered
  <2>3. CASE gen # "off"
    <3> DEFINE m == Len(Coming)
               n == Len(Events)
    <3>1. /\ m \in Nat /\ n \in Nat /\ m <= n
          /\ \A i \in 1..m : Coming[i] = Events[n - m + i]
          /\ gen = "replaying" => n - m <= last + Len(replay)
          /\ gen = "live" => n - m <= Len(got)
      BY <1>0, <2>3, Numbers DEF StreamInv, Covered
    <3>2. Len(Coming') = m + 1 /\ Len(Events') = n + 1
      BY <1>4, <1>5
    <3>3. \A i \in 1..m + 1 : Coming'[i] = Events'[(n + 1) - (m + 1) + i]
      <4> SUFFICES ASSUME NEW i \in 1..m + 1
                   PROVE  Coming'[i] = Events'[(n + 1) - (m + 1) + i]
        OBVIOUS
      <4>1. (n + 1) - (m + 1) + i = n - m + i
        BY <3>1
      <4>2. CASE i = m + 1
        <5>1. n - m + i = n + 1
          BY <3>1, <4>2
        <5> QED
          BY <1>4, <1>5, <4>1, <4>2, <5>1
      <4>3. CASE i \in 1..m
        <5>1. n - m + i \in 1..n
          BY <3>1, <4>3
        <5>2. Coming'[i] = Coming[i] /\ Events'[n - m + i] = Events[n - m + i]
          BY <1>4, <1>5, <4>3, <5>1
        <5> QED
          BY <3>1, <4>1, <4>3, <5>2
      <4> QED
        BY <3>1, <4>2, <4>3
    <3>4. (n + 1) - (m + 1) = n - m /\ m + 1 <= n + 1
      BY <3>1
    <3> HIDE DEF m, n
    <3> QED
      BY <1>1, <2>1, <3>1, <3>2, <3>3, <3>4 DEF Covered
  <2> QED
    BY <2>2, <2>3
<1> QED
  BY <1>7, <1>8, <1>9, <1>10, <1>11, <1>12 DEF StreamInv

\* The cancel route's own UPDATE: no row, no frame.
LEMMA CutOffInv == StreamInv /\ CutOff => StreamInv'
<1> SUFFICES ASSUME StreamInv, CutOff PROVE StreamInv'
  OBVIOUS
<1>1. /\ unsent = <<>> /\ status = "running" /\ status' = "cut"
      /\ UNCHANGED <<size, lines, unsent, gen, queue, after, rowSeen, replay, last, got, verdicts, client, drops>>
  BY DEF CutOff, LoopFree, genVars, clientVars
<1>2. Coming' = Coming /\ Events' = Events
  BY <1>1 DEF Coming, Events
<1>3. Told'
  BY <1>1 DEF StreamInv, Told, TypeOK, Transcript, Forward, InOrder, Roomy, VerdictIsLast
<1>4. CursorOk' /\ ReplayOk' /\ UnsentOk'
  BY <1>1, <1>2 DEF StreamInv, CursorOk, NewestShown, ReplayOk, UnsentOk
<1>5. ComingOk'
  BY <1>1, <1>2 DEF StreamInv, ComingOk, NewestShown
<1>6. Roomy' => Covered' /\ VerdictOk'
  BY <1>1, <1>2 DEF StreamInv, Covered, VerdictOk, Roomy
<1> QED
  BY <1>3, <1>4, <1>5, <1>6 DEF StreamInv

\* The fanout: the frame goes into the queue, or is lost if there is no room.
LEMMA FanoutInv == StreamInv /\ Fanout => StreamInv'
<1> SUFFICES ASSUME StreamInv, Fanout PROVE StreamInv'
  OBVIOUS
<1>0. TypeOK
  BY DEF StreamInv, Told
<1>1. /\ unsent # <<>> /\ unsent' = <<>>
      /\ queue' = IF Subscribed /\ Room THEN queue \o unsent ELSE queue
      /\ UNCHANGED <<size, lines, status, gen, after, rowSeen, replay, last, got, verdicts, client, drops>>
  BY DEF Fanout, clientVars
<1>2. PICK f \in Frames : unsent = <<f>>
  BY <1>0, <1>1 DEF TypeOK
<1>3. /\ Coming = queue \o <<f>>
      /\ Len(Coming) = Len(queue) + 1 /\ \A i \in 1..Len(queue) : Coming[i] = queue[i]
  BY <1>0, <1>2, Shapes, Behind DEF Coming
<1>4. queue' \in Seq(Frames) /\ Coming' = queue' /\ Events' = Events
  BY <1>0, <1>1, <1>2, Shapes, Behind DEF Coming, Events
<1>5. Len(queue') <= size.queue
  BY <1>0, <1>1, <1>2, Shapes, Behind DEF Room, TypeOK
<1>6. Told'
  <2>1. TypeOK'
    BY <1>0, <1>1, <1>4, <1>5 DEF TypeOK
  <2> QED
    BY <1>1, <2>1 DEF StreamInv, Told, Transcript, Forward, InOrder, Roomy, VerdictIsLast
<1>7. CursorOk' /\ ReplayOk' /\ UnsentOk'
  BY <1>1, <1>4 DEF StreamInv, CursorOk, NewestShown, ReplayOk, UnsentOk
<1>8. CASE Subscribed /\ Room
  <2>1. Coming' = Coming
    BY <1>1, <1>2, <1>3, <1>4, <1>8
  <2>2. ComingOk'
    BY <1>1, <2>1 DEF StreamInv, ComingOk, NewestShown
  <2>3. Roomy' => Covered' /\ VerdictOk'
    BY <1>1, <1>4, <2>1 DEF StreamInv, Covered, VerdictOk, Roomy
  <2> QED
    BY <1>6, <1>7, <2>2, <2>3 DEF StreamInv
<1>9. CASE gen # "off" /\ ~Room
  <2>1. Coming' = queue
    BY <1>1, <1>4, <1>9
  <2>2. ComingOk'
    BY <1>0, <1>1, <1>3, <2>1, Shapes DEF StreamInv, ComingOk, NewestShown
  <2>3. ~Roomy
    <3>1. lines \in 0..MaxLines /\ Events = Rows(lines, status)
      BY <1>0, Shapes DEF TypeOK
    <3>2. Len(Events) <= MaxLines + 1
      BY <1>0, <3>1, Numbers, RowsAre
    <3>3. size.queue \in Nat
      BY <1>0, Shapes
    <3> QED
      BY <1>0, <1>3, <1>9, <3>2, <3>3, Numbers DEF StreamInv, Covered, Roomy, Room
  <2> QED
    BY <1>1, <1>6, <1>7, <2>2, <2>3 DEF StreamInv, Roomy
<1>10. CASE gen = "off"
  <2>1. ComingOk' /\ (Roomy' => Covered' /\ VerdictOk')
    BY <1>1, <1>10 DEF StreamInv, ComingOk, Covered, VerdictOk, Roomy
  <2> QED
    BY <1>6, <1>7, <2>1 DEF StreamInv
<1> QED
  BY <1>8, <1>9, <1>10 DEF Subscribed
-----------------------------------------------------------------------------
(* The generator and the client. *)

\* No connection: what the generator held says nothing any more.
LEMMA OffInv ==
  ASSUME StreamInv, gen' = "off", Told', \A i \in 1..Len(got') : got'[i] <= lines,
         UNCHANGED <<size, lines, status, unsent>>,
         Roomy => VerdictOk'
  PROVE  StreamInv'
<1>1. CursorOk' /\ ReplayOk' /\ ComingOk' /\ UnsentOk'
  BY DEF CursorOk, ReplayOk, ComingOk, StreamInv, UnsentOk
<1>2. Roomy' => Covered' /\ VerdictOk'
  BY DEF Covered, Roomy
<1> QED
  BY <1>1, <1>2 DEF StreamInv

\* Shown as before.
LEMMA ToldAsBefore ==
  ASSUME StreamInv, TypeOK', UNCHANGED <<size, lines, status, got, verdicts>>
  PROVE  Told' /\ (Roomy => VerdictOk') /\ \A i \in 1..Len(got') : got'[i] <= lines
BY DEF StreamInv, Told, Transcript, Forward, InOrder, Roomy, VerdictIsLast, VerdictOk, CursorOk

\* A line shown after what was shown before.
LEMMA ShowsLine ==
  ASSUME StreamInv, NEW n \in Nat, n > NewestShown, n <= lines, got' = Append(got, n),
         Roomy => n = Len(got) + 1, UNCHANGED <<size, lines, status, verdicts>>
  PROVE  /\ NewestShown' = n /\ got' \in Seq(1..MaxLines) /\ Len(got') = Len(got) + 1
         /\ \A i \in 1..Len(got') : got'[i] <= lines
         /\ Transcript' /\ Forward' /\ VerdictIsLast' /\ (Roomy => VerdictOk')
<1>0. TypeOK /\ lines \in Nat /\ lines <= MaxLines /\ MaxLines \in Nat /\ Len(got) \in Nat
      /\ got \in Seq(1..MaxLines) /\ NewestShown \in 0..lines
      /\ \A i \in 1..Len(got) : got[i] \in 1..MaxLines
  BY Numbers, NewestIs DEF StreamInv, Told, TypeOK
<1>1. n \in 1..MaxLines
  BY <1>0
<1>2. /\ got' \in Seq(1..MaxLines) /\ Len(got') = Len(got) + 1 /\ got'[Len(got) + 1] = n
      /\ \A i \in 1..Len(got) : got'[i] = got[i]
  BY <1>0, <1>1
<1>3. NewestShown' = n
  <2>1. got' # <<>>
    BY <1>0, <1>2
  <2> QED
    BY <1>2, <2>1 DEF NewestShown, Last
<1>4. \A i \in 1..Len(got') : got'[i] <= lines
  BY <1>0, <1>2 DEF StreamInv, CursorOk
<1>5. Forward'
  <2>1. Len(got) > 0 => got[Len(got)] = NewestShown
    <3>1. Len(got) > 0 => got # <<>>
      BY <1>0
    <3> QED
      BY <3>1 DEF NewestShown, Last
  <2>2. \A i \in 1..Len(got) - 1 : got[i] < got[i + 1]
    BY DEF StreamInv, Told, Forward
  <2> SUFFICES ASSUME NEW i \in 1..Len(got') - 1 PROVE got'[i] < got'[i + 1]
    BY DEF Forward
  <2>3. i \in 1..Len(got)
    BY <1>0, <1>2
  <2>4. CASE i = Len(got)
    BY <1>0, <1>2, <2>1, <2>3, <2>4
  <2>5. CASE i < Len(got)
    <3>1. i \in 1..Len(got) - 1 /\ i + 1 \in 1..Len(got)
      BY <1>0, <2>3, <2>5
    <3> QED
      BY <1>2, <2>2, <2>3, <3>1
  <2> QED
    BY <1>0, <2>3, <2>4, <2>5
<1>6. Transcript'
  <2> SUFFICES ASSUME Roomy PROVE InOrder'
    BY DEF Transcript, Roomy
  <2>1. got = [i \in 1..Len(got) |-> i]
    BY DEF StreamInv, Told, Transcript, InOrder
  <2>2. \A i \in 1..Len(got') : got'[i] = i
    <3>1. \A i \in 1..Len(got) : got[i] = i
      BY <2>1
    <3>2. n = Len(got) + 1
      OBVIOUS
    <3> QED
      BY <1>0, <1>2, <3>1, <3>2
  <2>3. got' = [i \in 1..Len(got') |-> got'[i]]
    BY <1>2, SeqIsFunction
  <2> QED
    BY <2>2, <2>3 DEF InOrder
<1>7. VerdictIsLast' /\ (Roomy => VerdictOk')
  <2> SUFFICES ASSUME Roomy PROVE VerdictIsLast' /\ VerdictOk'
    BY DEF VerdictIsLast, Roomy
  <2>1. Len(got) < lines
    BY <1>0
  <2>2. \A i \in DOMAIN verdicts : verdicts[i] # "terminal"
    BY <1>0, <2>1 DEF StreamInv, Told, VerdictIsLast
  <2>3. VerdictIsLast'
    BY <2>2 DEF VerdictIsLast
  <2>4. VerdictOk'
    BY DEF StreamInv, VerdictOk
  <2> QED
    BY <2>3, <2>4
<1> QED
  BY <1>2, <1>3, <1>4, <1>5, <1>6, <1>7

\* A status frame shown: with room it is the last that could be.
LEMMA ShowsStatus ==
  ASSUME StreamInv, NEW w \in {"running", "terminal"}, verdicts' = Append(verdicts, w),
         Roomy => status = "settled" /\ Len(got) = lines,
         UNCHANGED <<size, lines, status, got>>
  PROVE  /\ verdicts' \in Seq({"running", "terminal"})
         /\ \A i \in 1..Len(got') : got'[i] <= lines
         /\ Transcript' /\ Forward' /\ VerdictIsLast' /\ (Roomy => VerdictOk')
<1>1. verdicts' \in Seq({"running", "terminal"})
  BY DEF StreamInv, Told, TypeOK
<1>2. (\A i \in 1..Len(got') : got'[i] <= lines) /\ Transcript' /\ Forward'
  BY DEF StreamInv, Told, Transcript, Forward, InOrder, Roomy, CursorOk
<1>3. VerdictIsLast' /\ (Roomy => VerdictOk')
  BY DEF VerdictIsLast, VerdictOk, Roomy
<1> QED
  BY <1>1, <1>2, <1>3

\* Connecting: nothing is coming, and the cursor is where the client is.
LEMMA ConnectInv == StreamInv /\ Connect => StreamInv'
<1> SUFFICES ASSUME StreamInv, Connect PROVE StreamInv'
  OBVIOUS
<1>0. TypeOK
  BY DEF StreamInv, Told
<1>1. /\ unsent = <<>> /\ gen' = "subscribed" /\ queue' = <<>> /\ replay' = <<>>
      /\ after' = NewestShown /\ last' = NewestShown /\ client' = "open"
      /\ UNCHANGED <<size, lines, status, unsent, rowSeen, got, verdicts, drops>>
  BY DEF Connect, LoopFree, jobVars
<1>2. NewestShown \in 0..lines /\ NewestShown' = NewestShown /\ lines \in Nat /\ lines <= MaxLines
      /\ MaxLines \in Nat
  BY <1>0, <1>1, NewestIs, Numbers DEF NewestShown
<1>3. TypeOK'
  <2>1. queue' \in Seq(Frames) /\ Len(queue') <= size.queue /\ replay' \in Seq(Frames)
    BY <1>0, <1>1, Shapes
  <2> QED
    BY <1>0, <1>1, <1>2, <2>1 DEF TypeOK
<1>4. Len(Coming') = 0
  BY <1>1 DEF Coming
<1>5. CursorOk' /\ ReplayOk' /\ UnsentOk'
  BY <1>1, <1>2 DEF StreamInv, CursorOk, ReplayOk, UnsentOk
<1>6. ComingOk'
  BY <1>4 DEF ComingOk
<1>7. Roomy => Covered'
  <2>0. Events' = Events
    BY <1>1 DEF Events
  <2>1. Len(Events') \in Nat
    BY <1>0, <2>0, Numbers
  <2> QED
    BY <1>1, <1>4, <2>1 DEF Covered
<1> QED
  BY <1>1, <1>3, <1>5, <1>6, <1>7, ToldAsBefore DEF StreamInv, Roomy

\* The first SELECT.
LEMMA ReadRowInv == StreamInv /\ ReadRow => StreamInv'
<1> SUFFICES ASSUME StreamInv, ReadRow PROVE StreamInv'
  OBVIOUS
<1>1. /\ gen = "subscribed" /\ gen' = "haveRow" /\ rowSeen' \in {"running", "terminal"}
      /\ UNCHANGED <<size, lines, status, unsent, queue, after, replay, last, got, verdicts, client, drops>>
  BY DEF ReadRow, jobVars, clientVars
<1>2. TypeOK'
  BY <1>1 DEF StreamInv, Told, TypeOK
<1>3. Coming' = Coming /\ Events' = Events /\ NewestShown' = NewestShown
  BY <1>1 DEF Coming, Events, NewestShown
<1>4. CursorOk' /\ ReplayOk' /\ UnsentOk'
  BY <1>1, <1>3 DEF StreamInv, CursorOk, ReplayOk, UnsentOk
<1>5. ComingOk' /\ (Roomy => Covered')
  BY <1>1, <1>3 DEF StreamInv, ComingOk, Covered
<1> QED
  BY <1>1, <1>2, <1>4, <1>5, ToldAsBefore DEF StreamInv, Roomy

\* The second SELECT: a stretch of job_events from the cursor, and with room
\* all that is left of it.
LEMMA BacklogIs ==
  ASSUME StreamInv, gen = "haveRow"
  PROVE  /\ Backlog \in Seq(Frames) /\ Len(Backlog) \in Nat /\ last + Len(Backlog) <= Len(Events)
         /\ \A i \in 1..Len(Backlog) : Backlog[i] = Events[last + i]
         /\ Roomy => last + Len(Backlog) = Len(Events)
<1> DEFINE e == Events
           b == IF after + size.page < Len(e) THEN after + size.page ELSE Len(e)
<1>0. TypeOK
  BY DEF StreamInv, Told
<1>1. /\ e \in Seq(Frames) /\ Len(e) \in Nat /\ after \in Nat /\ last = after /\ after <= lines
      /\ lines \in Nat /\ lines <= MaxLines /\ MaxLines \in Nat /\ size.page \in Nat \ {0}
      /\ Len(e) = IF status = "settled" THEN lines + 1 ELSE lines
  BY <1>0, Shapes, Numbers, RowsAre DEF StreamInv, CursorOk, TypeOK
<1>2. Backlog = SubSeq(e, after + 1, b)
  BY DEF Backlog
<1>3. b \in Nat /\ after <= b /\ b <= Len(e) /\ (Roomy => b = Len(e))
  BY <1>1 DEF Roomy
<1> HIDE DEF b, e
<1>4. Backlog \in Seq(Frames) /\ Len(Backlog) = b - after
      /\ \A i \in 1..b - after : Backlog[i] = e[after + i]
  <2>1. \A i \in after + 1..b : e[i] \in Frames
    BY <1>1, <1>3
  <2>2. Len(SubSeq(e, after + 1, b)) = b - after
    BY <1>1, <1>3
  <2>3. \A i \in 1..b - after : SubSeq(e, after + 1, b)[i] = e[after + i]
    BY <1>1, <1>3
  <2>4. SubSeq(e, after + 1, b) \in Seq(Frames)
    BY <1>1, <1>3
  <2> QED
    BY <1>2, <2>2, <2>3, <2>4
<1> QED
  BY <1>1, <1>3, <1>4 DEF e

\* The second SELECT of the reading thread: what was committed since the first
\* is either in the page it takes or in the queue.
LEMMA ReadBacklogInv == StreamInv /\ ReadBacklog => StreamInv'
<1> SUFFICES ASSUME StreamInv, ReadBacklog PROVE StreamInv'
  OBVIOUS
<1>1. /\ gen = "haveRow" /\ gen' = "replaying" /\ replay' = Backlog
      /\ UNCHANGED <<size, lines, status, unsent, queue, after, rowSeen, last, got, verdicts, client, drops>>
  BY DEF ReadBacklog, jobVars, clientVars
<1>2. TypeOK'
  BY <1>1, BacklogIs DEF StreamInv, Told, TypeOK
<1>3. Coming' = Coming /\ Events' = Events /\ NewestShown' = NewestShown
  BY <1>1 DEF Coming, Events, NewestShown
<1>4. CursorOk' /\ UnsentOk'
  BY <1>1, <1>3 DEF StreamInv, CursorOk, UnsentOk
<1>5. ReplayOk'
  BY <1>1, <1>3, BacklogIs DEF ReplayOk
<1>6. ComingOk'
  BY <1>1, <1>3 DEF StreamInv, ComingOk
<1>7. Roomy => Covered'
  <2> SUFFICES ASSUME Roomy PROVE Covered'
    OBVIOUS
  <2>1. TypeOK /\ Covered
    BY DEF StreamInv, Told
  <2>2. Len(Coming) \in Nat /\ Len(Events) \in Nat
    BY <2>1, Numbers
  <2>3. Len(Events) - Len(Coming) <= last + Len(Backlog)
    BY <1>1, <2>2, BacklogIs
  <2> QED
    BY <1>1, <1>3, <2>1, <2>3 DEF Covered
<1> QED
  BY <1>1, <1>2, <1>4, <1>5, <1>6, <1>7, ToldAsBefore DEF StreamInv, Roomy

\* One backlog row: the line after the last one shown, or the status row after
\* the last line there is.
LEMMA SendReplayInv == StreamInv /\ SendReplay => StreamInv'
<1> SUFFICES ASSUME StreamInv, SendReplay PROVE StreamInv'
  OBVIOUS
<1> DEFINE h == Head(replay)
<1>0. TypeOK /\ size \in Sizes
  BY DEF StreamInv, Told, TypeOK
<1>1. /\ unsent = <<>> /\ gen = "replaying" /\ replay # <<>>
      /\ UNCHANGED <<size, lines, status, unsent, after, rowSeen, drops>>
      /\ got' = IF h.event = "line" THEN Append(got, h.id) ELSE got
      /\ verdicts' = IF h.event = "status" THEN Append(verdicts, rowSeen) ELSE verdicts
      /\ last' = IF h.event = "line" THEN h.id ELSE lines + 1
      /\ IF h.event = "status" THEN Close("closed")
                               ELSE replay' = Tail(replay) /\ UNCHANGED <<gen, queue, client>>
  BY DEF SendReplay, Show, LoopFree, jobVars
<1>2. /\ h = Events[last + 1] /\ h \in Frames
      /\ Len(replay) \in Nat \ {0} /\ last + Len(replay) <= Len(Events)
      /\ Tail(replay) \in Seq(Frames) /\ Len(Tail(replay)) = Len(replay) - 1
      /\ \A i \in 1..Len(replay) - 1 : Tail(replay)[i] = Events[last + 1 + i]
  <2>1. replay \in Seq(Frames) /\ last \in Nat
    BY <1>0, Shapes, Numbers
  <2>2. /\ h = replay[1] /\ h \in Frames /\ Len(replay) \in Nat \ {0}
        /\ Tail(replay) \in Seq(Frames) /\ Len(Tail(replay)) = Len(replay) - 1
        /\ \A i \in 1..Len(replay) - 1 : Tail(replay)[i] = replay[i + 1]
    BY <1>1, <2>1, Rest
  <2>3. last + Len(replay) <= Len(Events) /\ \A i \in 1..Len(replay) : replay[i] = Events[last + i]
    BY <1>1 DEF StreamInv, ReplayOk
  <2>4. \A i \in 1..Len(replay) - 1 : last + (i + 1) = last + 1 + i /\ i + 1 \in 1..Len(replay)
    BY <2>1, <2>2
  <2> QED
    BY <2>1, <2>2, <2>3, <2>4
<1> HIDE DEF h
<1>3. /\ last \in Nat /\ lines \in Nat /\ lines <= MaxLines /\ MaxLines \in Nat /\ Len(Events) \in Nat
      /\ last = NewestShown /\ last <= lines /\ after \in Nat /\ after <= lines
      /\ Roomy => last = Len(got)
  BY <1>0, <1>1, Numbers, NewestIs DEF StreamInv, CursorOk
<1>4. /\ Len(Events) = IF status = "settled" THEN lines + 1 ELSE lines
      /\ \A n \in 1..lines : Events[n] = Line(n)
      /\ status = "settled" => Events[lines + 1] = Status
  BY <1>0, Shapes, RowsAre DEF TypeOK
<1>5. CASE last < lines
  <2>1. h = Line(last + 1) /\ h.event = "line" /\ h.id = last + 1
    BY <1>2, <1>3, <1>4, <1>5, FrameKinds
  <2>2. h.event # "status"
    BY <2>1
  <2>3. /\ got' = Append(got, last + 1) /\ last' = last + 1 /\ replay' = Tail(replay)
        /\ UNCHANGED <<verdicts, gen, queue, client>>
    BY <1>1, <2>1, <2>2
  <2>4. /\ NewestShown' = last + 1 /\ got' \in Seq(1..MaxLines) /\ Len(got') = Len(got) + 1
        /\ \A i \in 1..Len(got') : got'[i] <= lines
        /\ Transcript' /\ Forward' /\ VerdictIsLast' /\ (Roomy => VerdictOk')
    BY <1>1, <1>3, <1>5, <2>3, ShowsLine
  <2>5. TypeOK'
    <3>1. replay' \in Seq(Frames) /\ last' \in 0..MaxLines + 1 /\ got' \in Seq(1..MaxLines)
      BY <1>2, <1>3, <1>5, <2>3, <2>4
    <3> QED
      BY <1>0, <1>1, <2>3, <3>1 DEF TypeOK
  <2>6. Coming' = Coming /\ Events' = Events
    BY <1>1, <2>3 DEF Coming, Events
  <2>7. CursorOk'
    BY <1>1, <1>3, <2>3, <2>4 DEF CursorOk
  <2>8. ReplayOk' /\ UnsentOk'
    <3>1. last' + Len(replay') <= Len(Events')
      BY <1>2, <1>3, <2>3, <2>6
    <3>2. \A i \in 1..Len(replay') : replay'[i] = Events'[last' + i]
      BY <1>2, <2>3, <2>6
    <3> QED
      BY <1>1, <3>1, <3>2 DEF ReplayOk, UnsentOk
  <2>9. ComingOk'
    <3>1. \A i \in 1..Len(Coming) : Coming[i] # Status => Coming[i].id \in Nat
      BY <1>0, ComingTyped
    <3> QED
      BY <1>1, <1>3, <2>3, <2>4, <2>6, <3>1 DEF StreamInv, ComingOk
  <2>10. Roomy => Covered'
    <3> SUFFICES ASSUME Roomy PROVE Covered'
      OBVIOUS
    <3>1. last' + Len(replay') = last + Len(replay)
      BY <1>2, <1>3, <2>3
    <3> QED
      BY <1>1, <2>3, <2>6, <3>1 DEF StreamInv, Covered
  <2> QED
    BY <1>1, <2>4, <2>5, <2>7, <2>8, <2>9, <2>10 DEF StreamInv, Told, Roomy
<1>6. CASE last = lines
  <2>1. status = "settled" /\ h = Status /\ h.event = "status" /\ h.event # "line"
    BY <1>2, <1>3, <1>4, <1>6, FrameKinds
  <2>2. /\ got' = got /\ verdicts' = Append(verdicts, rowSeen) /\ last' = lines + 1
        /\ gen' = "off" /\ queue' = <<>> /\ replay' = <<>> /\ client' = "closed"
    BY <1>1, <2>1 DEF Close
  <2>3. rowSeen \in {"running", "terminal"}
    BY <1>0 DEF TypeOK
  <2>4. /\ verdicts' \in Seq({"running", "terminal"})
        /\ \A i \in 1..Len(got') : got'[i] <= lines
        /\ Transcript' /\ Forward' /\ VerdictIsLast' /\ (Roomy => VerdictOk')
    BY <1>1, <1>3, <1>6, <2>1, <2>2, <2>3, ShowsStatus
  <2>5. TypeOK'
    <3>1. queue' \in Seq(Frames) /\ Len(queue') <= size.queue /\ replay' \in Seq(Frames)
      BY <1>0, <2>2, Shapes
    <3> QED
      BY <1>0, <1>1, <1>3, <2>2, <2>4, <3>1 DEF TypeOK
  <2> QED
    BY <1>1, <2>2, <2>4, <2>5, OffInv DEF Told
<1> QED
  BY <1>3, <1>5, <1>6

\* The backlog is sent: over, or live.
LEMMA EndReplayInv == StreamInv /\ EndReplay => StreamInv'
<1> SUFFICES ASSUME StreamInv, EndReplay PROVE StreamInv'
  OBVIOUS
<1>0. TypeOK
  BY DEF StreamInv, Told
<1>1. /\ unsent = <<>> /\ gen = "replaying" /\ replay = <<>>
      /\ IF rowSeen = "terminal" THEN Close(AfterError)
         ELSE gen' = "live" /\ UNCHANGED <<queue, replay, client>>
      /\ UNCHANGED <<size, lines, status, unsent, after, rowSeen, last, got, verdicts, drops>>
  BY DEF EndReplay, LoopFree, jobVars
<1>2. CASE rowSeen = "terminal"
  <2>1. gen' = "off" /\ queue' = <<>> /\ replay' = <<>> /\ client' \in {"closed", "retrying"}
    BY <1>1, <1>2 DEF Close, AfterError
  <2>2. queue' \in Seq(Frames) /\ Len(queue') <= size.queue /\ replay' \in Seq(Frames)
    BY <1>0, <2>1, Shapes
  <2>3. TypeOK'
    BY <1>0, <1>1, <2>1, <2>2 DEF TypeOK
  <2> QED
    BY <1>1, <2>1, <2>3, ToldAsBefore, OffInv
<1>3. CASE rowSeen # "terminal"
  <2>1. gen' = "live" /\ UNCHANGED <<queue, replay, client>>
    BY <1>1, <1>3
  <2>2. TypeOK'
    BY <1>0, <1>1, <2>1 DEF TypeOK
  <2>3. Coming' = Coming /\ Events' = Events /\ NewestShown' = NewestShown
    BY <1>1, <2>1 DEF Coming, Events, NewestShown
  <2>4. CursorOk' /\ ReplayOk' /\ UnsentOk' /\ ComingOk'
    BY <1>1, <2>1, <2>3 DEF StreamInv, CursorOk, ReplayOk, UnsentOk, ComingOk
  <2>5. Roomy => Covered'
    <3> SUFFICES ASSUME Roomy PROVE Covered'
      OBVIOUS
    <3>1. Len(replay) = 0 /\ last \in Nat /\ last = Len(got)
      BY <1>0, <1>1, Numbers, NewestIs DEF StreamInv, CursorOk
    <3> QED
      BY <1>1, <2>1, <2>3, <3>1 DEF StreamInv, Covered
  <2> QED
    BY <1>1, <2>2, <2>4, <2>5, ToldAsBefore DEF StreamInv, Roomy
<1> QED
  BY <1>2, <1>3

\* The connection breaks.
LEMMA DropInv == StreamInv /\ Drop => StreamInv'
<1> SUFFICES ASSUME StreamInv, Drop PROVE StreamInv'
  OBVIOUS
<1>0. TypeOK /\ MaxDrops \in Nat
  BY StreamAssumption DEF StreamInv, Told
<1>1. /\ gen' = "off" /\ queue' = <<>> /\ replay' = <<>> /\ client' \in {"closed", "retrying"}
      /\ drops < MaxDrops /\ drops' = drops + 1
      /\ UNCHANGED <<size, lines, status, unsent, after, rowSeen, last, got, verdicts>>
  BY DEF Drop, Close, AfterError, jobVars
<1>2. queue' \in Seq(Frames) /\ Len(queue') <= size.queue /\ replay' \in Seq(Frames)
  BY <1>0, <1>1, Shapes
<1>3. drops' \in 0..MaxDrops
  BY <1>0, <1>1 DEF TypeOK
<1>4. TypeOK'
  BY <1>0, <1>1, <1>2, <1>3 DEF TypeOK
<1> QED
  BY <1>1, <1>4, ToldAsBefore, OffInv

\* What is first in the queue of a live generator.
LEMMA FirstComing ==
  ASSUME StreamInv, gen = "live", unsent = <<>>, queue # <<>>
  PROVE  /\ Coming = queue /\ Coming[1] = Head(queue) /\ Head(queue) \in Frames
         /\ Len(Coming) \in Nat \ {0}
         /\ Tail(queue) \in Seq(Frames) /\ Len(Tail(queue)) = Len(Coming) - 1
         /\ \A i \in 1..Len(Coming) - 1 : Tail(queue)[i] = Coming[i + 1]
         /\ Head(queue) = Status => status = "settled"
         /\ Head(queue) # Status =>
              /\ Head(queue).id \in Nat /\ Head(queue).id <= lines
              /\ Head(queue).id > last => Head(queue).id > NewestShown
         /\ Roomy => IF Head(queue) = Status THEN Len(got) = lines
                     ELSE /\ Head(queue).id <= Len(got) + 1
                          /\ Len(Events) - Len(Tail(queue)) = Head(queue).id
<1>0. TypeOK /\ queue \in Seq(Frames)
  BY Shapes DEF StreamInv, Told
<1>1. Coming = queue
  BY <1>0, Behind DEF Coming
<1>2. /\ Coming[1] = Head(queue) /\ Head(queue) \in Frames
      /\ Len(Coming) \in Nat \ {0}
      /\ Tail(queue) \in Seq(Frames) /\ Len(Tail(queue)) = Len(Coming) - 1
      /\ \A i \in 1..Len(Coming) - 1 : Tail(queue)[i] = Coming[i + 1]
  BY <1>0, <1>1, Rest
<1> DEFINE h == Head(queue)
<1>3. /\ h = Status => status = "settled"
      /\ h # Status => h.id \in Nat /\ h.id <= lines /\ (h.id > last => h.id > NewestShown)
  <2>1. h # Status => h.id \in Nat
    BY <1>0, <1>2, ComingTyped
  <2>2. 1 \in 1..Len(Coming) /\ Coming[1] = h
    BY <1>2
  <2> HIDE DEF h
  <2> QED
    BY <2>1, <2>2 DEF StreamInv, ComingOk
<1>4. ASSUME Roomy
      PROVE  IF h = Status THEN Len(got) = lines
             ELSE h.id <= Len(got) + 1 /\ Len(Events) - Len(Tail(queue)) = h.id
  <2> DEFINE p == Len(Events) - Len(Coming) + 1
  <2>1. /\ lines \in Nat /\ Len(got) \in Nat /\ Len(got) <= lines /\ Len(Events) \in Nat
        /\ lines <= MaxLines /\ MaxLines \in Nat
    BY <1>0, <1>4, Numbers, NewestIs
  <2>2. /\ Len(Coming) <= Len(Events) /\ h = Events[p]
        /\ Len(Events) - Len(Coming) <= Len(got)
    BY <1>2, <1>4 DEF StreamInv, Covered
  <2>3. p \in 1..Len(Events) /\ p <= Len(got) + 1
    BY <1>2, <2>1, <2>2
  <2>4. /\ Len(Events) = IF status = "settled" THEN lines + 1 ELSE lines
        /\ \A n \in 1..lines : Events[n] = Line(n)
        /\ status = "settled" => Events[lines + 1] = Status
    BY <1>0, Shapes, RowsAre DEF TypeOK
  <2>5. Len(Events) - Len(Tail(queue)) = p
    BY <1>2, <2>1
  <2> HIDE DEF p, h
  <2>6. CASE p <= lines
    <3>1. h = Line(p) /\ p \in 1..MaxLines
      BY <2>1, <2>2, <2>3, <2>4, <2>6
    <3>2. h # Status /\ h.id = p
      BY <3>1, FrameKinds
    <3> QED
      BY <2>3, <2>5, <3>2
  <2>7. CASE p > lines
    <3>1. p = lines + 1 /\ status = "settled" /\ h = Status
      BY <2>1, <2>2, <2>3, <2>4, <2>7
    <3> QED
      BY <2>1, <2>3, <3>1
  <2> QED
    BY <2>1, <2>3, <2>6, <2>7
<1> QED
  BY <1>1, <1>2, <1>3, <1>4

\* One live frame: a line that was replayed is passed over, the next one is
\* shown, and the status row ends it.
LEMMA FollowInv == StreamInv /\ Follow => StreamInv'
<1> SUFFICES ASSUME StreamInv, Follow PROVE StreamInv'
  OBVIOUS
<1> DEFINE h == Head(queue)
<1>0. TypeOK
  BY DEF StreamInv, Told
<1>1. /\ unsent = <<>> /\ gen = "live" /\ queue # <<>>
      /\ UNCHANGED <<size, lines, status, unsent, after, rowSeen, last, drops>>
      /\ IF h.event = "line" /\ h.id <= last THEN UNCHANGED <<got, verdicts>>
         ELSE /\ got' = IF h.event = "line" THEN Append(got, h.id) ELSE got
              /\ verdicts' = IF h.event = "status" THEN Append(verdicts, "terminal") ELSE verdicts
      /\ IF h.event = "status" THEN Close("closed")
         ELSE queue' = Tail(queue) /\ UNCHANGED <<gen, replay, client>>
  BY DEF Follow, Show, LoopFree, jobVars, Replayed
<1>2. /\ Coming = queue /\ Coming[1] = h /\ h \in Frames
      /\ Len(Coming) \in Nat \ {0}
      /\ Tail(queue) \in Seq(Frames) /\ Len(Tail(queue)) = Len(Coming) - 1
      /\ \A i \in 1..Len(Coming) - 1 : Tail(queue)[i] = Coming[i + 1]
      /\ h = Status => status = "settled"
      /\ h # Status =>
           /\ h.id \in Nat /\ h.id <= lines
           /\ h.id > last => h.id > NewestShown
      /\ Roomy => IF h = Status THEN Len(got) = lines
                  ELSE /\ h.id <= Len(got) + 1
                       /\ Len(Events) - Len(Tail(queue)) = h.id
  BY <1>1, FirstComing
<1> HIDE DEF h
<1>3. /\ last \in Nat /\ lines \in Nat /\ NewestShown \in 0..lines /\ last <= NewestShown
      /\ Len(got) \in Nat /\ (Roomy => NewestShown = Len(got)) /\ Len(Events) \in Nat
      /\ after <= lines
  BY <1>0, <1>1, Numbers, NewestIs DEF StreamInv, CursorOk
<1>4. CASE h = Status
  <2>1. h.event = "status" /\ h.event # "line"
    BY <1>4, FrameKinds
  <2>2. /\ got' = got /\ verdicts' = Append(verdicts, "terminal")
        /\ gen' = "off" /\ queue' = <<>> /\ replay' = <<>> /\ client' = "closed"
    BY <1>1, <2>1 DEF Close
  <2>3. /\ verdicts' \in Seq({"running", "terminal"})
        /\ \A i \in 1..Len(got') : got'[i] <= lines
        /\ Transcript' /\ Forward' /\ VerdictIsLast' /\ (Roomy => VerdictOk')
    BY <1>1, <1>2, <1>4, <2>2, ShowsStatus
  <2>4. TypeOK'
    <3>1. queue' \in Seq(Frames) /\ Len(queue') <= size.queue /\ replay' \in Seq(Frames)
      BY <1>0, <2>2, Shapes
    <3> QED
      BY <1>0, <1>1, <2>2, <2>3, <3>1 DEF TypeOK
  <2> QED
    BY <1>1, <2>2, <2>3, <2>4, OffInv DEF Told
<1>5. CASE h # Status
  <2>1. h.event = "line" /\ h.event # "status"
    BY <1>2, <1>5, FrameKinds
  <2>2. queue' = Tail(queue) /\ UNCHANGED <<gen, replay, client, verdicts>>
    BY <1>1, <2>1
  <2>3. queue' \in Seq(Frames) /\ Coming' = queue' /\ Events' = Events /\ Len(queue') <= size.queue
    <3>1. queue' \o <<>> = queue'
      BY <1>2, <2>2, Behind
    <3>2. size.queue \in Nat /\ Len(queue) <= size.queue /\ Len(queue) \in Nat
      BY <1>0, Shapes, Numbers DEF TypeOK
    <3> QED
      BY <1>1, <1>2, <2>2, <3>1, <3>2 DEF Coming, Events
  <2>4. /\ Len(Coming') = Len(Coming) - 1
        /\ \A i \in 1..Len(Coming) - 1 : Coming'[i] = Coming[i + 1]
    BY <1>2, <2>2, <2>3
  <2>5. ASSUME NEW i \in 1..Len(Coming) - 1
        PROVE  /\ Coming'[i] = Status => status = "settled"
               /\ Coming'[i] # Status =>
                    /\ Coming'[i].id \in Nat /\ Coming'[i].id <= lines
                    /\ Coming'[i].id > last => Coming'[i].id > NewestShown
                    /\ h.id < Coming'[i].id
                    /\ \A k \in 1..i - 1 : Coming'[k] # Status /\ Coming'[k].id < Coming'[i].id
    <3>1. i + 1 \in 1..Len(Coming) /\ Coming'[i] = Coming[i + 1] /\ 1 \in 1..(i + 1) - 1
      BY <1>2, <2>4
    <3>2. \A k \in 1..i - 1 : k + 1 \in 1..(i + 1) - 1 /\ Coming'[k] = Coming[k + 1]
      BY <1>2, <2>4
    <3>3. Coming[i + 1] # Status => Coming[i + 1].id \in Nat
      BY <1>0, <3>1, ComingTyped
    <3>4. /\ Coming[i + 1] = Status => status = "settled"
          /\ Coming[i + 1] # Status =>
               /\ Coming[i + 1].id <= lines
               /\ Coming[i + 1].id > last => Coming[i + 1].id > NewestShown
               /\ \A k \in 1..(i + 1) - 1 : Coming[k] # Status /\ Coming[k].id < Coming[i + 1].id
      BY <1>1, <3>1 DEF StreamInv, ComingOk
    <3> QED
      BY <1>2, <3>1, <3>2, <3>3, <3>4
  <2>6. ReplayOk' /\ UnsentOk'
    BY <1>1, <2>2 DEF ReplayOk, UnsentOk
  <2>7. CASE h.id <= last
    <3>1. got' = got
      BY <1>1, <2>1, <2>7
    <3>2. TypeOK' /\ NewestShown' = NewestShown
      BY <1>0, <1>1, <2>2, <2>3, <3>1 DEF TypeOK, NewestShown
    <3>3. CursorOk'
      BY <1>1, <2>2, <3>1, <3>2 DEF StreamInv, CursorOk
    <3>4. ComingOk'
      BY <1>1, <2>4, <2>5, <3>2 DEF ComingOk
    <3>5. Roomy => Covered'
      <4> SUFFICES ASSUME Roomy PROVE Covered'
        OBVIOUS
      <4>1. Covered
        BY DEF StreamInv
      <4>2. Len(Events) - Len(Coming') = h.id /\ h.id <= Len(got)
        BY <1>2, <1>3, <1>5, <2>2, <2>3, <2>7
      <4>3. \A i \in 1..Len(Coming') : Coming'[i] = Events[Len(Events) - Len(Coming') + i]
        <5> SUFFICES ASSUME NEW i \in 1..Len(Coming) - 1
                     PROVE  Coming'[i] = Events[Len(Events) - Len(Coming') + i]
          BY <2>4
        <5>1. Len(Events) - Len(Coming') + i = Len(Events) - Len(Coming) + (i + 1)
          BY <1>2, <1>3, <2>4
        <5>2. i + 1 \in 1..Len(Coming)
          BY <1>2
        <5>3. Coming'[i] = Coming[i + 1]
          BY <2>4
        <5> QED
          BY <1>1, <4>1, <5>1, <5>2, <5>3 DEF Covered
      <4>4. Len(Coming') <= Len(Events) /\ Len(Events) - Len(Coming') <= Len(got)
        BY <1>2, <1>3, <1>5, <2>4, <4>2
      <4> QED
        BY <1>1, <2>2, <2>3, <3>1, <4>3, <4>4 DEF Covered
    <3> QED
      BY <1>1, <2>2, <2>6, <3>1, <3>2, <3>3, <3>4, <3>5, ToldAsBefore DEF StreamInv, Roomy
  <2>8. CASE ~(h.id <= last)
    <3>1. got' = Append(got, h.id)
      BY <1>1, <2>1, <2>8
    <3>2. h.id > last /\ h.id > NewestShown /\ (Roomy => h.id = Len(got) + 1)
      BY <1>2, <1>3, <1>5, <2>8
    <3>3. /\ NewestShown' = h.id /\ got' \in Seq(1..MaxLines) /\ Len(got') = Len(got) + 1
          /\ \A i \in 1..Len(got') : got'[i] <= lines
          /\ Transcript' /\ Forward' /\ VerdictIsLast' /\ (Roomy => VerdictOk')
      BY <1>1, <1>2, <1>5, <2>2, <3>1, <3>2, ShowsLine
    <3>4. TypeOK'
      BY <1>0, <1>1, <2>2, <2>3, <3>3 DEF TypeOK
    <3>5. CursorOk'
      BY <1>1, <1>2, <1>3, <1>5, <2>2, <3>2, <3>3 DEF CursorOk
    <3>6. ComingOk'
      BY <1>1, <1>2, <1>5, <2>4, <2>5, <3>3 DEF ComingOk
    <3>7. Roomy => Covered'
      <4> SUFFICES ASSUME Roomy PROVE Covered'
        OBVIOUS
      <4>1. Covered
        BY DEF StreamInv
      <4>2. Len(Events) - Len(Coming') = h.id /\ h.id = Len(got')
        BY <1>2, <1>5, <2>2, <2>3, <3>2, <3>3
      <4>3. \A i \in 1..Len(Coming') : Coming'[i] = Events[Len(Events) - Len(Coming') + i]
        <5> SUFFICES ASSUME NEW i \in 1..Len(Coming) - 1
                     PROVE  Coming'[i] = Events[Len(Events) - Len(Coming') + i]
          BY <2>4
        <5>1. Len(Events) - Len(Coming') + i = Len(Events) - Len(Coming) + (i + 1)
          BY <1>2, <1>3, <2>4
        <5>2. i + 1 \in 1..Len(Coming)
          BY <1>2
        <5>3. Coming'[i] = Coming[i + 1]
          BY <2>4
        <5> QED
          BY <1>1, <4>1, <5>1, <5>2, <5>3 DEF Covered
      <4>4. Len(Coming') <= Len(Events) /\ Len(Events) - Len(Coming') <= Len(got')
        BY <1>2, <1>3, <1>5, <2>4, <3>3, <4>2
      <4> QED
        BY <1>1, <2>2, <2>3, <4>3, <4>4 DEF Covered
    <3> QED
      BY <1>1, <2>6, <3>3, <3>4, <3>5, <3>6, <3>7 DEF StreamInv, Told, Roomy
  <2> QED
    BY <2>7, <2>8
<1> QED
  BY <1>4, <1>5
-----------------------------------------------------------------------------
(* The theorem. *)

LEMMA StreamInit == Init => StreamInv
<1> SUFFICES ASSUME Init PROVE StreamInv
  OBVIOUS
<1>1. /\ size \in Sizes /\ lines = 0 /\ status = "running" /\ unsent = <<>> /\ gen = "off"
      /\ queue = <<>> /\ after = 0 /\ rowSeen = "running" /\ replay = <<>> /\ last = 0
      /\ got = <<>> /\ verdicts = <<>> /\ client = "retrying" /\ drops = 0
  BY DEF Init
<1>2. TypeOK
  <2>1. size.queue \in Nat \ {0} /\ MaxLines \in Nat /\ MaxDrops \in Nat
    BY <1>1, StreamAssumption
  <2>2. /\ <<>> \in Seq(Frames) /\ <<>> \in Seq(1..MaxLines) /\ Len(queue) = 0
        /\ <<>> \in Seq({"running", "terminal"})
    BY <1>1
  <2> QED
    BY <1>1, <2>1, <2>2 DEF TypeOK
<1>3. Len(got) = 0 /\ Len(verdicts) = 0 /\ DOMAIN verdicts = {}
  BY <1>1
<1>4. Transcript /\ Forward /\ VerdictIsLast
  <2>1. Forward /\ VerdictIsLast
    BY <1>3 DEF Forward, VerdictIsLast
  <2>2. [n \in 1..0 |-> n] = <<>>
    OBVIOUS
  <2> QED
    BY <1>1, <1>3, <2>1, <2>2 DEF Transcript, InOrder
<1>5. CursorOk /\ ReplayOk /\ ComingOk /\ UnsentOk /\ Covered /\ VerdictOk
  BY <1>1, <1>3 DEF CursorOk, ReplayOk, ComingOk, UnsentOk, Covered, VerdictOk
<1> QED
  BY <1>2, <1>4, <1>5 DEF StreamInv, Told

\* Every step, of the writer, the connection or the client.
LEMMA StreamStep == StreamInv /\ [Next]_vars => StreamInv'
<1> SUFFICES ASSUME StreamInv, [Next]_vars PROVE StreamInv'
  OBVIOUS
<1>1. CASE UNCHANGED vars
  <2>1. UNCHANGED <<size, lines, status, unsent, gen, queue, after, rowSeen, replay, last,
                    got, verdicts, client, drops>>
    BY <1>1 DEF vars, jobVars, genVars, clientVars
  <2>2. Coming' = Coming /\ Events' = Events /\ NewestShown' = NewestShown /\ TypeOK'
    BY <2>1 DEF Coming, Events, NewestShown, StreamInv, Told, TypeOK
  <2>3. CursorOk' /\ ReplayOk' /\ UnsentOk' /\ ComingOk'
    BY <2>1, <2>2 DEF StreamInv, CursorOk, ReplayOk, UnsentOk, ComingOk
  <2>4. Roomy => Covered'
    BY <2>1, <2>2 DEF StreamInv, Covered
  <2> QED
    BY <2>1, <2>2, <2>3, <2>4, ToldAsBefore DEF StreamInv, Roomy
<1> QED
  BY <1>1, WriteLineInv, FinishInv, FanoutInv, CutOffInv, ConnectInv, ReadRowInv,
     ReadBacklogInv, SendReplayInv, EndReplayInv, FollowInv, DropInv DEF Next

\* api/jobs.py's stream and JobLog: for any number of lines, any sizes and any
\* number of lost connections, wherever the commits, fanouts and the two reads
\* fall: what a client shows never goes back or repeats, and with room for every
\* frame it is the job's transcript without a gap, complete when it is told that
\* the job is over.
THEOREM ToldInOrder == Spec => []Told
<1>1. StreamInv => Told
  BY DEF StreamInv
<1> QED
  BY <1>1, StreamInit, StreamStep, PTL DEF Spec
=============================================================================
