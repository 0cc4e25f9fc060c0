--------------------------- MODULE ReviewerProofs ---------------------------
(***************************************************************************)
(* Proofs about a reviewer and its subprocess: for every child, every size *)
(* of pipe, input and output, every cap and every result file.             *)
(***************************************************************************)
EXTENDS Reviewer, TLAPS

SubType ==
  /\ habits \in Children /\ cap \in Caps
  /\ left \in Int /\ stdinDone \in BOOLEAN
  /\ eof \in [Streams -> BOOLEAN] /\ ready \subseteq Ends
  /\ buf \in [Streams -> Nat] /\ trunc \in [Streams -> BOOLEAN]
  /\ timedOut \in BOOLEAN /\ late \in BOOLEAN
  /\ child \in {"runs", "exited", "reaped"} /\ helper \in BOOLEAN
  /\ holds \in [Ends -> SUBSET Group]
  /\ pipe \in [Ends -> Int] /\ written \in [Streams -> Nat]
  /\ broken \subseteq Calls

(* The group was killed, or is about to be.                                *)
Doomed == timedOut \/ broken \cap {"poll", "waitpid"} # {}

(* What the place of run_subprocess() says about the group and the ends.   *)
OrderInv ==
  /\ Returned => child = "reaped" \/ broken \cap {"poll", "waitpid"} # {}
  /\ Doomed => pc \notin {"loop", "handle"}
  /\ Doomed /\ pc # "grace" => child # "runs" /\ ~helper
  /\ pc = "grace" => Doomed
  /\ pc = "last" => "waitpid" \in broken
  /\ "poll" \in broken => pc \in {"grace", "thrown", "over"}
  /\ pc \notin {"loop", "handle"} /\ ~timedOut /\ "poll" \notin broken => AllDone

(* An end that was seen is one: nobody is left who could write.            *)
EndInv ==
  /\ InputDelivered
  /\ \A s \in Streams \ broken : eof[s] => holds[s] = {} /\ pipe[s] = 0

(* r bytes of s have been read so far.                                     *)
Captured(s, r) ==
  /\ pipe[s] >= 0
  /\ buf[s] = Lesser(r, cap) /\ (trunc[s] <=> r > cap)
  /\ written[s] = Lesser(r + pipe[s], OutputBound)
  /\ "flood" \notin habits => written[s] = r + pipe[s]

CaptureInv == \A s \in Streams : \E r \in Nat : Captured(s, r)

SubInv == SubType /\ OrderInv /\ EndInv /\ CaptureInv

-----------------------------------------------------------------------------
(* An end that nobody holds stays so: only who holds it can pass it on.    *)
Shrinks == \A e \in Ends : holds[e] = {} => holds'[e] = {}

(* Giving up ends empties no stream that is still to be read.              *)
LEMMA HeldByKeeps ==
  ASSUME SubType, NEW held \in [Ends -> SUBSET Group], HeldBy(held)
  PROVE  /\ holds' = held /\ pipe' \in [Ends -> Int]
         /\ \A s \in Streams : pipe'[s] = pipe[s]
BY DEF HeldBy, SubType, Ends, Streams

LEMMA DieKeeps ==
  ASSUME SubType, NEW dead \in SUBSET Group, Die(dead)
  PROVE  /\ holds' \in [Ends -> SUBSET Group] /\ Shrinks
         /\ pipe' \in [Ends -> Int]
         /\ \A s \in Streams : pipe'[s] = pipe[s]
         /\ child' \in {"runs", "exited", "reaped"}
         /\ child # "runs" => child' = child
         /\ helper' \in BOOLEAN /\ (helper' => helper)
         /\ UNCHANGED <<habits, cap>>
<1> DEFINE held == [e \in Ends |-> holds[e] \ dead]
<1>1. held \in [Ends -> SUBSET Group]
  BY DEF SubType
<1>2. HeldBy(held)
  BY DEF Die
<1>3. holds' = held /\ pipe' \in [Ends -> Int]
      /\ \A s \in Streams : pipe'[s] = pipe[s]
  <2> HIDE DEF held
  <2> QED BY <1>1, <1>2, HeldByKeeps
<1>4. Shrinks
  BY <1>3 DEF Shrinks
<1>5. /\ child' \in {"runs", "exited", "reaped"}
      /\ child # "runs" => child' = child
      /\ helper' \in BOOLEAN /\ (helper' => helper)
      /\ UNCHANGED <<habits, cap>>
  BY DEF Die, SubType
<1> QED BY <1>1, <1>3, <1>4, <1>5

LEMMA CloseKeeps ==
  ASSUME SubType, NEW x \in Ends, Close(x)
  PROVE  /\ holds' \in [Ends -> SUBSET Group] /\ Shrinks
         /\ pipe' \in [Ends -> Int]
         /\ \A s \in Streams : pipe'[s] = pipe[s]
<1> DEFINE held == [holds EXCEPT ![x] = @ \ {"child"}]
<1>1. held \in [Ends -> SUBSET Group]
  BY DEF SubType
<1>2. HeldBy(held)
  BY DEF Close
<1>3. \A e \in Ends : holds[e] = {} => held[e] = {}
  BY DEF SubType
<1> HIDE DEF held
<1>4. holds' = held /\ pipe' \in [Ends -> Int]
      /\ \A s \in Streams : pipe'[s] = pipe[s]
  BY <1>1, <1>2, HeldByKeeps
<1> QED BY <1>1, <1>3, <1>4 DEF Shrinks

LEMMA ForkKeeps ==
  ASSUME SubType, Fork
  PROVE  holds' \in [Ends -> SUBSET Group] /\ Shrinks
<1>1. holds' \in [Ends -> SUBSET Group]
  BY DEF Fork, SubType, Group
<1>2. \A e \in Ends : holds[e] = {} => holds'[e] = {}
  BY DEF Fork, SubType
<1> QED BY <1>1, <1>2 DEF Shrinks

(* Exit and the ways of killing.                                           *)
LEMMA ExitDies == ASSUME Exit PROVE \E dead \in SUBSET Group : Die(dead)
BY DEF Exit, Group

LEMMA TermDies == ASSUME TermGroup PROVE \E dead \in SUBSET Group : Die(dead)
BY DEF TermGroup, Group

LEMMA KillDies == ASSUME Kill PROVE \E dead \in SUBSET Group : Die(dead)
BY DEF Kill

-----------------------------------------------------------------------------
(* The steps, with their parameters in their sets.                         *)
Steps ==
  \/ ReadInput \/ Fork \/ Exit
  \/ \E s \in Streams : \/ WriteOutput(s)
                        \/ ReadStream(s) \/ StreamEmpty(s) \/ ReadFails(s)
  \/ \E e \in Ends : Close(e)
  \/ LeaveLoop \/ Terminate \/ Kill \/ Poll \/ WriteInput \/ WriteInterrupted
  \/ NextRound \/ Reap \/ LastWait \/ Deadline
  \/ PollFails \/ WaitpidFails \/ WriteFails

LEMMA NextIsSteps == Next => Steps
BY DEF Next, ParentSteps, ParentFails, ChildSteps, Filter, AnyChild, Steps,
       Streams

LEMMA TypeStep == ASSUME SubType, Steps PROVE SubType'
<1> USE DEF SubType
<1>1. CASE ReadInput
  BY <1>1 DEF ReadInput, loopVars, bufVars, groupVars, Ends
<1>2. CASE Fork
  BY <1>2, ForkKeeps DEF Fork, loopVars, bufVars, pipeVars
<1>3. CASE Exit
  BY <1>3, ExitDies, DieKeeps DEF Exit, loopVars, bufVars
<1>4. ASSUME NEW s \in Streams, WriteOutput(s) PROVE SubType'
  <2>1. OutputBound \in Nat
    BY NumbersAssumption DEF OutputBound
  <2>2. written' \in [Streams -> Nat]
    BY <1>4, <2>1 DEF WriteOutput, Lesser
  <2>3. pipe' \in [Ends -> Int]
    BY <1>4 DEF WriteOutput, Ends
  <2> QED BY <1>4, <2>2, <2>3 DEF WriteOutput, loopVars, bufVars, groupVars
<1>5. ASSUME NEW s \in Streams, ReadStream(s) PROVE SubType'
  <2>1. PICK n \in 1..pipe[s] : /\ pipe' = [pipe EXCEPT ![s] = @ - n]
                                /\ AppendCapped(s, n)
    BY <1>5 DEF ReadStream
  <2>2. pipe[s] \in Int /\ cap \in Nat /\ n \in Nat
    BY NumbersAssumption, <2>1 DEF Streams, Ends
  <2>3. buf' \in [Streams -> Nat] /\ trunc' \in [Streams -> BOOLEAN]
    BY <2>1, <2>2 DEF AppendCapped, Lesser
  <2>4. pipe' \in [Ends -> Int]
    BY <2>1, <2>2 DEF Ends
  <2> QED BY <1>5, <2>3, <2>4 DEF ReadStream, loopVars, groupVars
<1>6. ASSUME NEW s \in Streams, StreamEmpty(s) PROVE SubType'
  BY <1>6 DEF StreamEmpty, bufVars, groupVars, pipeVars
<1>7. ASSUME NEW e \in Ends, Close(e) PROVE SubType'
  BY <1>7, CloseKeeps DEF Close, loopVars, bufVars
<1>8. CASE LeaveLoop \/ NextRound \/ Deadline
  BY <1>8 DEF LeaveLoop, NextRound, Deadline, loopVars, bufVars, groupVars,
              pipeVars
<1>9. CASE Terminate
  BY <1>9, TermDies, DieKeeps DEF Terminate, TermGroup, bufVars
<1>10. CASE Kill
  BY <1>10, KillDies, DieKeeps DEF Kill, bufVars, loopVars
<1>11. CASE Poll
  <2>1. Events \subseteq Ends
    BY DEF Events, Readable, Ends
  <2> QED BY <1>11, <2>1 DEF Poll, bufVars, groupVars, pipeVars
<1>12. CASE WriteInput
  BY <1>12, NumbersAssumption DEF WriteInput, bufVars, groupVars, Lesser, Ends
<1>13. CASE WriteInterrupted
  BY <1>13 DEF WriteInterrupted, bufVars, groupVars, pipeVars
<1>14. CASE Reap \/ LastWait
  BY <1>14 DEF Reap, LastWait, loopVars, bufVars, pipeVars
<1>15. CASE PollFails \/ WaitpidFails
  <2>1. broken' \subseteq Calls
    BY <1>15 DEF PollFails, WaitpidFails, Breaks, Calls
  <2> QED BY <1>15, <2>1, TermDies, DieKeeps
          DEF PollFails, WaitpidFails, TermGroup, loopVars, bufVars
<1>16. CASE WriteFails
  <2>1. broken' \subseteq Calls
    BY <1>16 DEF WriteFails, Breaks, Calls, Ends
  <2> QED BY <1>16, <2>1 DEF WriteFails, bufVars, groupVars, pipeVars
<1>17. ASSUME NEW s \in Streams, ReadFails(s) PROVE SubType'
  <2>1. broken' \subseteq Calls
    BY <1>17 DEF ReadFails, Breaks, Calls, Ends
  <2> QED BY <1>17, <2>1 DEF ReadFails, bufVars, groupVars, pipeVars
<1> QED BY <1>1, <1>2, <1>3, <1>4, <1>5, <1>6, <1>7, <1>8, <1>9, <1>10,
           <1>11, <1>12, <1>13, <1>14, <1>15, <1>16, <1>17 DEF Steps

(* The steps that the other invariants tell apart.                         *)
Terming == Terminate \/ PollFails \/ WaitpidFails
Dying == Exit \/ Terming \/ Kill

LEMMA DyingKeeps ==
  ASSUME SubType, Dying
  PROVE  /\ Shrinks /\ \A s \in Streams : pipe'[s] = pipe[s]
         /\ child # "runs" => child' = child
         /\ (helper' => helper) /\ UNCHANGED <<habits, cap>>
<1>1. PICK dead \in SUBSET Group : Die(dead)
  BY ExitDies, TermDies, KillDies
  DEF Dying, Terming, Terminate, PollFails, WaitpidFails
<1> QED BY <1>1, DieKeeps

LEMMA GroupIsKilled ==
  ASSUME SubType, Kill PROVE child' # "runs" /\ ~helper'
BY DEF Kill, Die, Group, SubType

LEMMA OrderStep ==
  ASSUME SubType, OrderInv, Steps PROVE OrderInv'
<1> USE DEF OrderInv, Doomed, Returned, AllDone
<1>1. CASE ReadInput \/ Deadline \/ Fork
  BY <1>1 DEF ReadInput, Deadline, Fork, loopVars, groupVars
<1>2. CASE Exit
  BY <1>2, DyingKeeps DEF Dying, Exit, loopVars
<1>3. CASE \E s \in Streams : WriteOutput(s) \/ ReadStream(s)
  BY <1>3 DEF WriteOutput, ReadStream, loopVars, groupVars
<1>4. CASE \E s \in Streams : StreamEmpty(s)
  BY <1>4 DEF StreamEmpty, groupVars
<1>5. CASE \E e \in Ends : Close(e)
  BY <1>5 DEF Close, loopVars
<1>6. CASE LeaveLoop \/ Poll \/ NextRound
  BY <1>6 DEF LeaveLoop, Poll, NextRound, loopVars, groupVars
<1>7. CASE Terming
  BY <1>7 DEF Terming, Terminate, PollFails, WaitpidFails, TermGroup, Breaks,
              loopVars
<1>8. CASE Kill
  BY <1>8, GroupIsKilled DEF Kill, AfterKill, loopVars
<1>9. CASE WriteInput \/ WriteInterrupted
  BY <1>9 DEF WriteInput, WriteInterrupted, groupVars
<1>10. CASE Reap \/ LastWait
  BY <1>10 DEF Reap, LastWait, loopVars
<1>11. CASE WriteFails \/ \E s \in Streams : ReadFails(s)
  BY <1>11 DEF WriteFails, ReadFails, Breaks, Streams, groupVars
<1> QED BY <1>1, <1>2, <1>3, <1>4, <1>5, <1>6, <1>7, <1>8, <1>9, <1>10, <1>11
        DEF Steps, Terming

LEMMA EndStep ==
  ASSUME SubType, SubType', EndInv, Steps PROVE EndInv'
<1> USE DEF EndInv, InputDelivered, SubType
<1>1. CASE ReadInput
  BY <1>1 DEF ReadInput, loopVars, groupVars, Streams, Ends
<1>2. CASE Fork
  BY <1>2, ForkKeeps DEF Fork, loopVars, pipeVars, Shrinks, Streams, Ends
<1>3. CASE Exit
  BY <1>3, DyingKeeps DEF Dying, Exit, loopVars, Shrinks, Streams, Ends
<1>4. CASE Terming
  BY <1>4, DyingKeeps
  DEF Dying, Terming, Terminate, PollFails, WaitpidFails, Breaks, loopVars,
      Shrinks, Streams, Ends
<1>5. CASE Kill
  BY <1>5, DyingKeeps DEF Dying, Kill, loopVars, Shrinks, Streams, Ends
<1>6. ASSUME NEW s \in Streams, WriteOutput(s) PROVE EndInv'
  BY <1>6 DEF WriteOutput, loopVars, groupVars, Streams, Ends
<1>7. ASSUME NEW s \in Streams, ReadStream(s) PROVE EndInv'
  <2>1. pipe[s] # 0
    BY <1>7 DEF ReadStream
  <2>2. \A t \in Streams \ {s} : pipe'[t] = pipe[t]
    BY <1>7 DEF ReadStream, Streams, Ends
  <2> QED BY <1>7, <2>1, <2>2 DEF ReadStream, loopVars, groupVars
<1>8. ASSUME NEW s \in Streams, StreamEmpty(s) PROVE EndInv'
  BY <1>8 DEF StreamEmpty, groupVars, pipeVars
<1>9. ASSUME NEW e \in Ends, Close(e) PROVE EndInv'
  BY <1>9, CloseKeeps DEF Close, loopVars, Shrinks, Streams, Ends
<1>10. CASE LeaveLoop \/ NextRound \/ Deadline
  BY <1>10 DEF LeaveLoop, NextRound, Deadline, loopVars, groupVars, pipeVars
<1>11. CASE Poll
  BY <1>11 DEF Poll, groupVars, pipeVars
<1>12. CASE WriteInput
  <2>1. \A s \in Streams : pipe'[s] = pipe[s]
    BY <1>12 DEF WriteInput, Streams, Ends
  <2> DEFINE n == IF holds["in"] = {} THEN 0 ELSE Lesser(left, PipeSize - pipe["in"])
  <2>2. stdinDone' => left' = 0 \/ holds'["in"] = {}
    <3>1. /\ left' = left - n /\ (stdinDone' = (left = n \/ holds["in"] = {}))
          /\ holds' = holds
      BY <1>12 DEF WriteInput, groupVars
    <3>2. left \in Int /\ n \in Int
      BY NumbersAssumption DEF Lesser, Ends
    <3> HIDE DEF n
    <3>3. stdinDone' => left = n \/ holds["in"] = {}
      BY <3>1
    <3> QED BY <3>1, <3>2, <3>3
  <2> QED BY <1>12, <2>1, <2>2 DEF WriteInput, groupVars
<1>13. CASE WriteInterrupted
  BY <1>13 DEF WriteInterrupted, groupVars, pipeVars
<1>14. CASE Reap \/ LastWait
  BY <1>14 DEF Reap, LastWait, loopVars, pipeVars
<1>15. CASE WriteFails
  BY <1>15 DEF WriteFails, Breaks, groupVars, pipeVars
<1>16. ASSUME NEW s \in Streams, ReadFails(s) PROVE EndInv'
  BY <1>16 DEF ReadFails, Breaks, groupVars, pipeVars
<1> QED BY <1>1, <1>2, <1>3, <1>4, <1>5, <1>6, <1>7, <1>8, <1>9, <1>10,
           <1>11, <1>12, <1>13, <1>14, <1>15, <1>16 DEF Steps, Terming

(* A stream that a step leaves alone is captured as before.                *)
LEMMA CaptureKept ==
  ASSUME NEW s \in Streams, \E r \in Nat : Captured(s, r),
         UNCHANGED <<habits, cap, buf[s], trunc[s], pipe[s], written[s]>>
  PROVE  \E r \in Nat : Captured(s, r)'
BY DEF Captured, OutputBound

LEMMA CaptureStep ==
  ASSUME SubType, CaptureInv, Steps PROVE CaptureInv'
<1> USE DEF SubType
<1>1. ASSUME UNCHANGED <<habits, cap, bufVars, written>>,
             \A s \in Streams : pipe'[s] = pipe[s]
      PROVE  CaptureInv'
  BY <1>1, CaptureKept DEF CaptureInv, bufVars
<1>2. CASE Dying
  BY <1>1, <1>2, DyingKeeps
  DEF Dying, Exit, Terming, Terminate, PollFails, WaitpidFails, TermGroup, Kill
<1>3. ASSUME NEW e \in Ends, Close(e) PROVE CaptureInv'
  BY <1>1, <1>3, CloseKeeps DEF Close
<1>4. CASE ReadInput \/ WriteInput
  <2>1. \A s \in Streams : pipe'[s] = pipe[s]
    BY <1>4 DEF ReadInput, WriteInput, Streams, Ends
  <2> QED BY <1>1, <1>4, <2>1 DEF ReadInput, WriteInput, groupVars
<1>5. CASE \/ Fork \/ LeaveLoop \/ Poll \/ WriteInterrupted \/ WriteFails
           \/ NextRound \/ Reap \/ LastWait \/ Deadline
           \/ \E s \in Streams : StreamEmpty(s) \/ ReadFails(s)
  BY <1>1, <1>5 DEF Fork, LeaveLoop, Poll, WriteInterrupted, WriteFails,
                    NextRound, Reap, LastWait, Deadline, StreamEmpty, ReadFails,
                    groupVars, pipeVars
<1>6. ASSUME NEW s \in Streams, WriteOutput(s) PROVE CaptureInv'
  <2>1. PICK r \in Nat : Captured(s, r)
    BY DEF CaptureInv
  <2>2. /\ pipe'[s] = pipe[s] + 1
        /\ written'[s] = Lesser(written[s] + 1, OutputBound)
        /\ written[s] < OutputBound \/ "flood" \in habits
        /\ UNCHANGED <<habits, cap, buf, trunc>>
    BY <1>6 DEF WriteOutput, bufVars, groupVars, Streams, Ends
  <2>3. OutputBound \in Nat /\ pipe[s] \in Int /\ OutputBound' = OutputBound
    BY <2>2, NumbersAssumption DEF OutputBound, Streams, Ends
  <2>4. written'[s] = Lesser(r + pipe'[s], OutputBound)
    BY <2>1, <2>2, <2>3 DEF Captured, Lesser
  <2>5. "flood" \notin habits => written'[s] = r + pipe'[s]
    BY <2>1, <2>2, <2>3 DEF Captured, Lesser
  <2>6. Captured(s, r)'
    BY <2>1, <2>2, <2>3, <2>4, <2>5 DEF Captured
  <2>7. \A t \in Streams \ {s} :
           UNCHANGED <<habits, cap, buf[t], trunc[t], pipe[t], written[t]>>
    BY <1>6 DEF WriteOutput, bufVars, groupVars, Streams, Ends
  <2> QED BY <2>6, <2>7, CaptureKept DEF CaptureInv
<1>7. ASSUME NEW s \in Streams, ReadStream(s) PROVE CaptureInv'
  <2>1. PICK r \in Nat : Captured(s, r)
    BY DEF CaptureInv
  <2>2. PICK n \in 1..pipe[s] : /\ pipe' = [pipe EXCEPT ![s] = @ - n]
                                /\ AppendCapped(s, n)
    BY <1>7 DEF ReadStream
  <2>3. /\ pipe[s] \in Int /\ cap \in Nat /\ n \in Nat /\ n <= pipe[s]
        /\ UNCHANGED <<habits, cap, written, OutputBound>>
    BY <1>7, <2>2, NumbersAssumption
    DEF ReadStream, groupVars, OutputBound, Streams, Ends
  <2>4. pipe'[s] = pipe[s] - n
    BY <2>2 DEF Streams, Ends
  <2>5. buf'[s] = Lesser(buf[s] + n, cap)
        /\ (trunc'[s] <=> trunc[s] \/ buf[s] + n > cap)
    BY <2>2 DEF AppendCapped
  <2>6. buf'[s] = Lesser(r + n, cap) /\ (trunc'[s] <=> r + n > cap)
    BY <2>1, <2>3, <2>5 DEF Captured, Lesser
  <2>7. (r + n) + pipe'[s] = r + pipe[s] /\ pipe'[s] >= 0 /\ r + n \in Nat
    BY <2>3, <2>4
  <2>8. Captured(s, r + n)'
    BY <2>1, <2>3, <2>6, <2>7 DEF Captured
  <2>9. \A t \in Streams \ {s} :
           UNCHANGED <<habits, cap, buf[t], trunc[t], pipe[t], written[t]>>
    BY <1>7, <2>2 DEF ReadStream, AppendCapped, groupVars, Streams, Ends
  <2> QED BY <2>7, <2>8, <2>9, CaptureKept DEF CaptureInv
<1> QED BY <1>2, <1>3, <1>4, <1>5, <1>6, <1>7 DEF Steps, Dying, Terming

-----------------------------------------------------------------------------
(***************************************************************************)
(* The reviewer around it.                                                 *)
(***************************************************************************)
(* A review that is read from its file: nothing went wrong so far, and     *)
(* body bytes of it are taken.                                             *)
Reading ==
  /\ Agent /\ ~timedOut /\ ~trunc["out"] /\ ~Lost
  /\ report.exit = "zero" /\ report.complete /\ report.file \in Nat
  /\ body \in Nat /\ body <= report.file /\ body <= MaxOutput
  /\ cutOff => body = MaxOutput /\ body < report.file

(* What each reviewer's verdict says.                                      *)
MockVerdict ==
  Reviewed => /\ ~timedOut /\ report.exit = "zero"
              /\ body = buf["out"] /\ cutOff = trunc["out"]

AgentVerdict ==
  /\ Reviewed =>
       /\ ~timedOut /\ ~trunc["out"] /\ ~Lost /\ body > 0
       /\ report.exit = "zero" /\ report.complete
       /\ body = IF report.file = NoFile THEN Whole ELSE Lesser(Whole, MaxOutput)
       /\ cutOff <=> body < Whole
  /\ ~timedOut /\ ~trunc["out"] /\ ~Lost /\ report.exit = "zero"
       /\ report.complete /\ Whole > 0 => Reviewed

ReviewInv ==
  /\ cap = CaptureCap
  /\ pc \notin {"file", "over"} =>
       verdict = "none" /\ report = NoReport /\ body = 0 /\ ~cutOff
  /\ "poll" \in broken => report = NoReport /\ ~Reviewed
  /\ "waitpid" \in broken => report.exit = "other"
  /\ pc = "file" => verdict = "none" /\ Reading
  /\ pc = "over" => IF Agent THEN AgentVerdict ELSE MockVerdict

Inv == SubInv /\ ReviewInv

LEMMA InvInit == ReviewInit => Inv
<1> SUFFICES ASSUME ReviewInit PROVE Inv
  OBVIOUS
<1> USE NumbersAssumption DEF ReviewInit, Init
<1>1. SubType
  <2>1. stdinDone \in BOOLEAN
    OBVIOUS
  <2>2. holds \in [Ends -> SUBSET Group]
    BY DEF Group
  <2>3. /\ habits \in Children /\ cap \in Caps /\ left \in Int /\ ready = {}
        /\ timedOut = FALSE /\ late = FALSE /\ child = "runs" /\ helper = FALSE
        /\ eof \in [Streams -> BOOLEAN] /\ trunc \in [Streams -> BOOLEAN]
        /\ buf \in [Streams -> Nat] /\ written \in [Streams -> Nat]
        /\ pipe \in [Ends -> Int] /\ broken = {}
    OBVIOUS
  <2> QED BY <2>1, <2>2, <2>3 DEF SubType
<1>2. OrderInv
  BY DEF OrderInv, Doomed, Returned
<1>3. EndInv
  BY DEF EndInv, InputDelivered, Streams
<1>4. ASSUME NEW s \in Streams PROVE \E r \in Nat : Captured(s, r)
  <2>1. cap \in Nat /\ OutputBound \in Nat
    BY DEF OutputBound
  <2>2. buf[s] = 0 /\ pipe[s] = 0 /\ written[s] = 0 /\ trunc[s] = FALSE
    BY DEF Streams, Ends
  <2>3. Captured(s, 0)
    BY <2>1, <2>2 DEF Captured, Lesser
  <2> QED BY <2>3
<1>5. ReviewInv
  BY DEF ReviewInv, Reviewed
<1> QED BY <1>1, <1>2, <1>3, <1>4, <1>5 DEF Inv, SubInv, CaptureInv

LEMMA SubSteps == ASSUME SubInv, Steps PROVE SubInv'
BY TypeStep, OrderStep, EndStep, CaptureStep DEF SubInv

(* A step of the reviewer leaves the subprocess as it is.                  *)
LEMMA ReviewLeavesSub == ASSUME SubInv, ReviewSteps PROVE SubInv'
<1>1. /\ UNCHANGED Rest /\ pc \in {"thrown", "done", "file"}
      /\ pc' \in {"file", "over"} /\ (pc = "thrown" => pc' = "over")
  BY DEF ReviewSteps, SetupFails, MockJudges, AgentJudges, ReadFileCapped, FileIsRead
<1> USE <1>1 DEF Rest, loopVars, bufVars, groupVars, pipeVars
<1>2. SubType'
  BY DEF SubInv, SubType
<1>3. OrderInv'
  BY DEF SubInv, OrderInv, Doomed, Returned, AllDone
<1>4. EndInv'
  BY DEF SubInv, EndInv, InputDelivered
<1>5. ASSUME NEW s \in Streams PROVE \E r \in Nat : Captured(s, r)'
  BY CaptureKept DEF SubInv, CaptureInv
<1> QED BY <1>2, <1>3, <1>4, <1>5 DEF SubInv, CaptureInv

(* Where run_subprocess() has returned, it changes nothing any more of     *)
(* what the reviewer uses.                                                 *)
LEMMA ReturnedStays ==
  ASSUME SubInv, Steps
  PROVE  /\ UNCHANGED <<habits, cap>>
         /\ pc \in {"file", "over"} => UNCHANGED <<pc, timedOut, bufVars, broken>>
         /\ pc' \in {"file", "over"} => pc' = pc
         /\ broken' # broken => pc \in {"loop", "handle", "reap"}
<1>1. UNCHANGED <<habits, cap>>
  BY DyingKeeps
  DEF SubInv, Steps, Dying, Terming, ReadInput, Fork, WriteOutput, ReadStream,
      StreamEmpty, ReadFails, Close, LeaveLoop, Poll, WriteInput, WriteFails,
      WriteInterrupted, NextRound, Reap, LastWait, Deadline, groupVars
<1>2. /\ pc \in {"file", "over"} => UNCHANGED <<pc, timedOut, bufVars, broken>>
      /\ pc' \in {"file", "over"} => pc' = pc
      /\ broken' # broken => pc \in {"loop", "handle", "reap"}
  BY DEF Steps, ReadInput, Fork, Exit, WriteOutput, ReadStream, StreamEmpty,
         ReadFails, Close, LeaveLoop, Terminate, Kill, Poll, PollFails,
         WriteInput, WriteFails, WriteInterrupted, NextRound, Reap,
         WaitpidFails, LastWait, Deadline, TermGroup, AfterKill, Breaks,
         loopVars, bufVars, Streams
<1> QED BY <1>1, <1>2

(* While the file is read or the verdict is out, if nothing was killed for *)
(* its time or for poll(), nobody can write any more.                      *)
LEMMA OutputStays ==
  ASSUME SubInv, Steps, pc \in {"file", "over"}, ~timedOut, "poll" \notin broken
  PROVE  UNCHANGED written
<1>1. \A s \in Streams : eof[s]
  BY DEF SubInv, OrderInv, AllDone
<1>2. \A s \in Streams : ~WriteOutput(s)
  BY <1>1 DEF WriteOutput
<1> QED
  BY <1>2
  DEF Steps, ReadInput, Fork, Exit, ReadStream, StreamEmpty, ReadFails, Close,
      LeaveLoop, Terminate, Kill, Poll, PollFails, WriteInput, WriteFails,
      WriteInterrupted, NextRound, Reap, WaitpidFails, LastWait, Deadline,
      TermGroup, pipeVars

LEMMA ReviewKept ==
  ASSUME Inv, Steps, UNCHANGED reviewVars PROVE ReviewInv'
<1>1. SubInv /\ ReviewInv
  BY DEF Inv
<1>2. /\ UNCHANGED <<habits, cap, Agent, CaptureCap, report, body, cutOff, verdict>>
      /\ pc \in {"file", "over"} => UNCHANGED <<pc, timedOut, bufVars, broken>>
      /\ pc' \in {"file", "over"} => pc' = pc
      /\ broken' # broken => pc \in {"loop", "handle", "reap"}
  BY <1>1, ReturnedStays DEF reviewVars, Agent, CaptureCap
<1>3. UNCHANGED Reviewed /\ (Agent => UNCHANGED Whole)
  BY <1>2 DEF Reviewed, Whole
<1>4. /\ "poll" \in broken' => report' = NoReport /\ ~Reviewed'
      /\ "waitpid" \in broken' => report'.exit = "other"
  BY <1>1, <1>2, <1>3 DEF ReviewInv, Reviewed, NoReport
<1>5. ASSUME pc \in {"file", "over"}, ~timedOut, "poll" \notin broken
      PROVE  UNCHANGED Lost
  BY <1>1, <1>2, <1>5, OutputStays DEF Lost, bufVars
<1>6. CASE pc' = "over"
  <2>1. pc = "over" /\ UNCHANGED <<timedOut, buf, trunc, broken>>
    BY <1>2, <1>6 DEF bufVars
  <2>2. CASE timedOut \/ "poll" \in broken
    <3>1. ~Reviewed /\ (timedOut \/ report.exit = "other")
      BY <1>1, <2>1, <2>2 DEF ReviewInv, AgentVerdict, MockVerdict, NoReport
    <3> QED BY <1>1, <1>2, <1>3, <1>4, <1>6, <2>1, <3>1
            DEF ReviewInv, AgentVerdict, MockVerdict
  <2>3. CASE ~timedOut /\ "poll" \notin broken
    <3>1. UNCHANGED Lost
      BY <1>5, <2>1, <2>3
    <3> QED BY <1>1, <1>2, <1>3, <1>4, <1>6, <2>1, <3>1
            DEF ReviewInv, AgentVerdict, MockVerdict
  <2> QED BY <2>2, <2>3
<1>7. CASE pc' = "file"
  <2>1. pc = "file" /\ UNCHANGED <<timedOut, buf, trunc, broken>>
    BY <1>2, <1>7 DEF bufVars
  <2>2. Reading
    BY <1>1, <2>1 DEF ReviewInv
  <2>3. "poll" \notin broken
    BY <1>1, <2>2 DEF ReviewInv, Reading, NoReport
  <2>4. UNCHANGED Lost
    BY <1>5, <2>1, <2>2, <2>3 DEF Reading
  <2> QED BY <1>1, <1>2, <1>4, <1>7, <2>1, <2>4 DEF ReviewInv, Reading
<1>8. CASE pc' \notin {"file", "over"}
  BY <1>1, <1>2, <1>4, <1>8 DEF ReviewInv
<1> QED BY <1>6, <1>7, <1>8

LEMMA ReviewStep ==
  ASSUME Inv, ReviewSteps PROVE ReviewInv'
<1> USE NumbersAssumption, SizesAssumption DEF Inv, ReviewInv, Reviewed
<1>1. UNCHANGED <<habits, cap, timedOut, buf, trunc, written, broken, Agent,
                  CaptureCap, Lost>>
  BY DEF ReviewSteps, SetupFails, MockJudges, AgentJudges, ReadFileCapped,
         FileIsRead, Rest, loopVars, bufVars, groupVars, pipeVars, Agent,
         CaptureCap, Lost
<1>0. pc \in {"done", "file"} => "poll" \notin broken
  BY DEF SubInv, OrderInv
<1>6. CASE SetupFails
  <2>1. /\ pc = "thrown" /\ pc' = "over" /\ verdict' = "error"
        /\ UNCHANGED <<report, body, cutOff>>
    BY <1>6 DEF SetupFails
  <2>2. report = NoReport
    BY <2>1
  <2> QED BY <1>1, <2>1, <2>2 DEF AgentVerdict, MockVerdict, NoReport
<1>2. CASE MockJudges
  <2>1. PICK exit \in {"zero", "other"} :
           /\ "waitpid" \in broken => exit = "other"
           /\ report' = [report EXCEPT !.exit = exit]
           /\ verdict' = IF timedOut \/ exit = "other" THEN "error" ELSE "review"
    BY <1>2 DEF MockJudges, MockExits
  <2>2. report = NoReport /\ pc = "done"
    BY <1>2 DEF MockJudges
  <2>3. report'.exit = exit /\ ("waitpid" \in broken => exit = "other")
    BY <2>1, <2>2 DEF NoReport
  <2> QED BY <1>0, <1>1, <1>2, <2>1, <2>2, <2>3 DEF MockJudges, MockVerdict
<1>3. CASE AgentJudges
  <2>1. PICK r \in Reports :
           /\ report' = r
           /\ pc' = IF ~Failed(r) /\ r.file # NoFile THEN "file" ELSE "over"
           /\ body' = IF ~Failed(r) /\ r.file = NoFile THEN r.preview ELSE 0
           /\ verdict' = IF pc' = "file" THEN "none"
                         ELSE IF body' = 0 THEN "error" ELSE "review"
    BY <1>3 DEF AgentJudges
  <2>2. /\ r.exit \in {"zero", "other"} /\ r.complete \in BOOLEAN
        /\ r.file \in NoFile..FileMax /\ r.preview \in Nat
        /\ "waitpid" \in broken => r.exit = "other"
    BY DEF Reports
  <2>3. r.file # NoFile => r.file \in Nat
    BY <2>2 DEF NoFile
  <2>4. Agent /\ ~cutOff /\ UNCHANGED cutOff /\ "poll" \notin broken
    BY <1>0, <1>3 DEF AgentJudges
  <2>5. CASE pc' = "file"
    BY <1>1, <2>1, <2>2, <2>3, <2>4, <2>5 DEF Reading, Failed, ParsedStatus
  <2>6. CASE pc' = "over"
    BY <1>1, <2>1, <2>2, <2>3, <2>4, <2>6 DEF AgentVerdict, Failed, ParsedStatus,
                                                  Whole
  <2> QED BY <2>1, <2>5, <2>6
<1>4. CASE ReadFileCapped
  <2> DEFINE n    == Lesser(Chunk, report.file - body)
             room == MaxOutput - body
  <2>1. /\ pc = "file" /\ pc' = "file" /\ n > 0 /\ ~cutOff
        /\ body' = body + Lesser(n, room)
        /\ cutOff' = (n > room)
        /\ UNCHANGED <<report, verdict>>
    BY <1>4 DEF ReadFileCapped
  <2>2. Reading
    BY <2>1
  <2>3. n \in Nat /\ room \in Nat /\ n <= report.file - body
    BY <2>1, <2>2 DEF Reading, Lesser
  <2>4. cutOff' <=> n > room
    BY <2>1
  <2> HIDE DEF n
  <2>5. Reading'
    BY <1>1, <2>1, <2>2, <2>3, <2>4 DEF Reading, Lesser
  <2> QED BY <1>0, <1>1, <2>1, <2>5
<1>5. CASE FileIsRead
  <2>1. /\ pc = "file" /\ pc' = "over" /\ (cutOff \/ body = report.file)
        /\ verdict' = IF body = 0 THEN "error" ELSE "review"
        /\ UNCHANGED <<report, body, cutOff>>
    BY <1>5 DEF FileIsRead
  <2>2. Reading
    BY <2>1
  <2>3. Whole' = report.file /\ report.file # NoFile
    BY <1>1, <2>1, <2>2 DEF Reading, Whole, NoFile
  <2>4. body = Lesser(report.file, MaxOutput) /\ (cutOff <=> body < report.file)
    BY <2>1, <2>2 DEF Reading, Lesser
  <2>5. body = 0 <=> report.file = 0
    BY <2>2, <2>4 DEF Reading, Lesser
  <2>6. AgentVerdict'
    BY <1>1, <2>1, <2>2, <2>3, <2>4, <2>5 DEF Reading, AgentVerdict
  <2> QED BY <1>0, <1>1, <2>1, <2>2, <2>6 DEF Reading
<1> QED BY <1>2, <1>3, <1>4, <1>5, <1>6 DEF ReviewSteps

LEMMA InvStep == Inv /\ [ReviewNext]_reviewerVars => Inv'
<1> SUFFICES ASSUME Inv, [ReviewNext]_reviewerVars PROVE Inv'
  OBVIOUS
<1>1. CASE ReviewSteps
  BY <1>1, ReviewLeavesSub, ReviewStep DEF Inv
<1>2. CASE Next /\ UNCHANGED reviewVars
  BY <1>2, NextIsSteps, SubSteps, ReviewKept DEF Inv
<1>3. CASE UNCHANGED reviewerVars
  <2> USE <1>3 DEF reviewerVars, reviewVars, vars, loopVars, bufVars, groupVars,
                   pipeVars
  <2>1. SubType'
    BY DEF Inv, SubInv, SubType
  <2>2. OrderInv' /\ EndInv'
    BY DEF Inv, SubInv, OrderInv, Doomed, Returned, AllDone, EndInv,
           InputDelivered
  <2>3. CaptureInv'
    BY DEF Inv, SubInv, CaptureInv, Captured, OutputBound
  <2>4. ReviewInv'
    BY DEF Inv, ReviewInv, Reading, MockVerdict, AgentVerdict, Reviewed, Whole,
           Lost, Agent, CaptureCap
  <2> QED BY <2>1, <2>2, <2>3, <2>4 DEF Inv, SubInv
<1> QED BY <1>1, <1>2, <1>3 DEF ReviewNext

LEMMA InvAlways == ReviewerSpec => []Inv
<1>1. ReviewInit /\ [][ReviewNext]_reviewerVars => []Inv
  BY InvInit, InvStep, PTL
<1> QED BY <1>1, PTL DEF ReviewerSpec

-----------------------------------------------------------------------------
LEMMA InvCaptures == Inv => OutputCaptured
<1> SUFFICES ASSUME Inv, Returned, ~timedOut, "poll" \notin broken,
                    NEW s \in Streams \ broken
             PROVE  buf[s] = Lesser(written[s], cap)
                    /\ (trunc[s] <=> written[s] > cap)
  BY DEF OutputCaptured
<1>1. pipe[s] = 0
  BY DEF Inv, SubInv, OrderInv, EndInv, AllDone, Returned
<1>2. PICK r \in Nat : Captured(s, r)
  BY DEF Inv, SubInv, CaptureInv
<1>3. cap \in Nat /\ OutputBound \in Nat
      /\ ("flood" \in habits => OutputBound > cap)
  BY NumbersAssumption, FloodAssumption DEF Inv, SubInv, SubType, OutputBound
<1> QED BY <1>1, <1>2, <1>3 DEF Captured, Lesser

(* The kept bytes are within the cap, and what was cut was over it, also   *)
(* on a stream that was given up.                                          *)
LEMMA InvCaps ==
  ASSUME Inv, NEW s \in Streams
  PROVE  buf[s] <= cap /\ (trunc[s] => written[s] > cap)
<1>1. PICK r \in Nat : Captured(s, r)
  BY DEF Inv, SubInv, CaptureInv
<1>2. cap \in Nat /\ OutputBound \in Nat /\ pipe[s] \in Int
      /\ ("flood" \in habits => OutputBound > cap)
  BY NumbersAssumption, FloodAssumption
  DEF Inv, SubInv, SubType, OutputBound, Streams, Ends
<1> QED BY <1>1, <1>2 DEF Captured, Lesser

(* Wherever run_subprocess() returns or throws, its child is dead, and     *)
(* reaped unless poll() or waitpid() failed; after such a failure and      *)
(* after a timeout the whole process group is dead (subprocess.cpp:        *)
(* 183-203, 370-379, 485-509), for every child.                            *)
THEOREM NobodyTheorem == ReviewerSpec => []NobodyLeftBehind
<1>1. ASSUME Inv, Returned PROVE NobodyLeftBehind
  <2>1. pc # "grace" /\ child \in {"runs", "exited", "reaped"}
    BY <1>1 DEF Returned, Inv, SubInv, SubType
  <2> QED BY <1>1, <2>1 DEF Inv, SubInv, OrderInv, Doomed, NobodyLeftBehind
<1>2. Inv => NobodyLeftBehind
  BY <1>1 DEF NobodyLeftBehind
<1> QED BY <1>2, InvAlways, PTL

(* No signal ends the child's input early (subprocess.cpp:388-423).        *)
THEOREM InputTheorem == ReviewerSpec => []InputDelivered
<1>1. Inv => InputDelivered
  BY DEF Inv, SubInv, EndInv
<1> QED BY <1>1, InvAlways, PTL

(* Output is captured up to the cap, exactly, and the flag that it was cut *)
(* is true exactly when it was (subprocess.cpp:88-103, 424-477), for every *)
(* size of pipe, cap and output, on every stream that read() did not give  *)
(* up.                                                                     *)
THEOREM CapturedTheorem == ReviewerSpec => []OutputCaptured
<1> QED BY InvCaptures, InvAlways, PTL

(* A review says that it was cut exactly when it was (reviewer.hpp:212-216,*)
(* reviewer_agent.cpp:65-110), for every file and every chunk.             *)
THEOREM CutTheorem == ReviewerSpec => []CutIsNoted
<1>1. ASSUME Inv, Reviewed, ~Agent, "out" \notin broken PROVE CutIsNoted
  <2>1. /\ pc = "over" /\ ~timedOut /\ "poll" \notin broken
        /\ body = buf["out"] /\ cutOff = trunc["out"]
    BY <1>1 DEF Inv, ReviewInv, MockVerdict, Reviewed
  <2>2. /\ buf["out"] = Lesser(written["out"], MaxOutput)
        /\ trunc["out"] <=> written["out"] > MaxOutput
    BY <1>1, <2>1, InvCaptures
    DEF OutputCaptured, Returned, Streams, Inv, ReviewInv, CaptureCap
  <2>3. written["out"] \in Nat
    BY <1>1 DEF Inv, SubInv, SubType, Streams
  <2> QED BY <1>1, <2>1, <2>2, <2>3, SizesAssumption DEF CutIsNoted, Whole, Lesser
<1>2. ASSUME Inv, Reviewed, Agent PROVE CutIsNoted
  BY <1>2 DEF Inv, ReviewInv, AgentVerdict, Reviewed, CutIsNoted
<1>3. Inv => CutIsNoted
  BY <1>1, <1>2 DEF CutIsNoted
<1> QED BY <1>3, InvAlways, PTL

(* No failed, killed or half-reported job becomes a review                 *)
(* (reviewer_agent.cpp:209-263), whatever codexmon leaves and whatever     *)
(* system call fails.                                                      *)
THEOREM EarnedTheorem == ReviewerSpec => []ReviewIsEarned
<1>1. ASSUME Inv, Reviewed PROVE ReviewIsEarned
  <2>1. pc = "over" /\ "poll" \notin broken
    BY <1>1 DEF Inv, ReviewInv, Reviewed
  <2>2. ~timedOut /\ report.exit = "zero"
    BY <1>1, <2>1 DEF Inv, ReviewInv, AgentVerdict, MockVerdict
  <2>3. child = "reaped"
    BY <1>1, <2>1, <2>2 DEF Inv, SubInv, OrderInv, Returned, ReviewInv
  <2>4. Agent => /\ report.complete /\ body > 0 /\ cap = StatusCap
                 /\ ~trunc["out"] /\ ~Lost
    BY <1>1, <2>1 DEF Inv, ReviewInv, AgentVerdict, CaptureCap
  <2>5. written["out"] \in Nat /\ buf["out"] \in Nat /\ cap \in Nat
    BY <1>1, NumbersAssumption DEF Inv, SubInv, SubType, Streams
  <2>6. ASSUME ~trunc["out"], ~Lost PROVE written["out"] <= cap
    <3>1. CASE "out" \in broken
      BY <1>1, <2>6, <3>1, InvCaps DEF Lost, Streams
    <3>2. CASE "out" \notin broken
      BY <1>1, <2>1, <2>2, <2>5, <2>6, <3>2, InvCaptures
      DEF OutputCaptured, Returned, Streams
    <3> QED BY <3>1, <3>2
  <2> QED BY <2>2, <2>3, <2>4, <2>6 DEF ReviewIsEarned
<1>2. Inv => ReviewIsEarned
  BY <1>1 DEF ReviewIsEarned
<1> QED BY <1>2, InvAlways, PTL

(* The cap on a review fails no review that went well                      *)
(* (reviewer_agent.cpp:59-65).                                             *)
THEOREM KeptTheorem == ReviewerSpec => []GoodReviewIsKept
<1>1. ASSUME Inv, pc = "over", Agent, ~timedOut, report.exit = "zero",
             report.complete, written["out"] <= StatusCap, ~Lost, Whole > 0
      PROVE  Reviewed
  <2>1. cap = StatusCap /\ (trunc["out"] => written["out"] > cap)
    BY <1>1, InvCaps DEF Inv, ReviewInv, CaptureCap, Streams
  <2>2. written["out"] \in Nat
    BY <1>1 DEF Inv, SubInv, SubType, Streams
  <2>3. ~trunc["out"]
    BY <1>1, <2>1, <2>2, SizesAssumption
  <2> QED BY <1>1, <2>3 DEF Inv, ReviewInv, AgentVerdict
<1>2. Inv => GoodReviewIsKept
  BY <1>1 DEF GoodReviewIsKept
<1> QED BY <1>2, InvAlways, PTL
=============================================================================
