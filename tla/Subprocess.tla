----------------------------- MODULE Subprocess -----------------------------
(***************************************************************************)
(* run_subprocess() (subprocess.cpp): the parent feeds a child through one *)
(* pipe, collects its output through two others, and kills its process     *)
(* group at a deadline.  The child is any program: it reads, writes,       *)
(* closes, forks a helper that inherits its ends, ignores SIGTERM.         *)
(* Bytes are counted, not told apart.                                      *)
(***************************************************************************)
EXTENDS Integers

CONSTANTS InputSize,  \* bytes of stdin_input
          PipeSize,   \* bytes a pipe holds
          OutputSize, \* bound: bytes the group writes to each stream
          Caps,       \* values of max_output_bytes
          Children    \* the children to look at, as sets of habits

Streams == {"out", "err"}
Ends == Streams \cup {"in"}
Group == {"child", "helper"}

(* What a child may do: fork a helper; ignore SIGTERM; close its output    *)
(* and go on; write for ever; or be a filter that copies its input.        *)
(* "signal" and "errors" are about us: signals arrive; a system call fails *)
(* with an error that no retry cures.                                      *)
Habits ==
  {"helper", "stubborn", "quiet", "flood", "signal", "errors", "filter"}

ASSUME NumbersAssumption ==
  /\ InputSize \in Nat /\ OutputSize \in Nat /\ Caps \subseteq Nat
  /\ PipeSize \in Nat \ {0}
ASSUME ChildrenAssumption == Children \subseteq SUBSET Habits

(* The bound on what is written for ever is above the caps.                *)
ASSUME FloodAssumption ==
  /\ \A c \in Caps : OutputSize > c
  /\ \A h \in Children : ~("flood" \in h /\ "filter" \in h)

VARIABLES habits,   \* which child this is
          cap,      \* max_output_bytes
          pc,       \* where run_subprocess() is
          left,     \* bytes of stdin_input not written yet
          stdinDone,\* the parent has closed its end of the child's stdin
          eof,      \* eof[s]: the parent saw the end of s
          ready,    \* what poll() reported and is not handled yet
          buf,      \* buf[s]: bytes of s kept
          trunc,    \* trunc[s]: bytes of s were dropped
          timedOut,
          late,     \* the deadline has passed
          child,    \* "runs", "exited" or "reaped"
          helper,   \* a grandchild in the child's process group runs
          holds,    \* holds[e]: the processes with the child's end of e
          pipe,     \* pipe[e]: bytes in e
          written,  \* history: written[s]: bytes the group wrote to s
          broken    \* the system calls of the parent that failed for good

Lesser(m, n) == IF m <= n THEN m ELSE n

(* An end stands for read() or write() on it.                              *)
Calls == Ends \cup {"poll", "waitpid"}

bufVars == <<buf, trunc>>
loopVars == <<left, stdinDone, eof, ready, timedOut>>
groupVars == <<habits, cap, child, helper, holds>>
pipeVars == <<pipe, written>>
vars == <<pc, loopVars, bufVars, late, groupVars, pipeVars, broken>>

Init ==
  /\ habits \in Children /\ cap \in Caps
  /\ pc = "loop"
  /\ left = InputSize /\ stdinDone = (InputSize = 0)
  /\ eof = [s \in Streams |-> FALSE] /\ ready = {}
  /\ buf = [s \in Streams |-> 0] /\ trunc = [s \in Streams |-> FALSE]
  /\ timedOut = FALSE /\ late = FALSE
  /\ child = "runs" /\ helper = FALSE
  /\ holds = [e \in Ends |-> {"child"}]
  /\ pipe = [e \in Ends |-> 0] /\ written = [s \in Streams |-> 0]
  /\ broken = {}

-----------------------------------------------------------------------------
(***************************************************************************)
(* The child and its helper.                                               *)
(***************************************************************************)
ReadInput ==
  /\ holds["in"] # {} /\ pipe["in"] > 0
  /\ pipe' = [pipe EXCEPT !["in"] = @ - 1]
  /\ UNCHANGED <<pc, loopVars, bufVars, late, groupVars, written, broken>>

(* A filter writes as much as it reads.  A child that floods writes for    *)
(* ever: its count stops at the bound.                                     *)
OutputBound == IF "filter" \in habits THEN InputSize ELSE OutputSize

WriteOutput(s) ==
  /\ holds[s] # {} /\ pipe[s] < PipeSize /\ ~eof[s]
  /\ written[s] < OutputBound \/ "flood" \in habits
  /\ pipe' = [pipe EXCEPT ![s] = @ + 1]
  /\ written' = [written EXCEPT ![s] = Lesser(@ + 1, OutputBound)]
  /\ UNCHANGED <<pc, loopVars, bufVars, late, groupVars, broken>>

(* What nobody can read any more is lost.                                  *)
HeldBy(held) ==
  /\ holds' = held
  /\ pipe' = IF held["in"] = {} THEN [pipe EXCEPT !["in"] = 0] ELSE pipe

(* The child closes an end and goes on; only a quiet one gives up both of  *)
(* its output streams.                                                     *)
Close(e) ==
  /\ child = "runs" /\ "child" \in holds[e]
  /\ "quiet" \in habits \/ \E s \in Streams \ {e} : "child" \in holds[s]
  /\ HeldBy([holds EXCEPT ![e] = @ \ {"child"}])
  /\ UNCHANGED <<habits, cap, pc, loopVars, bufVars, late, child, helper,
                 written, broken>>

Fork ==
  /\ "helper" \in habits
  /\ child = "runs" /\ ~helper
  /\ helper' = TRUE
  /\ holds' = [e \in Ends |-> IF "child" \in holds[e]
                              THEN holds[e] \cup {"helper"} ELSE holds[e]]
  /\ UNCHANGED <<habits, cap, pc, loopVars, bufVars, late, child, pipeVars,
                 broken>>

Die(dead) ==
  /\ UNCHANGED <<habits, cap>>
  /\ child' = IF "child" \in dead /\ child = "runs" THEN "exited" ELSE child
  /\ helper' = (helper /\ "helper" \notin dead)
  /\ HeldBy([e \in Ends |-> holds[e] \ dead])

Exit ==
  /\ \/ child = "runs" /\ Die({"child"})
     \/ helper /\ Die({"helper"})
  /\ UNCHANGED <<pc, loopVars, bufVars, late, written, broken>>

AnyChild ==
  \/ ReadInput \/ Fork \/ Exit
  \/ \E s \in Streams : WriteOutput(s)
  \/ \E e \in Ends : Close(e)

(* A filter copies byte by byte, waits whenever its output is full, and    *)
(* exits at the end of its input.                                          *)
Copied == written["out"] = InputSize - left - pipe["in"]

Filter ==
  \/ Copied /\ ReadInput
  \/ ~Copied /\ WriteOutput("out")
  \/ Copied /\ pipe["in"] = 0 /\ stdinDone /\ Exit

ChildSteps == IF "filter" \in habits THEN Filter ELSE AnyChild

-----------------------------------------------------------------------------
(***************************************************************************)
(* The parent.                                                             *)
(***************************************************************************)
(* The caller of a filter is patient.                                      *)
Deadline ==
  /\ ~late /\ "filter" \notin habits
  /\ late' = TRUE
  /\ UNCHANGED <<pc, loopVars, bufVars, groupVars, pipeVars, broken>>

AllDone == stdinDone /\ \A s \in Streams : eof[s]

LeaveLoop ==
  /\ pc = "loop" /\ AllDone
  /\ pc' = "reap"
  /\ UNCHANGED <<loopVars, bufVars, late, groupVars, pipeVars, broken>>

(* SIGTERM to the group, then a grace period that no signal to us cuts     *)
(* short.                                                                  *)
TermGroup ==
  /\ pc' = "grace"
  /\ \E dead \in IF "stubborn" \in habits THEN SUBSET Group ELSE {Group} :
       Die(dead)
  /\ UNCHANGED <<bufVars, late, written>>

Terminate ==
  /\ pc = "loop" /\ ~AllDone /\ late
  /\ timedOut' = TRUE
  /\ TermGroup
  /\ UNCHANGED <<left, stdinDone, eof, ready, broken>>

(* What comes behind SIGKILL: the exception of a failed poll(), one last   *)
(* waitpid() that does not wait, or the usual waitpid().                   *)
AfterKill ==
  IF "poll" \in broken THEN "thrown"
  ELSE IF "waitpid" \in broken THEN "last" ELSE "reap"

(* Mutant of Kill: SIGKILL goes to the child and not to its group.         *)
KillOnlyChild ==
  /\ pc = "grace"
  /\ Die({"child"})
  /\ pc' = AfterKill
  /\ UNCHANGED <<loopVars, bufVars, late, written, broken>>

(* Mutant of Kill: SIGTERM is trusted.                                     *)
KillForgotten ==
  /\ pc = "grace"
  /\ pc' = AfterKill
  /\ UNCHANGED <<loopVars, bufVars, late, groupVars, pipeVars, broken>>

Kill ==
  /\ pc = "grace"
  /\ Die(Group)
  /\ pc' = AfterKill
  /\ UNCHANGED <<loopVars, bufVars, late, written, broken>>

(* The streams read() would not block on.                                  *)
Readable == {s \in Streams : ~eof[s] /\ (pipe[s] > 0 \/ holds[s] = {})}

InputPollable == ~stdinDone /\ (pipe["in"] < PipeSize \/ holds["in"] = {})

(* Mutant of Events: first all of the input, then the output.              *)
EventsInputFirst ==
  CASE InputPollable -> {"in"} [] stdinDone -> Readable [] OTHER -> {}

Events == Readable \cup IF InputPollable THEN {"in"} ELSE {}

(* poll() comes back with its events; coming back with none, or because of *)
(* a signal, changes nothing.                                              *)
Poll ==
  /\ pc = "loop" /\ ~AllDone /\ ~late
  /\ Events # {}
  /\ ready' = Events
  /\ pc' = "handle"
  /\ UNCHANGED <<left, stdinDone, eof, timedOut, bufVars, late, groupVars,
                 pipeVars, broken>>

(* write() takes what fits; EPIPE ends the input.                          *)
WriteInput ==
  /\ pc = "handle" /\ "in" \in ready
  /\ ready' = ready \ {"in"}
  /\ LET n == IF holds["in"] = {} THEN 0 ELSE Lesser(left, PipeSize - pipe["in"])
     IN  /\ left' = left - n
         /\ pipe' = [pipe EXCEPT !["in"] = @ + n]
         /\ stdinDone' = (left = n \/ holds["in"] = {})
  /\ UNCHANGED <<pc, eof, timedOut, bufVars, late, groupVars, written, broken>>

(* Mutant of WriteInterrupted: EINTR is taken for EPIPE.                   *)
WriteInterruptedGivesUp ==
  /\ "signal" \in habits
  /\ pc = "handle" /\ "in" \in ready
  /\ ready' = ready \ {"in"}
  /\ stdinDone' = TRUE
  /\ UNCHANGED <<pc, left, eof, timedOut, bufVars, late, groupVars, pipeVars,
                 broken>>

(* A signal interrupts write(): try again at the next poll().              *)
WriteInterrupted ==
  /\ "signal" \in habits
  /\ pc = "handle" /\ "in" \in ready
  /\ ready' = ready \ {"in"}
  /\ UNCHANGED <<pc, left, stdinDone, eof, timedOut, bufVars, late,
                 groupVars, pipeVars, broken>>

(* Mutant of AppendCapped: only the last chunk tells what was dropped.     *)
AppendForgetful(s, n) ==
  /\ buf' = [buf EXCEPT ![s] = Lesser(@ + n, cap)]
  /\ trunc' = [trunc EXCEPT ![s] = buf[s] < cap /\ buf[s] + n > cap]

AppendCapped(s, n) ==
  /\ buf' = [buf EXCEPT ![s] = Lesser(@ + n, cap)]
  /\ trunc' = [trunc EXCEPT ![s] = @ \/ buf[s] + n > cap]

(* read() until the stream is empty: the loop that does not look at the    *)
(* deadline.                                                               *)
ReadStream(s) ==
  /\ pc = "handle" /\ s \in ready
  /\ \E n \in 1..pipe[s] :
       /\ pipe' = [pipe EXCEPT ![s] = @ - n]
       /\ AppendCapped(s, n)
  /\ UNCHANGED <<pc, loopVars, late, groupVars, written, broken>>

StreamEmpty(s) ==
  /\ pc = "handle" /\ s \in ready /\ pipe[s] = 0
  /\ ready' = ready \ {s}
  /\ eof' = [eof EXCEPT ![s] = holds[s] = {}]
  /\ UNCHANGED <<pc, left, stdinDone, timedOut, bufVars, late, groupVars,
                 pipeVars, broken>>

NextRound ==
  /\ pc = "handle" /\ ready = {}
  /\ pc' = "loop"
  /\ UNCHANGED <<loopVars, bufVars, late, groupVars, pipeVars, broken>>

(* Mutant of Reap: an interrupted waitpid() is not repeated.               *)
ReapOnce ==
  /\ pc = "reap" /\ (child = "exited" \/ "signal" \in habits)
  /\ child' = IF child = "exited" THEN "reaped" ELSE child
  /\ pc' = "done"
  /\ UNCHANGED <<loopVars, bufVars, late, habits, cap, helper, holds,
                 pipeVars, broken>>

(* waitpid(), also after a signal; no deadline any more.                   *)
Reap ==
  /\ pc = "reap" /\ child = "exited"
  /\ child' = "reaped"
  /\ pc' = "done"
  /\ UNCHANGED <<loopVars, bufVars, late, habits, cap, helper, holds,
                 pipeVars, broken>>

-----------------------------------------------------------------------------
(***************************************************************************)
(* System calls of the parent that fail for good.                          *)
(***************************************************************************)
Breaks(call) ==
  /\ "errors" \in habits
  /\ broken' = broken \cup {call}

(* poll(): the group is killed, and the caller gets an exception instead   *)
(* of a result.                                                            *)
PollFails ==
  /\ pc = "loop" /\ ~AllDone /\ ~late
  /\ Breaks("poll")
  /\ TermGroup
  /\ UNCHANGED loopVars

(* write(): as if nobody read the input any more.                          *)
WriteFails ==
  /\ pc = "handle" /\ "in" \in ready
  /\ Breaks("in")
  /\ ready' = ready \ {"in"}
  /\ stdinDone' = TRUE
  /\ UNCHANGED <<pc, left, eof, timedOut, bufVars, late, groupVars, pipeVars>>

(* read(): taken for the end of the stream, which is closed.               *)
ReadFails(s) ==
  /\ pc = "handle" /\ s \in ready
  /\ Breaks(s)
  /\ ready' = ready \ {s}
  /\ eof' = [eof EXCEPT ![s] = TRUE]
  /\ UNCHANGED <<pc, left, stdinDone, timedOut, bufVars, late, groupVars,
                 pipeVars>>

(* Mutant of WaitpidFails: the caller gets -1 and the child lives on.      *)
WaitpidFailsOnly ==
  /\ pc = "reap"
  /\ Breaks("waitpid")
  /\ pc' = "last"
  /\ UNCHANGED <<loopVars, bufVars, late, groupVars, pipeVars>>

(* waitpid(), other than by a signal: the group is killed.                 *)
WaitpidFails ==
  /\ pc = "reap"
  /\ Breaks("waitpid")
  /\ TermGroup
  /\ UNCHANGED loopVars

(* Then waitpid() once more with WNOHANG: it may fail again, or find the   *)
(* child not dead yet.  The status is -1 in any case.                      *)
LastWait ==
  /\ pc = "last"
  /\ child' \in {child} \cup IF child = "exited" THEN {"reaped"} ELSE {}
  /\ pc' = "done"
  /\ UNCHANGED <<loopVars, bufVars, late, habits, cap, helper, holds, pipeVars,
                 broken>>

ParentFails ==
  \/ PollFails \/ WaitpidFails \/ WriteFails
  \/ \E s \in Streams : ReadFails(s)

-----------------------------------------------------------------------------
ParentSteps ==
  \/ LeaveLoop \/ Terminate \/ Kill \/ Poll
  \/ WriteInput \/ WriteInterrupted
  \/ (\E s \in Streams : ReadStream(s) \/ StreamEmpty(s))
  \/ NextRound \/ Reap \/ LastWait

Next == ParentSteps \/ ParentFails \/ ChildSteps \/ Deadline

Spec == Init /\ [][Next]_vars

(* We run and time passes; of a child nothing is known, unless it is a     *)
(* filter.                                                                 *)
FairSpec == /\ Spec /\ WF_vars(ParentSteps) /\ WF_vars(Deadline)
            /\ WF_vars("filter" \in habits /\ ChildSteps)

-----------------------------------------------------------------------------
(* run_subprocess() has returned or thrown: its caller may go on.          *)
Returned == pc \notin {"loop", "grace", "handle", "reap", "last"}

(* When its caller goes on, the child of run_subprocess() is dead and      *)
(* reaped, also when a signal interrupts waitpid().  It is left as a       *)
(* zombie only after poll() or waitpid() itself failed.  After such a      *)
(* failure, and after a timeout, nobody of the child's process group       *)
(* lives, not even who ignores SIGTERM (subprocess.cpp:183-203, 370-379,   *)
(* 485-509).                                                               *)
NobodyLeftBehind ==
  Returned =>
    /\ \/ child = "reaped"
       \/ child = "exited" /\ broken \cap {"poll", "waitpid"} # {}
    /\ timedOut \/ broken \cap {"poll", "waitpid"} # {} => ~helper

(* The child's input ends early only when nobody reads it any more, or     *)
(* when write() failed for good, whatever signals arrive                   *)
(* (subprocess.cpp:388-423).                                               *)
InputDelivered ==
  stdinDone => left = 0 \/ holds["in"] = {} \/ "in" \in broken

(* Without a timeout the result holds everything the group wrote, up to    *)
(* the cap, and tells exactly when something was dropped; also what was    *)
(* still in the pipe when the child exited (subprocess.cpp:88-103,         *)
(* 424-477).  A stream whose read() failed for good is the exception: it   *)
(* just ends there.                                                        *)
OutputCaptured ==
  Returned /\ ~timedOut /\ "poll" \notin broken =>
    \A s \in Streams \ broken : /\ buf[s] = Lesser(written[s], cap)
                                /\ trunc[s] <=> written[s] > cap

(* The deadline ends the call (subprocess.hpp:23-24), also for a child and *)
(* a helper that ignore SIGTERM.  The exceptions are a child that closed   *)
(* its output and lives on, or whose output was given up after an error,   *)
(* for waitpid() has no deadline, and one that writes as fast as it is     *)
(* read, for the loop that reads does not look.                            *)
DeadlineEnds ==
  late /\ habits \cap {"quiet", "flood"} = {} ~>
    Returned \/ broken \cap Streams # {}

(* No two full pipes make the parent and a filter wait for each other      *)
(* (subprocess.cpp:344-380: one poll() over all three).                    *)
FilterEnds ==
  "filter" \in habits ~>
    Returned /\ left = 0 /\ written["out"] = InputSize
=============================================================================
