------------------------------ MODULE Reviewer ------------------------------
(***************************************************************************)
(* A reviewer at work (reviewer.cpp, reviewer_agent.cpp): run() starts one *)
(* subprocess and makes a review or a ReviewerError of what came of it.    *)
(* The mock reviewer's review is the output of its child.  The agent       *)
(* reviewer's child, codexmon, has the agent as its own child; it prints a *)
(* status that names the file with the review and carries a preview of it. *)
(***************************************************************************)
EXTENDS Subprocess

CONSTANTS MaxOutput,  \* MAX_OUTPUT_BYTES: not 0 (config.cpp:353)
          StatusCap,  \* kStatusCaptureBytes
          Chunk,      \* bytes read_file_capped() reads at a time
          PreviewMax, \* characters of a preview
          FileMax     \* bound: bytes of a result file

ASSUME SizesAssumption ==
  /\ MaxOutput \in Nat \ {0} /\ StatusCap \in Nat /\ {MaxOutput, StatusCap} \subseteq Caps
  /\ Chunk \in Nat \ {0} /\ PreviewMax \in Nat /\ FileMax \in Nat

NoFile == -1  \* a result file that has no name or cannot be opened

VARIABLES
  report,  \* what codexmon left: [exit, complete, file, preview]
  body,    \* bytes of the review so far
  cutOff,  \* bytes of the review were dropped
  verdict  \* "none", "error" or "review"

reviewVars == <<report, body, cutOff, verdict>>

(* codexmon runs the agent; the mock's cat and sh run nothing.             *)
Agent == "helper" \in habits

(* Mutant of CaptureCap: one cap for everything.                           *)
CaptureCapShared == MaxOutput

CaptureCap == IF Agent THEN StatusCap ELSE MaxOutput

NoReport == [exit |-> "other", complete |-> FALSE,
             file |-> NoFile, preview |-> 0]

(* The status of a job that went well, or of one that did not and may have *)
(* left a file all the same.  It is complete unless codexmon died before   *)
(* it was out.  After a failed waitpid() the exit status is -1.            *)
Reports ==
  {r \in [exit : {"zero", "other"}, complete : BOOLEAN,
          file : NoFile..FileMax, preview : 0..PreviewMax] :
     /\ "waitpid" \in broken => r.exit = "other"
     /\ \/ r.exit = "zero" /\ r.complete
        \/ r.file \in {NoFile, FileMax} /\ r.preview = PreviewMax}

ReviewInit ==
  /\ Init /\ cap = CaptureCap
  /\ report = NoReport /\ body = 0 /\ cutOff = FALSE /\ verdict = "none"

Rest == <<loopVars, bufVars, late, groupVars, pipeVars, broken>>

(* A part of the output was not read, because read() failed for good.      *)
Lost == "out" \in broken /\ buf["out"] # written["out"]

(* Mutant of ParsedStatus: nobody looks whether the capture was cut.       *)
ParsedStatusUncut(r) == r.complete

(* parse_codexmon_status() of what was captured.                           *)
ParsedStatus(r) == r.complete /\ ~trunc["out"] /\ ~Lost

(* Mutant of Failed: codexmon's exit code is not looked at.                *)
FailedByStatus(r) == timedOut \/ ~ParsedStatus(r)

Failed(r) == timedOut \/ ~ParsedStatus(r) \/ r.exit = "other"

-----------------------------------------------------------------------------
(* run_subprocess() throws: both reviewers make a ReviewerError of it.     *)
SetupFails ==
  /\ pc = "thrown"
  /\ verdict' = "error"
  /\ pc' = "over"
  /\ UNCHANGED <<report, body, cutOff, Rest>>

(* MockReviewer::run() after its child: the output is the review.  A       *)
(* filter exits with 0.                                                    *)
MockExits ==
  IF "waitpid" \in broken THEN {"other"}
  ELSE IF "filter" \in habits THEN {"zero"} ELSE {"zero", "other"}

MockJudges ==
  /\ pc = "done" /\ ~Agent
  /\ \E exit \in MockExits :
       /\ report' = [report EXCEPT !.exit = exit]
       /\ verdict' = IF timedOut \/ exit = "other" THEN "error" ELSE "review"
  /\ body' = buf["out"] /\ cutOff' = trunc["out"]
  /\ pc' = "over"
  /\ UNCHANGED Rest

(* AgentReviewer::run() after codexmon: every failure is a ReviewerError,  *)
(* else the review is in the result file, or is the preview.               *)
AgentJudges ==
  /\ pc = "done" /\ Agent
  /\ \E r \in Reports :
       /\ report' = r
       /\ pc' = IF ~Failed(r) /\ r.file # NoFile THEN "file" ELSE "over"
       /\ body' = IF ~Failed(r) /\ r.file = NoFile THEN r.preview ELSE 0
       /\ verdict' = IF pc' = "file" THEN "none"
                     ELSE IF body' = 0 THEN "error" ELSE "review"
  /\ UNCHANGED <<cutOff, Rest>>

(* Mutant of ReadFileCapped: a chunk that just fits counts as cut.         *)
ReadFileCappedTight ==
  LET n    == Lesser(Chunk, report.file - body)
      room == MaxOutput - body
  IN  /\ pc = "file" /\ n > 0 /\ ~cutOff
      /\ body' = body + Lesser(n, room)
      /\ cutOff' = (n >= room)
      /\ UNCHANGED <<pc, report, verdict, Rest>>

(* read_file_capped(): chunk after chunk, until one is cut.                *)
ReadFileCapped ==
  LET n    == Lesser(Chunk, report.file - body)
      room == MaxOutput - body
  IN  /\ pc = "file" /\ n > 0 /\ ~cutOff
      /\ body' = body + Lesser(n, room)
      /\ cutOff' = (n > room)
      /\ UNCHANGED <<pc, report, verdict, Rest>>

(* The file is read: an empty one is an error, not a reason to take the    *)
(* preview.                                                                *)
FileIsRead ==
  /\ pc = "file"
  /\ cutOff \/ body = report.file
  /\ verdict' = IF body = 0 THEN "error" ELSE "review"
  /\ pc' = "over"
  /\ UNCHANGED <<report, body, cutOff, Rest>>

ReviewSteps ==
  SetupFails \/ MockJudges \/ AgentJudges \/ ReadFileCapped \/ FileIsRead

ReviewNext == \/ ReviewSteps
              \/ Next /\ UNCHANGED reviewVars

reviewerVars == <<vars, reviewVars>>

ReviewerSpec == /\ ReviewInit /\ [][ReviewNext]_reviewerVars
                /\ WF_vars(ParentSteps /\ UNCHANGED reviewVars)
                /\ WF_vars(Deadline /\ UNCHANGED reviewVars)
                /\ WF_vars("filter" \in habits /\ ChildSteps
                             /\ UNCHANGED reviewVars)
                /\ WF_reviewerVars(ReviewSteps)

-----------------------------------------------------------------------------
Reviewed == verdict = "review"

(* What the review would be without MAX_OUTPUT_BYTES.                      *)
Whole == IF ~Agent THEN written["out"]
         ELSE IF report.file # NoFile THEN report.file ELSE report.preview

(* A review that was posted is all that the reviewer wrote, or says that   *)
(* it was cut, and says so only then; through two pipes and a file read in *)
(* chunks.  The preview has no such note: it stands for the whole only     *)
(* where no file can be opened (reviewer.hpp:212-216,                      *)
(* reviewer_agent.cpp:249-264).  Nor is there a note when read() failed    *)
(* for good on the output that is the mock's review.                       *)
CutIsNoted ==
  Reviewed /\ (Agent \/ "out" \notin broken) =>
    /\ body = IF Agent /\ report.file = NoFile THEN Whole
              ELSE Lesser(Whole, MaxOutput)
    /\ cutOff <=> body < Whole

(* A job that failed, was killed, or left only the beginning of a status   *)
(* is no review, and an agent's review is never empty                      *)
(* (reviewer_agent.cpp:209-263).                                           *)
ReviewIsEarned ==
  Reviewed =>
    /\ ~timedOut /\ report.exit = "zero" /\ child = "reaped"
    /\ Agent => report.complete /\ written["out"] <= StatusCap /\ body > 0

(* A small MAX_OUTPUT_BYTES does not fail a review that went well: it does *)
(* not govern the capture of the status (reviewer_agent.cpp:59-65).  A     *)
(* status of which read() lost the end is no status.                       *)
GoodReviewIsKept ==
  pc = "over" /\ Agent /\ ~timedOut /\ report.exit = "zero"
    /\ report.complete /\ written["out"] <= StatusCap /\ ~Lost /\ Whole > 0
  => Reviewed
=============================================================================
