------------------------------ MODULE Watcher ------------------------------
(***************************************************************************)
(* The bot process: main()'s loop (main.cpp) around Watcher::tick()        *)
(* (watcher.cpp), which looks for approved pull requests (the auto path)   *)
(* and for comments that mention the bot (the ping path) and posts one     *)
(* review for each.                                                        *)
(*                                                                         *)
(* There is one control location per call that leaves the process, so that *)
(* people, crashes and signals may act between any two calls.  What the    *)
(* code does between two calls is one step.  mem is the StateStore's       *)
(* memory, disk its file; StateStore.tla shows why save() may be taken as  *)
(* one step here.                                                          *)
(***************************************************************************)
EXTENDS GitHub

VARIABLES pc,     \* where the process is
          mem,    \* the sets and the cursor in memory
          disk,   \* the same, in the state file
          todo,   \* auto path: open pull requests not looked at yet
          revs,   \* auto path: listed reviews not looked at yet
          batch,  \* ping path: listed comments not decided yet
          job,    \* the marker key of the review being decided
          stop,   \* g_stop
          seed    \* history: the cursor the last first run started from

procVars == <<pc, mem, disk, todo, revs, batch, job, stop, seed>>
vars == <<githubVars, procVars>>

Locations == {"down", "loop", "autolist", "auto", "approvals", "pinglist",
              "ping", "collab", "scan", "diff", "info", "context", "review",
              "post", "commit"}

Cursors == [updated : Nat, id : Nat]
Stores == [reviewed : SUBSET Prs, handled : SUBSET Nat, cursor : Cursors]

(* No state file yet: the cursor's empty string sorts before every time.   *)
Fresh == [reviewed |-> {}, handled |-> {},
          cursor |-> [updated |-> 0, id |-> 0]]

Init ==
  /\ GitHubInit
  /\ pc = "down" /\ mem = Fresh /\ disk = Fresh
  /\ todo = {} /\ revs = <<>> /\ batch = {} /\ job = NoKey
  /\ stop = FALSE /\ seed = Fresh.cursor

-----------------------------------------------------------------------------
(* save() succeeds, or it throws and the caller logs it: the file is the   *)
(* old one.  A crash inside save() leaves one of the two as well.          *)
Save(store) ==
  \/ disk' = store
  \/ "save" \in Faults /\ disk' = disk

(* Mutant of Advanced: the cursor simply follows the comments.             *)
AdvancedAnywhere(cursor, c) == [updated |-> c.updated, id |-> c.id]

(* advance_cursor(): forward only.                                         *)
Advanced(cursor, c) ==
  IF Before(cursor, c) THEN [updated |-> c.updated, id |-> c.id] ELSE cursor

(* The process is gone, and with it what was only in memory.               *)
Gone ==
  /\ pc' = "down" /\ mem' = Fresh
  /\ todo' = {} /\ revs' = <<>> /\ batch' = {} /\ job' = NoKey
  /\ stop' = FALSE
  /\ UNCHANGED seed

(***************************************************************************)
(* main(): load the state, pin the cursor of a first run, look after the   *)
(* reviewer, loop.  A first run saves at once and gives up when it cannot. *)
(***************************************************************************)
FirstRun == disk.cursor.updated = 0

(* Mutant of Loaded: a first run goes back before the epoch.               *)
LoadedTooFarBack ==
  [disk EXCEPT !.cursor = [updated |-> 0 - 1 - SeedLag, id |-> 0]]

Loaded ==
  IF FirstRun
  THEN [disk EXCEPT !.cursor = [updated |-> now - SeedLag, id |-> 0]]
  ELSE disk

Start ==
  /\ pc = "down"
  /\ mem' = Loaded /\ disk' = Loaded
  /\ seed' = IF FirstRun THEN Loaded.cursor ELSE seed
  /\ pc' = "loop"
  /\ UNCHANGED <<githubVars, todo, revs, batch, job, stop>>

(* preflight() finds no reviewer: exit 1, the pinned cursor stays saved.   *)
PreflightFails ==
  /\ "crash" \in Faults
  /\ pc = "down"
  /\ disk' = Loaded
  /\ seed' = IF FirstRun THEN Loaded.cursor ELSE seed
  /\ UNCHANGED <<githubVars, pc, mem, todo, revs, batch, job, stop>>

(* The head of the loop, reached after the sleep: the only place where     *)
(* the stop flag is read.                                                  *)
NextTickDespiteStop ==   \* mutant of NextTick: while (true)
  /\ pc = "loop"
  /\ pc' = "autolist"
  /\ UNCHANGED <<githubVars, mem, disk, todo, revs, batch, job, stop, seed>>

NextTick ==
  /\ pc = "loop" /\ ~stop
  /\ pc' = "autolist"
  /\ UNCHANGED <<githubVars, mem, disk, todo, revs, batch, job, stop, seed>>

Shutdown ==
  /\ pc = "loop" /\ stop
  /\ Save(mem)
  /\ Gone
  /\ UNCHANGED githubVars

Signal ==
  /\ "stop" \in Faults
  /\ pc # "down" /\ ~stop
  /\ stop' = TRUE
  /\ UNCHANGED <<githubVars, pc, mem, disk, todo, revs, batch, job, seed>>

Crash ==
  /\ "crash" \in Faults
  /\ pc # "down"
  /\ Gone
  /\ UNCHANGED <<githubVars, disk>>

(* The operator removes the state file of a bot that is not running.       *)
Wipe ==
  /\ "wipe" \in Faults
  /\ pc = "down"
  /\ disk' = Fresh
  /\ UNCHANGED <<githubVars, pc, mem, todo, revs, batch, job, stop, seed>>

-----------------------------------------------------------------------------
(***************************************************************************)
(* What the pending call can answer at each location.  Calling(l) says     *)
(* that the process is at l and a call is really made there.               *)
(***************************************************************************)
ApprovedOrNot(r) == TRUE   \* mutant of Approved

Approved(r) == r.state = "APPROVED"

IsNext(c) == \A d \in batch : d = c \/ Before(c, d)

(* classify()'s early returns that need no call.                           *)
Settled(c) ==
  \/ ~Before(mem.cursor, c)
  \/ c.id \in mem.handled
  \/ c.author = Bot
  \/ ~c.mention

Calling(l) ==
  /\ pc = l
  /\ l = "auto" => todo \ mem.reviewed # {}
  /\ l = "approvals" => revs # <<>> /\ Approved(Head(revs))
  /\ l = "ping" => \E c \in batch : IsNext(c) /\ ~Settled(c)

(* is_collaborator() refuses a login outside [A-Za-z0-9-] before it sends  *)
(* anything, with an error that is not fatal.                              *)
AskedAbout ==
  IF pc = "approvals" THEN {Head(revs).author}
  ELSE IF pc = "collab" THEN {c.author : c \in {d \in batch : IsNext(d)}}
  ELSE {}

(* Mutant of GiveUp: the ping path goes on with the next comment.          *)
GiveUpGoesOn ==
  /\ revs' = <<>> /\ job' = NoKey
  /\ IF job.source = "auto"
     THEN pc' = "auto" /\ todo' = todo \ {job.number} /\ UNCHANGED batch
     ELSE /\ pc' = IF batch = {} THEN "loop" ELSE "ping"
          /\ batch' = {c \in batch : ~IsNext(c)}
          /\ UNCHANGED todo

(* This trigger is left for a later tick: the auto path goes on with the   *)
(* next pull request, the ping path ends the tick.                         *)
GiveUp ==
  /\ revs' = <<>> /\ job' = NoKey
  /\ IF job.source = "auto"
     THEN pc' = "auto" /\ todo' = todo \ {job.number} /\ UNCHANGED batch
     ELSE pc' = "loop" /\ batch' = {} /\ UNCHANGED todo

(* A call fails with an error that is not fatal: a network error, a 5xx, a *)
(* rate limit, a 404, a reviewer that failed.  In collect_context_files()   *)
(* it may be any error: what is caught there is not rethrown.              *)
FailsAt(l) ==
  \/ /\ l = "autolist"
     /\ pc' = "pinglist"
     /\ UNCHANGED <<todo, revs, batch, job>>
  \/ /\ l = "auto"
     /\ \E p \in todo \ mem.reviewed : todo' = todo \ {p}
     /\ UNCHANGED <<pc, revs, batch, job>>
  \/ /\ l = "info"
     /\ pc' \in {"review", "post"}
     /\ UNCHANGED <<todo, revs, batch, job>>
  \/ /\ l = "context"
     /\ pc' = "review"
     /\ UNCHANGED <<todo, revs, batch, job>>
  \/ /\ l \in {"approvals", "pinglist", "ping", "collab", "scan", "diff",
               "review", "post"}
     /\ GiveUp

FailingCalls == {"autolist", "auto", "approvals", "pinglist", "ping",
                 "collab", "scan", "diff", "info", "context", "review",
                 "post"}

CallFails(l) ==
  /\ Calling(l)
  /\ \/ "transient" \in Faults
     \/ "fatal" \in Faults /\ l = "context"
     \/ AskedAbout \cap AppUsers # {}
  /\ FailsAt(l)
  /\ UNCHANGED <<githubVars, mem, disk, stop, seed>>

(* 401, 422 or a 403 that is no rate limit: rethrown up to main(), which   *)
(* saves (or fails to) and exits 1.                                        *)
FatalCalls == FailingCalls \ {"context", "review"}

CallFatal(l) ==
  /\ Calling(l)
  /\ "fatal" \in Faults /\ AskedAbout \cap AppUsers = {}
  /\ Save(mem)
  /\ Gone
  /\ UNCHANGED githubVars

-----------------------------------------------------------------------------
(***************************************************************************)
(* run_auto_path()                                                         *)
(***************************************************************************)
ListOpenPrs ==
  /\ Calling("autolist")
  /\ todo' = open
  /\ pc' = "auto"
  /\ UNCHANGED <<githubVars, mem, disk, revs, batch, job, stop, seed>>

(* The order of the list is GitHub's: any.                                 *)
ListReviews(p) ==
  /\ Calling("auto")
  /\ p \in todo \ mem.reviewed
  /\ revs' = reviews[p]
  /\ job' = AutoKey(p)
  /\ pc' = "approvals"
  /\ UNCHANGED <<githubVars, mem, disk, todo, batch, stop, seed>>

AutoPathDone ==
  /\ pc = "auto" /\ todo \subseteq mem.reviewed
  /\ todo' = {}
  /\ pc' = "pinglist"
  /\ UNCHANGED <<githubVars, mem, disk, revs, batch, job, stop, seed>>

CheckApproverStops(u) ==   \* mutant of CheckApprover: break for continue
  /\ Calling("approvals")
  /\ u = Head(revs).author /\ u \notin AppUsers
  /\ pc' = IF u \in Collaborators THEN "scan" ELSE pc
  /\ revs' = <<>>
  /\ UNCHANGED <<githubVars, mem, disk, todo, batch, job, stop, seed>>

CheckApprover(u) ==
  /\ Calling("approvals")
  /\ u = Head(revs).author /\ u \notin AppUsers
  /\ IF u \in Collaborators
     THEN pc' = "scan" /\ revs' = <<>>
     ELSE revs' = Tail(revs) /\ UNCHANGED pc
  /\ UNCHANGED <<githubVars, mem, disk, todo, batch, job, stop, seed>>

SkipReview ==
  /\ pc = "approvals" /\ revs # <<>> /\ ~Approved(Head(revs))
  /\ revs' = Tail(revs)
  /\ UNCHANGED <<githubVars, pc, mem, disk, todo, batch, job, stop, seed>>

NoMoreApprovalsMarks ==   \* mutant of NoMoreApprovals: marks a skip
  /\ pc = "approvals" /\ revs = <<>>
  /\ GiveUp
  /\ mem' = [mem EXCEPT !.reviewed = @ \cup {job.number}]
  /\ UNCHANGED <<githubVars, disk, stop, seed>>

NoMoreApprovals ==
  /\ pc = "approvals" /\ revs = <<>>
  /\ GiveUp
  /\ UNCHANGED <<githubVars, mem, disk, stop, seed>>

-----------------------------------------------------------------------------
(***************************************************************************)
(* run_ping_path()                                                         *)
(***************************************************************************)
ListComments ==
  /\ Calling("pinglist")
  /\ batch' = {c \in comments : c.updated >= mem.cursor.updated}
  /\ pc' = "ping"
  /\ UNCHANGED <<githubVars, mem, disk, todo, revs, job, stop, seed>>

(* The comment is decided: remember it if it mentioned the bot, move the   *)
(* cursor over it, save.                                                   *)
Decide(c, mentioned) ==
  LET store == [mem EXCEPT
                  !.handled = IF mentioned THEN @ \cup {c.id} ELSE @,
                  !.cursor = Advanced(@, c)]
  IN  /\ mem' = store
      /\ Save(store)
      /\ batch' = batch \ {c}
      /\ job' = NoKey
      /\ pc' = "ping"
      /\ UNCHANGED <<todo, revs, stop, seed>>

SkipComment ==
  /\ pc = "ping"
  /\ \E c \in batch : IsNext(c) /\ Settled(c) /\ Decide(c, FALSE)
  /\ UNCHANGED githubVars

GetIssueDetail ==
  /\ Calling("ping")
  /\ \E c \in batch :
       /\ IsNext(c) /\ ~Settled(c)
       /\ \/ /\ c.number \in open
             /\ job' = PingKey(c)
             /\ pc' = "collab"
             /\ UNCHANGED <<mem, disk, todo, revs, batch, stop, seed>>
          \/ /\ c.number \notin open
             /\ Decide(c, TRUE)
  /\ UNCHANGED githubVars

CheckMentionerTrusts ==   \* mutant of CheckMentioner: nobody is refused
  /\ Calling("collab")
  /\ pc' = "scan"
  /\ UNCHANGED <<githubVars, mem, disk, todo, revs, batch, job, stop, seed>>

CheckMentionerWaits ==   \* mutant of CheckMentioner: a stranger is left
  /\ Calling("collab")    \* for a later tick instead of decided
  /\ \E c \in batch :
       /\ IsNext(c)
       /\ c.author \notin AppUsers
       /\ IF c.author \in Collaborators
          THEN pc' = "scan" /\ UNCHANGED <<todo, revs, batch, job>>
          ELSE GiveUp
  /\ UNCHANGED <<githubVars, mem, disk, stop, seed>>

CheckMentioner ==
  /\ Calling("collab")
  /\ \E c \in batch :
       /\ IsNext(c)
       /\ c.author \notin AppUsers
       /\ \/ /\ c.author \in Collaborators
             /\ pc' = "scan"
             /\ UNCHANGED <<mem, disk, todo, revs, batch, job, stop, seed>>
          \/ /\ c.author \notin Collaborators
             /\ Decide(c, TRUE)
  /\ UNCHANGED githubVars

PingPathDone ==
  /\ pc = "ping" /\ batch = {}
  /\ pc' = "loop"
  /\ UNCHANGED <<githubVars, mem, disk, todo, revs, batch, job, stop, seed>>

-----------------------------------------------------------------------------
(***************************************************************************)
(* Both paths: look for the marker, dispatch_review(), remember.           *)
(***************************************************************************)
ScanForgotten ==   \* mutant of Scan: no marker dedupe
  /\ Calling("scan")
  /\ pc' = "diff"
  /\ UNCHANGED <<githubVars, mem, disk, todo, revs, batch, job, stop, seed>>

Scan ==
  /\ Calling("scan")
  /\ pc' = IF Posts(job) # {} THEN "commit" ELSE "diff"
  /\ UNCHANGED <<githubVars, mem, disk, todo, revs, batch, job, stop, seed>>

(* Mutant of StreamDiff: no notice for a diff that is too big.             *)
StreamDiffSilently ==
  /\ Calling("diff")
  /\ pc' \in {"info", "commit"}
  /\ UNCHANGED <<githubVars, mem, disk, todo, revs, batch, job, stop, seed>>

(* The diff comes whole, or is too big to download: post a notice.         *)
StreamDiff ==
  /\ Calling("diff")
  /\ pc' \in {"info", "post"}
  /\ UNCHANGED <<githubVars, mem, disk, todo, revs, batch, job, stop, seed>>

(* The diff fits or is trimmed, or no file section fits: post a notice.    *)
GetPrInfo ==
  /\ Calling("info")
  /\ pc' \in {"context", "post"}
  /\ UNCHANGED <<githubVars, mem, disk, todo, revs, batch, job, stop, seed>>

CollectContext ==
  /\ Calling("context")
  /\ pc' = "review"
  /\ UNCHANGED <<githubVars, mem, disk, todo, revs, batch, job, stop, seed>>

(* This call may also never end: run_subprocess() waits without a deadline *)
(* for a child that closed its output, and does not look at the clock      *)
(* while output keeps coming (Subprocess.tla).                             *)
RunReviewer ==
  /\ Calling("review")
  /\ pc' = "post"
  /\ UNCHANGED <<githubVars, mem, disk, todo, revs, batch, job, stop, seed>>

PostComment ==
  /\ Calling("post")
  /\ AddPost(job)
  /\ pc' = "commit"
  /\ UNCHANGED <<now, reviews, open, inflight, unsure, mem, disk, todo, revs,
                 batch, job, stop, seed>>

(* Posted, but the answer is lost or is a 5xx: a POST is tried only once.  *)
PostUnanswered ==
  /\ "ambiguous" \in Faults
  /\ Calling("post")
  /\ AddPost(job)
  /\ GiveUp
  /\ UNCHANGED <<now, reviews, open, inflight, unsure, mem, disk, stop, seed>>

(* The client times out while the server has yet to apply the POST.        *)
PostLate ==
  /\ "late" \in Faults
  /\ Calling("post")
  /\ inflight' = inflight \cup {job} /\ unsure' = unsure \cup {job}
  /\ GiveUp
  /\ UNCHANGED <<now, lastId, comments, reviews, open, mem, disk, stop, seed>>

CommitAuto ==
  /\ pc = "commit" /\ job.source = "auto"
  /\ LET store == [mem EXCEPT !.reviewed = @ \cup {job.number}]
     IN  mem' = store /\ Save(store)
  /\ todo' = todo \ {job.number}
  /\ job' = NoKey
  /\ pc' = "auto"
  /\ UNCHANGED <<githubVars, revs, batch, stop, seed>>

CommitPing ==
  /\ pc = "commit" /\ job.source = "ping"
  /\ \E c \in batch : IsNext(c) /\ Decide(c, TRUE)
  /\ UNCHANGED githubVars

-----------------------------------------------------------------------------
Work ==
  \/ NextTick
  \/ ListOpenPrs \/ AutoPathDone \/ SkipReview \/ NoMoreApprovals
  \/ \E p \in Prs : ListReviews(p)
  \/ \E u \in Users : CheckApprover(u)
  \/ ListComments \/ SkipComment \/ GetIssueDetail \/ CheckMentioner
  \/ PingPathDone
  \/ Scan \/ StreamDiff \/ GetPrInfo \/ CollectContext \/ RunReviewer
  \/ PostComment \/ CommitAuto \/ CommitPing

Trouble ==
  \/ \E l \in FailingCalls : CallFails(l)
  \/ \E l \in FatalCalls : CallFatal(l)
  \/ PostUnanswered \/ PostLate

Outside ==
  \/ Signal \/ Crash \/ Wipe \/ PreflightFails
  \/ GitHubNext /\ UNCHANGED procVars

BotStep == Work \/ Trouble \/ Shutdown
Next == Start \/ BotStep \/ Outside

Spec == Init /\ [][Next]_vars

(* The process is scheduled: it takes its next step, unless that is the    *)
(* end of a reviewer's run, which the bot cannot bring about.              *)
Scheduled == Spec /\ WF_vars(pc # "review" /\ BotStep)

(* No call that is made again and again fails for ever.  For the reviewer  *)
(* this assumes that its runs end.                                         *)
CallsSucceed ==
  /\ SF_vars(ListOpenPrs)
  /\ \A p \in Prs : SF_vars(ListReviews(p))
  /\ \A u \in Users : SF_vars(CheckApprover(u))
  /\ SF_vars(ListComments) /\ SF_vars(GetIssueDetail)
  /\ SF_vars(CheckMentioner) /\ SF_vars(Scan) /\ SF_vars(StreamDiff)
  /\ SF_vars(RunReviewer) /\ SF_vars(PostComment)

(* The process is scheduled, and started again when it is down.            *)
FairSpec == Scheduled /\ WF_vars(Start) /\ CallsSucceed
=============================================================================
