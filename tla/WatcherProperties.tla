------------------------- MODULE WatcherProperties -------------------------
(***************************************************************************)
(* What the bot promises (README.md, "Idempotency" and "What the bot       *)
(* persists"; plan.md, section 9), stated over Watcher.                    *)
(***************************************************************************)
EXTENDS Watcher

(* Types of every variable.                                                *)
TypeOK ==
  /\ now \in Nat /\ lastId \in Nat
  /\ comments \subseteq Comments
  /\ reviews \in [Prs -> Seq(Reviews)]
  /\ open \subseteq Prs
  /\ inflight \subseteq Keys /\ unsure \subseteq Keys
  /\ pc \in Locations
  /\ mem \in Stores /\ disk \in Stores
  /\ todo \subseteq Prs
  /\ revs \in Seq(Reviews)
  /\ batch \subseteq Comments
  /\ job \in Keys
  /\ stop \in BOOLEAN
  /\ seed \in Cursors
 

-----------------------------------------------------------------------------
(* A trigger is answered at most once, however often the process dies, is  *)
(* restarted, fails to save or gets no answer to its POST: the marker scan *)
(* before dispatch_review() finds the earlier post (watcher.cpp:187-203,   *)
(* 322-335).                                                               *)
AtMostOnePost ==
  \A c, d \in comments :
    c.author = Bot /\ d.author = Bot /\ c.key = d.key => c = d

(* A trigger is answered twice only if a POST of its first answer was      *)
(* given up while it travelled: nothing else makes the marker scan miss a  *)
(* post (github_client.cpp:351-369, watcher.cpp:187-203, 322-335).         *)
SecondPostWasUnsure ==
  \A c, d \in comments :
    c.author = Bot /\ d.author = Bot /\ c.key = d.key =>
      c = d \/ c.key \in unsure

(* A pull request enters reviewed_prs, in memory or in the file, only once *)
(* its review is on GitHub (watcher.cpp:213-241: mark_reviewed() after     *)
(* dispatch_review(), never on a failure or on a skipped approval).        *)
ReviewedMeansPosted ==
  \A p \in mem.reviewed \cup disk.reviewed : Posts(AutoKey(p)) # {}

(* What the bot posts answers something it was asked for by somebody with  *)
(* write access: an approval of that pull request, or a comment on it that *)
(* mentions the bot or once did (watcher.cpp:154-182, 285-320).            *)
PostsAnswerCollaborators ==
  \A c \in comments : c.author = Bot =>
    \/ /\ c.key.source = "auto"
       /\ \E i \in 1 .. Len(reviews[c.number]) :
            /\ reviews[c.number][i].state = "APPROVED"
            /\ reviews[c.number][i].author \in Collaborators
    \/ /\ c.key.source = "ping"
       /\ \E d \in comments : /\ d.id = c.key.trigger
                              /\ d.number = c.number
                              /\ d.author \in Collaborators /\ d.asked

(* A comment the bot has to answer: a mention by a collaborator on a pull  *)
(* request that is open, newer than the cursor of the first run.           *)
Wanted(c) ==
  /\ c.mention
  /\ c.author \in Collaborators
  /\ c.number \in open
  /\ Before(seed, c)

(* The cursor, in memory or in the file, never moves past a comment that   *)
(* has to be answered and is not (watcher.cpp:386-394, "doing so would     *)
(* advance the cursor past this one and we'd never retry it"), and such a  *)
(* comment is never in handled_comments.                                   *)
NoMentionLost ==
  \A c \in comments : Wanted(c) =>
    \/ Posts(PingKey(c)) # {}
    \/ \A s \in {mem, disk} : Before(s.cursor, c) /\ c.id \notin s.handled

(* What is in the state file stays there: across saves, failed saves,      *)
(* crashes and restarts no entry is dropped and the cursor never goes back *)
(* (state_store.cpp:129-158, 180-188; main.cpp:88).                        *)
DurableGrows ==
  [][/\ disk.reviewed \subseteq disk'.reviewed
     /\ disk.handled \subseteq disk'.handled
     /\ ~Before(disk'.cursor, disk.cursor)]_vars

-----------------------------------------------------------------------------
ApprovedByCollaborator(p) ==
  \E i \in 1 .. Len(reviews[p]) : /\ reviews[p][i].state = "APPROVED"
                                  /\ reviews[p][i].author \in Collaborators

(* What collaborators asked for, what is on GitHub, and what the process   *)
(* or its file holds about the pull requests.                              *)
Asked ==
  {AutoKey(p) : p \in {q \in Prs : ApprovedByCollaborator(q)}}
  \cup {PingKey(c) : c \in {d \in comments : d.asked /\ d.author \in Collaborators}}

Answers ==
  {[id |-> c.id, request |-> c.key] : c \in {d \in comments : d.author = Bot}}

Noted == {AutoKey(p) : p \in mem.reviewed \cup disk.reviewed}

Service == INSTANCE ReviewService WITH
  asked <- Asked, answers <- Answers, noted <- Noted

(* Step by step, with every crash, failed call, failed save and restart,   *)
(* the bot does what ReviewService may do: one answer for each request,    *)
(* only for a request made before it, and reviewed_prs only follows the    *)
(* answers (watcher.cpp:114-394, main.cpp:65-151).                         *)
ImplementsReviewService == Service!Spec

-----------------------------------------------------------------------------
(* After a signal the tick runs to its end and the process exits: no tick  *)
(* is so long, and no call of GitHub fails in such a way, that the loop    *)
(* never gets to read the flag (main.cpp:110-151).  The only thing that    *)
(* keeps the process up is a reviewer's run that never ends, which         *)
(* run_subprocess() does not rule out (subprocess.cpp:431-476, 493).       *)
StopEnds == (stop ~> pc = "down") \/ <>[](pc = "review")

(* Again and again there is no mention by a collaborator on an open pull   *)
(* request that waits for its answer: a failing call, a bot's own post or  *)
(* a comment that somebody else wrote before it, also in the same second,  *)
(* holds the stream up only for a while (watcher.cpp:283-320, 386-394).    *)
(* That calls succeed again and a reviewer's runs end is assumed.          *)
MentionsAnswered ==
  []<>(\A c \in comments : Wanted(c) => Posts(PingKey(c)) # {})

(* Again and again every open pull request that a collaborator approved    *)
(* has its review, also when somebody else approved it first               *)
(* (watcher.cpp:178-181).                                                  *)
ApprovalsAnswered ==
  []<>(\A p \in open : ApprovedByCollaborator(p) => Posts(AutoKey(p)) # {})
=============================================================================
