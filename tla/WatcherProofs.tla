--------------------------- MODULE WatcherProofs ---------------------------
(***************************************************************************)
(* Proofs about Watcher, for every number of pull requests, people,        *)
(* comments and reviews, for every clock and for every set of faults the   *)
(* theorem does not exclude by name: types, posts at most once, reviews    *)
(* that are marked are posted, and posts answer collaborators.             *)
(***************************************************************************)
EXTENDS WatcherProperties, TLAPS

(* The locations at which a review is being decided.                       *)
JobLocations == {"collab", "scan", "diff", "info", "context", "review",
                 "post", "commit"}

(* What TypeOK needs to be inductive: the job is about a real number, an   *)
(* automatic one about a pull request, and a first run's cursor is not     *)
(* before the epoch.                                                       *)
TypeInv ==
  /\ TypeOK
  /\ now > SeedLag
  /\ \A k \in inflight : k.number \in Numbers
  /\ pc \in JobLocations \cup {"approvals"} => job.number \in Numbers
  /\ job.source = "auto" => job.number \in Prs /\ job = AutoKey(job.number)

-----------------------------------------------------------------------------
(***************************************************************************)
(* Type correctness.                                                       *)
(***************************************************************************)

LEMMA LoadedType ==
  ASSUME TypeInv
  PROVE  Loaded \in Stores
<1>1. now - SeedLag \in Nat
  BY BoundsAssumption DEF TypeInv, TypeOK
<1>2. QED
  BY <1>1 DEF TypeInv, TypeOK, Loaded, Stores, Cursors

(* The two ways a store changes in memory.                                 *)
LEMMA DecidedType ==
  ASSUME TypeInv, NEW c \in batch, NEW mentioned \in BOOLEAN
  PROVE  [mem EXCEPT
            !.handled = IF mentioned THEN @ \cup {c.id} ELSE @,
            !.cursor = Advanced(@, c)] \in Stores
<1>1. c \in Comments /\ mem \in Stores
  BY DEF TypeInv, TypeOK
<1>2. c.id \in Nat /\ c.updated \in Nat
  BY <1>1 DEF Comments
<1>3. Advanced(mem.cursor, c) \in Cursors
  BY <1>1, <1>2 DEF Advanced, Stores, Cursors
<1>4. (IF mentioned THEN mem.handled \cup {c.id} ELSE mem.handled) \in SUBSET Nat
  BY <1>1, <1>2 DEF Stores
<1>5. QED
  BY <1>1, <1>3, <1>4 DEF Stores

LEMMA FreshType == Fresh \in Stores /\ NoKey \in Keys
BY DEF Fresh, Stores, Cursors, NoKey, Keys

(* A new post is a comment.                                                *)
LEMMA AddPostType ==
  ASSUME TypeInv, NEW key \in Keys, key.number \in Numbers, AddPost(key)
  PROVE  lastId' \in Nat /\ comments' \subseteq Comments
<1>1. lastId + 1 \in Nat /\ now \in Nat
  BY DEF TypeInv, TypeOK
<1> DEFINE post == [id |-> lastId + 1, number |-> key.number, author |-> Bot,
                    updated |-> now, mention |-> FALSE, asked |-> FALSE,
                    key |-> key]
<1>2. post \in Comments
  BY <1>1 DEF Comments
<1>3. comments' = comments \cup {post} /\ lastId' = lastId + 1
  BY DEF AddPost
<1> HIDE DEF post
<1>4. QED
  BY <1>1, <1>2, <1>3 DEF TypeInv, TypeOK

(* The part of the state TypeInv speaks about at GitHub, and in the        *)
(* process.                                                                *)
WorldTypeOK ==
  /\ now \in Nat /\ lastId \in Nat
  /\ comments \subseteq Comments
  /\ reviews \in [Prs -> Seq(Reviews)]
  /\ open \subseteq Prs
  /\ inflight \subseteq Keys /\ unsure \subseteq Keys
  /\ now > SeedLag
  /\ \A k \in inflight : k.number \in Numbers

ProcTypeOK ==
  /\ pc \in Locations
  /\ mem \in Stores /\ disk \in Stores
  /\ todo \subseteq Prs
  /\ revs \in Seq(Reviews)
  /\ batch \subseteq Comments
  /\ job \in Keys
  /\ stop \in BOOLEAN
  /\ seed \in Cursors
  /\ pc \in JobLocations \cup {"approvals"} => job.number \in Numbers
  /\ job.source = "auto" => job.number \in Prs /\ job = AutoKey(job.number)

LEMMA TypeInvParts == TypeInv <=> WorldTypeOK /\ ProcTypeOK
BY DEF TypeInv, TypeOK, WorldTypeOK, ProcTypeOK

LEMMA TypeInvInit == Init => TypeInv
<1> SUFFICES ASSUME Init PROVE TypeInv
  OBVIOUS
<1>1. WorldTypeOK
  BY BoundsAssumption DEF Init, GitHubInit, WorldTypeOK
<1>2. Fresh.cursor \in Cursors /\ <<>> \in Seq(Reviews)
  BY DEF Fresh, Cursors
<1>3. job.source # "auto" /\ pc \in Locations /\ pc \notin JobLocations
  BY DEF Init, NoKey, Locations, JobLocations
<1>4. ProcTypeOK
  BY <1>2, <1>3, FreshType DEF Init, ProcTypeOK
<1>5. QED
  BY <1>1, <1>4, TypeInvParts

(* People keep GitHub's part well typed.                                   *)
LEMMA GitHubType ==
  ASSUME TypeInv, GitHubNext
  PROVE  WorldTypeOK'
<1> USE BoundsAssumption
<1>1. ASSUME NEW u \in Users, NEW n \in Numbers, NEW m \in BOOLEAN,
             Comment(u, n, m)
      PROVE  WorldTypeOK'
  <2> DEFINE new == [id |-> lastId + 1, number |-> n, author |-> u,
                     updated |-> now, mention |-> m, asked |-> m, key |-> NoKey]
  <2>1. new \in Comments
    BY FreshType DEF Comments, TypeInv, TypeOK
  <2>2. comments' = comments \cup {new}
    BY <1>1 DEF Comment
  <2> HIDE DEF new
  <2>3. QED
    BY <1>1, <2>1, <2>2 DEF Comment, TypeInv, TypeOK, WorldTypeOK
<1>2. ASSUME NEW c \in comments, NEW m \in BOOLEAN, Edit(c, m)
      PROVE  WorldTypeOK'
  <2> DEFINE new == [c EXCEPT !.updated = now, !.mention = m, !.asked = @ \/ m]
  <2>1. c \in Comments /\ now \in Nat
    BY DEF TypeInv, TypeOK
  <2>2. new \in Comments
    BY <2>1 DEF Comments
  <2>3. comments' = (comments \ {c}) \cup {new}
    BY <1>2 DEF Edit
  <2> HIDE DEF new
  <2>4. QED
    BY <1>2, <2>2, <2>3 DEF Edit, TypeInv, TypeOK, WorldTypeOK
<1>3. ASSUME NEW u \in Users, NEW p \in Prs,
             NEW s \in {"APPROVED", "COMMENTED"}, Review(u, p, s)
      PROVE  WorldTypeOK'
  <2>1. [author |-> u, state |-> s] \in Reviews
    BY DEF Reviews
  <2>2. reviews' \in [Prs -> Seq(Reviews)]
    BY <1>3, <2>1 DEF Review, TypeInv, TypeOK
  <2>3. QED
    BY <1>3, <2>2 DEF Review, TypeInv, TypeOK, WorldTypeOK
<1>4. ASSUME NEW p \in Prs, Close(p)
      PROVE  WorldTypeOK'
  BY <1>4 DEF Close, TypeInv, TypeOK, WorldTypeOK
<1>5. CASE TimePasses
  BY <1>5 DEF TimePasses, TypeInv, TypeOK, WorldTypeOK
<1>6. ASSUME NEW key \in inflight, Land(key)
      PROVE  WorldTypeOK'
  <2>1. key \in Keys /\ key.number \in Numbers /\ AddPost(key)
    BY <1>6 DEF Land, TypeInv, TypeOK
  <2>2. lastId' \in Nat /\ comments' \subseteq Comments
    BY <2>1, AddPostType
  <2>3. QED
    BY <1>6, <2>2 DEF Land, TypeInv, TypeOK, WorldTypeOK
<1>7. QED
  BY <1>1, <1>2, <1>3, <1>4, <1>5, <1>6 DEF GitHubNext

(* The process: first the pieces its actions share.                        *)
LEMMA GoneType ==
  ASSUME TypeInv, Gone, disk' \in Stores
  PROVE  ProcTypeOK'
<1>1. /\ job'.source # "auto" /\ pc' \in Locations
      /\ pc' \notin JobLocations \cup {"approvals"}
  BY DEF Gone, NoKey, Locations, JobLocations
<1>2. /\ mem' \in Stores /\ job' \in Keys /\ seed' \in Cursors
      /\ todo' \subseteq Prs /\ batch' \subseteq Comments
      /\ stop' \in BOOLEAN
  BY FreshType DEF Gone, TypeInv, TypeOK
<1>3. revs' \in Seq(Reviews)
  BY DEF Gone
<1>4. QED
  BY <1>1, <1>2, <1>3 DEF ProcTypeOK

LEMMA SaveType ==
  ASSUME TypeInv, NEW store \in Stores, Save(store)
  PROVE  disk' \in Stores
BY DEF Save, TypeInv, TypeOK

LEMMA GiveUpType ==
  ASSUME TypeInv, GiveUp, UNCHANGED <<mem, disk, stop, seed>>
  PROVE  ProcTypeOK'
<1>1. /\ job'.source # "auto" /\ pc' \in Locations
      /\ pc' \notin JobLocations \cup {"approvals"}
  BY DEF GiveUp, NoKey, Locations, JobLocations
<1>2. todo' \subseteq Prs /\ batch' \subseteq Comments /\ revs' \in Seq(Reviews)
  BY DEF GiveUp, TypeInv, TypeOK
<1>3. QED
  BY <1>1, <1>2, FreshType DEF GiveUp, TypeInv, TypeOK, ProcTypeOK

LEMMA DecideType ==
  ASSUME TypeInv, NEW c \in batch, NEW mentioned \in BOOLEAN,
         Decide(c, mentioned)
  PROVE  ProcTypeOK'
<1> DEFINE store == [mem EXCEPT
                       !.handled = IF mentioned THEN @ \cup {c.id} ELSE @,
                       !.cursor = Advanced(@, c)]
<1>1. store \in Stores
  BY DecidedType
<1>2. /\ mem' = store /\ Save(store)
      /\ batch' = batch \ {c} /\ job' = NoKey /\ pc' = "ping"
      /\ UNCHANGED <<todo, revs, stop, seed>>
  BY DEF Decide
<1> HIDE DEF store
<1>3. disk' \in Stores
  BY <1>1, <1>2, SaveType
<1>4. /\ job'.source # "auto" /\ pc' \in Locations
      /\ pc' \notin JobLocations \cup {"approvals"}
  BY <1>2 DEF NoKey, Locations, JobLocations
<1>5. QED
  BY <1>1, <1>2, <1>3, <1>4, FreshType DEF TypeInv, TypeOK, ProcTypeOK

(* Steps that only move the process along.                                 *)
LEMMA MoveType ==
  ASSUME TypeInv, pc' \in Locations,
         pc' \in JobLocations \cup {"approvals"} => job.number \in Numbers,
         UNCHANGED <<mem, disk, todo, batch, job, stop, seed>>,
         revs' \in Seq(Reviews)
  PROVE  ProcTypeOK'
BY DEF TypeInv, TypeOK, ProcTypeOK

LEMMA WorldStutters ==
  ASSUME TypeInv, UNCHANGED githubVars
  PROVE  WorldTypeOK'
BY DEF TypeInv, TypeOK, WorldTypeOK, githubVars

LEMMA WorkType ==
  ASSUME TypeInv, Work
  PROVE  WorldTypeOK' /\ ProcTypeOK'
<1> USE DEF Locations, JobLocations
<1>0. revs \in Seq(Reviews)
  BY DEF TypeInv, TypeOK
<1>1. CASE NextTick
  BY <1>1, <1>0, MoveType, WorldStutters DEF NextTick
<1>2. CASE ListOpenPrs
  BY <1>2, WorldStutters
     DEF ListOpenPrs, TypeInv, TypeOK, ProcTypeOK
<1>3. CASE AutoPathDone
  BY <1>3, WorldStutters DEF AutoPathDone, TypeInv, TypeOK, ProcTypeOK
<1>4. CASE SkipReview
  BY <1>4, <1>0, MoveType, WorldStutters DEF SkipReview, TypeInv, TypeOK
<1>5. CASE NoMoreApprovals
  BY <1>5, GiveUpType, WorldStutters DEF NoMoreApprovals
<1>6. ASSUME NEW p \in Prs, ListReviews(p)
      PROVE  WorldTypeOK' /\ ProcTypeOK'
  <2>1. AutoKey(p) \in Keys /\ AutoKey(p).number = p /\ p \in Numbers
    BY NumbersAssumption DEF AutoKey, Keys, Numbers
  <2>2. reviews[p] \in Seq(Reviews)
    BY DEF TypeInv, TypeOK
  <2>3. QED
    BY <1>6, <2>1, <2>2, WorldStutters
       DEF ListReviews, TypeInv, TypeOK, ProcTypeOK
<1>7. ASSUME NEW u \in Users, CheckApprover(u)
      PROVE  WorldTypeOK' /\ ProcTypeOK'
  <2>1. pc = "approvals" /\ revs # <<>>
    BY <1>7 DEF CheckApprover, Calling
  <2>2. /\ \/ pc' = "scan" /\ revs' = <<>>
           \/ pc' = pc /\ revs' = Tail(revs)
        /\ UNCHANGED <<githubVars, mem, disk, todo, batch, job, stop, seed>>
    BY <1>7 DEF CheckApprover
  <2>3. Tail(revs) \in Seq(Reviews) /\ <<>> \in Seq(Reviews)
    BY <1>0, <2>1
  <2>4. job.number \in Numbers
    BY <2>1 DEF TypeInv
  <2>5. QED
    BY <1>0, <2>1, <2>2, <2>3, <2>4, MoveType, WorldStutters
<1>8. CASE ListComments
  BY <1>8, WorldStutters
     DEF ListComments, TypeInv, TypeOK, ProcTypeOK
<1>9. CASE SkipComment
  BY <1>9, DecideType, WorldStutters DEF SkipComment
<1>10. CASE GetIssueDetail
  <2>1. PICK c \in batch :
          \/ /\ c.number \in open /\ job' = PingKey(c) /\ pc' = "collab"
             /\ UNCHANGED <<mem, disk, todo, revs, batch, stop, seed>>
          \/ Decide(c, TRUE)
    BY <1>10 DEF GetIssueDetail
  <2>2. c \in Comments
    BY DEF TypeInv, TypeOK
  <2>3. /\ PingKey(c) \in Keys /\ PingKey(c).number \in Numbers
        /\ PingKey(c).source # "auto"
    BY <2>2, NumbersAssumption DEF PingKey, Keys, Comments, Numbers
  <2>4. QED
    BY <1>10, <2>1, <2>3, DecideType, WorldStutters
       DEF GetIssueDetail, TypeInv, TypeOK, ProcTypeOK
<1>11. CASE CheckMentioner
  <2>1. PICK c \in batch :
          \/ /\ pc' = "scan"
             /\ UNCHANGED <<mem, disk, todo, revs, batch, job, stop, seed>>
          \/ Decide(c, TRUE)
    BY <1>11 DEF CheckMentioner
  <2>2. UNCHANGED githubVars /\ pc = "collab"
    BY <1>11 DEF CheckMentioner, Calling
  <2>3. QED
    BY <1>0, <2>1, <2>2, DecideType, MoveType, WorldStutters DEF TypeInv
<1>12. CASE PingPathDone
  BY <1>12, <1>0, MoveType, WorldStutters DEF PingPathDone
<1>13. CASE Scan
  BY <1>13, <1>0, MoveType, WorldStutters DEF Scan, Calling, TypeInv
<1>14. CASE StreamDiff
  BY <1>14, <1>0, MoveType, WorldStutters DEF StreamDiff, Calling, TypeInv
<1>15. CASE GetPrInfo
  BY <1>15, <1>0, MoveType, WorldStutters DEF GetPrInfo, Calling, TypeInv
<1>16. CASE CollectContext
  BY <1>16, <1>0, MoveType, WorldStutters
     DEF CollectContext, Calling, TypeInv
<1>17. CASE RunReviewer
  BY <1>17, <1>0, MoveType, WorldStutters DEF RunReviewer, Calling, TypeInv
<1>18. CASE PostComment
  <2>1. pc = "post" /\ job \in Keys /\ job.number \in Numbers
    BY <1>18 DEF PostComment, Calling, TypeInv, TypeOK
  <2>2. lastId' \in Nat /\ comments' \subseteq Comments
    BY <1>18, <2>1, AddPostType DEF PostComment
  <2>3. WorldTypeOK'
    BY <1>18, <2>2 DEF PostComment, TypeInv, TypeOK, WorldTypeOK
  <2>4. QED
    BY <1>18, <1>0, <2>1, <2>3, MoveType DEF PostComment
<1>19. CASE CommitAuto
  <2> DEFINE store == [mem EXCEPT !.reviewed = @ \cup {job.number}]
  <2>1. job.number \in Prs
    BY <1>19 DEF CommitAuto, TypeInv
  <2>2. store \in Stores
    BY <2>1 DEF TypeInv, TypeOK, Stores
  <2>3. /\ mem' = store /\ Save(store) /\ todo' = todo \ {job.number}
        /\ job' = NoKey /\ pc' = "auto"
        /\ UNCHANGED <<githubVars, revs, batch, stop, seed>>
    BY <1>19 DEF CommitAuto
  <2> HIDE DEF store
  <2>4. disk' \in Stores
    BY <2>2, <2>3, SaveType
  <2>5. job'.source # "auto"
    BY <2>3 DEF NoKey
  <2>6. QED
    BY <2>2, <2>3, <2>4, <2>5, FreshType, WorldStutters
       DEF TypeInv, TypeOK, ProcTypeOK
<1>20. CASE CommitPing
  BY <1>20, DecideType, WorldStutters DEF CommitPing
<1>21. QED
  BY <1>1, <1>2, <1>3, <1>4, <1>5, <1>6, <1>7, <1>8, <1>9, <1>10, <1>11,
     <1>12, <1>13, <1>14, <1>15, <1>16, <1>17, <1>18, <1>19, <1>20 DEF Work

LEMMA TroubleType ==
  ASSUME TypeInv, Trouble \/ Shutdown
  PROVE  WorldTypeOK' /\ ProcTypeOK'
<1> USE DEF Locations, JobLocations
<1>0. /\ mem \in Stores /\ revs \in Seq(Reviews)
      /\ job \in Keys
  BY DEF TypeInv, TypeOK
<1>1. ASSUME NEW l \in FailingCalls, CallFails(l)
      PROVE  WorldTypeOK' /\ ProcTypeOK'
  <2>1. /\ pc = l /\ FailsAt(l)
        /\ UNCHANGED <<githubVars, mem, disk, stop, seed>>
    BY <1>1 DEF CallFails, Calling
  <2>2. CASE GiveUp
    BY <2>1, <2>2, GiveUpType, WorldStutters
  <2>3. CASE /\ l = "auto" /\ todo' \subseteq todo
             /\ UNCHANGED <<pc, revs, batch, job>>
    BY <2>1, <2>3, WorldStutters DEF TypeInv, TypeOK, ProcTypeOK
  <2>4. CASE l = "autolist" /\ ~GiveUp
    <3>1. pc' = "pinglist" /\ UNCHANGED <<todo, revs, batch, job>>
      BY <2>1, <2>4 DEF FailsAt
    <3>2. QED
      BY <1>0, <2>1, <3>1, MoveType, WorldStutters
  <2>6. CASE l \in {"info", "context"} /\ ~GiveUp
    <3>1. pc' \in {"review", "post"} /\ UNCHANGED <<todo, revs, batch, job>>
      BY <2>1, <2>6 DEF FailsAt
    <3>2. job.number \in Numbers
      BY <2>1, <2>6 DEF TypeInv
    <3>3. QED
      BY <1>0, <2>1, <3>1, <3>2, MoveType, WorldStutters
  <2>5. CASE l = "auto" /\ ~GiveUp
    <3>1. PICK p \in todo \ mem.reviewed : todo' = todo \ {p}
      BY <2>1, <2>5 DEF FailsAt
    <3>2. todo' \subseteq todo /\ UNCHANGED <<pc, revs, batch, job>>
      BY <2>1, <2>5, <3>1 DEF FailsAt
    <3>3. QED
      BY <2>3, <2>5, <3>2
  <2>7. QED
    BY <2>1, <2>2, <2>4, <2>5, <2>6 DEF FailsAt
<1>2. ASSUME NEW l \in FatalCalls, CallFatal(l)
      PROVE  WorldTypeOK' /\ ProcTypeOK'
  BY <1>0, <1>2, SaveType, GoneType, WorldStutters DEF CallFatal
<1>3. CASE PostUnanswered
  <2>1. pc = "post" /\ job.number \in Numbers
    BY <1>3 DEF PostUnanswered, Calling, TypeInv
  <2>2. lastId' \in Nat /\ comments' \subseteq Comments
    BY <1>0, <1>3, <2>1, AddPostType DEF PostUnanswered
  <2>3. WorldTypeOK'
    BY <1>3, <2>2 DEF PostUnanswered, TypeInv, TypeOK, WorldTypeOK
  <2>4. QED
    BY <1>3, <2>3, GiveUpType DEF PostUnanswered
<1>4. CASE PostLate
  <2>1. pc = "post" /\ job.number \in Numbers
    BY <1>4 DEF PostLate, Calling, TypeInv
  <2>2. WorldTypeOK'
    BY <1>0, <1>4, <2>1 DEF PostLate, TypeInv, TypeOK, WorldTypeOK
  <2>3. QED
    BY <1>4, <2>2, GiveUpType DEF PostLate
<1>5. CASE Shutdown
  BY <1>0, <1>5, SaveType, GoneType, WorldStutters DEF Shutdown
<1>6. QED
  BY <1>1, <1>2, <1>3, <1>4, <1>5 DEF Trouble

LEMMA OutsideType ==
  ASSUME TypeInv, Start \/ Outside
  PROVE  WorldTypeOK' /\ ProcTypeOK'
<1> USE DEF Locations, JobLocations
<1>0. Loaded \in Stores /\ Loaded.cursor \in Cursors
  BY LoadedType DEF Stores
<1>1. CASE Start
  BY <1>0, <1>1, WorldStutters DEF Start, TypeInv, TypeOK, ProcTypeOK
<1>2. CASE Signal
  BY <1>2, WorldStutters DEF Signal, TypeInv, TypeOK, ProcTypeOK
<1>3. CASE Crash
  BY <1>3, GoneType, WorldStutters DEF Crash, TypeInv, TypeOK
<1>4. CASE Wipe
  BY <1>4, FreshType, WorldStutters DEF Wipe, TypeInv, TypeOK, ProcTypeOK
<1>5. CASE PreflightFails
  BY <1>0, <1>5, WorldStutters
     DEF PreflightFails, TypeInv, TypeOK, ProcTypeOK
<1>6. CASE GitHubNext /\ UNCHANGED procVars
  BY <1>6, GitHubType DEF procVars, TypeInv, TypeOK, ProcTypeOK
<1>7. QED
  BY <1>1, <1>2, <1>3, <1>4, <1>5, <1>6 DEF Outside

LEMMA TypeInvStep == TypeInv /\ [Next]_vars => TypeInv'
<1> SUFFICES ASSUME TypeInv, [Next]_vars PROVE TypeInv'
  OBVIOUS
<1>1. CASE UNCHANGED vars
  BY <1>1 DEF vars, githubVars, procVars, TypeInv, TypeOK
<1>2. ASSUME WorldTypeOK' /\ ProcTypeOK'
      PROVE  TypeInv'
  BY <1>2 DEF TypeInv, TypeOK, WorldTypeOK, ProcTypeOK
<1>3. QED
  BY <1>1, <1>2, WorkType, TroubleType, OutsideType DEF Next, BotStep

(* Every variable keeps its type.                                          *)
THEOREM TypeCorrect == Spec => []TypeOK
<1>1. TypeInv => TypeOK
  BY DEF TypeInv
<1>2. QED
  BY <1>1, TypeInvInit, TypeInvStep, PTL DEF Spec

-----------------------------------------------------------------------------
(***************************************************************************)
(* What a step does to the bot's posts.                                    *)
(***************************************************************************)
SamePosts == \A k \in Keys : Posts(k)' = Posts(k)

LEMMA SameComments ==
  ASSUME UNCHANGED comments
  PROVE  SamePosts
BY DEF SamePosts, Posts

LEMMA PeopleDoNotPost ==
  ASSUME TypeInv, GitHubNext, ~ \E key \in inflight : Land(key)
  PROVE  SamePosts
<1>1. ASSUME NEW u \in Users, NEW n \in Numbers, NEW m \in BOOLEAN,
             Comment(u, n, m)
      PROVE  SamePosts
  <2>1. u # Bot
    BY UsersAssumption
  <2>2. QED
    BY <1>1, <2>1 DEF Comment, SamePosts, Posts
<1>2. ASSUME NEW c \in comments, NEW m \in BOOLEAN, Edit(c, m)
      PROVE  SamePosts
  <2> DEFINE new == [c EXCEPT !.updated = now, !.mention = m, !.asked = @ \/ m]
  <2>1. c.author # Bot /\ comments' = (comments \ {c}) \cup {new}
    BY <1>2 DEF Edit
  <2>2. c \in Comments
    BY DEF TypeInv, TypeOK
  <2>3. new.author # Bot
    BY <2>1, <2>2 DEF Comments
  <2> HIDE DEF new
  <2>4. QED
    BY <2>1, <2>3 DEF SamePosts, Posts
<1>3. CASE UNCHANGED comments
  BY <1>3, SameComments
<1>4. QED
  BY <1>1, <1>2, <1>3 DEF GitHubNext, Review, Close, TimePasses

LEMMA PostAdds ==
  ASSUME TypeInv, NEW key \in Keys, AddPost(key)
  PROVE  /\ \A k \in Keys : Posts(k) \subseteq Posts(k)'
         /\ \A k \in Keys : k # key => Posts(k)' = Posts(k)
         /\ Posts(key)' # {}
         /\ \E post : post.author = Bot /\ post.key = key
                      /\ comments' = comments \cup {post}
<1> DEFINE post == [id |-> lastId + 1, number |-> key.number, author |-> Bot,
                    updated |-> now, mention |-> FALSE, asked |-> FALSE,
                    key |-> key]
<1>1. comments' = comments \cup {post}
  BY DEF AddPost
<1>2. post.author = Bot /\ post.key = key
  OBVIOUS
<1> HIDE DEF post
<1>3. QED
  BY <1>1, <1>2 DEF Posts

(* The three steps after which there is one post more.                     *)
Posting ==
  \/ PostComment
  \/ PostUnanswered
  \/ /\ \E key \in inflight : Land(key)
     /\ UNCHANGED procVars

LEMMA OnlyPostingPosts ==
  ASSUME TypeInv, [Next]_vars, ~Posting
  PROVE  SamePosts
<1>1. CASE UNCHANGED comments
  BY <1>1, SameComments
<1>2. CASE GitHubNext /\ UNCHANGED procVars
  BY <1>2, PeopleDoNotPost DEF Posting
<1>3. CASE Start \/ Shutdown
  BY <1>3, <1>1 DEF Start, Shutdown, githubVars
<1>4. CASE Signal \/ Crash \/ Wipe \/ PreflightFails
  BY <1>4, <1>1 DEF Signal, Crash, Wipe, PreflightFails, githubVars
<1>5. CASE Trouble
  BY <1>5, <1>1 DEF Trouble, CallFails, CallFatal, PostLate,
                    githubVars, Posting
<1>6. CASE Work
  BY <1>6, <1>1
     DEF Work, NextTick, ListOpenPrs, AutoPathDone, SkipReview,
         NoMoreApprovals, ListReviews, CheckApprover, ListComments,
         SkipComment, GetIssueDetail, CheckMentioner, PingPathDone, Scan,
         StreamDiff, GetPrInfo, CollectContext, RunReviewer, CommitAuto,
         CommitPing, githubVars, Posting
<1>7. CASE UNCHANGED vars
  BY <1>7, <1>1 DEF vars, githubVars
<1>8. QED
  BY <1>2, <1>3, <1>4, <1>5, <1>6, <1>7 DEF Next, BotStep, Outside

(* A post is for ever.                                                     *)
LEMMA PostsGrow ==
  ASSUME TypeInv, [Next]_vars
  PROVE  \A k \in Keys : Posts(k) \subseteq Posts(k)'
<1>1. CASE ~Posting
  BY <1>1, OnlyPostingPosts DEF SamePosts
<1>2. CASE PostComment \/ PostUnanswered
  <2>1. job \in Keys /\ AddPost(job)
    BY <1>2 DEF PostComment, PostUnanswered, TypeInv, TypeOK
  <2>2. QED
    BY <2>1, PostAdds
<1>3. ASSUME NEW key \in inflight, Land(key)
      PROVE  \A k \in Keys : Posts(k) \subseteq Posts(k)'
  <2>1. key \in Keys /\ AddPost(key)
    BY <1>3 DEF Land, TypeInv, TypeOK
  <2>2. QED
    BY <2>1, PostAdds
<1>4. QED
  BY <1>1, <1>2, <1>3 DEF Posting

-----------------------------------------------------------------------------
(***************************************************************************)
(* At most one post per trigger, but for POSTs that were given up while    *)
(* they travelled.  SecondPostWasUnsure is not inductive: between the      *)
(* marker scan and the post, the scan's answer has to stay true.  It does, *)
(* since only this process posts, and what it posts next is this job.      *)
(***************************************************************************)
Dispatching == {"diff", "info", "context", "review", "post"}

OnceInv ==
  /\ inflight \subseteq unsure
  /\ pc \in Dispatching => Posts(job) = {} \/ job \in unsure
  /\ SecondPostWasUnsure

(* Steps that post nothing and do not begin to dispatch.                   *)
LEMMA OnceQuiet ==
  ASSUME TypeInv, OnceInv, SamePosts,
         inflight' \subseteq unsure', unsure \subseteq unsure',
         \A c \in comments' : c.author = Bot => c \in comments,
         pc' \in Dispatching => pc \in Dispatching /\ job' = job
  PROVE  OnceInv'
<1>1. job \in Keys
  BY DEF TypeInv, TypeOK
<1>2. (pc \in Dispatching => Posts(job) = {} \/ job \in unsure)'
  BY <1>1 DEF OnceInv, SamePosts
<1>3. SecondPostWasUnsure'
  BY DEF OnceInv, SecondPostWasUnsure
<1>4. QED
  BY <1>2, <1>3 DEF OnceInv

(* Of the comments people write or edit, none is the bot's.                *)
LEMMA BotCommentsAreOld ==
  ASSUME TypeInv, [Next]_vars, ~Posting
  PROVE  \A c \in comments' : c.author = Bot => c \in comments
<1>1. ASSUME NEW c \in comments', c.author = Bot
      PROVE  c \in comments
  <2>1. \A k \in Keys : Posts(k)' = Posts(k)
    BY OnlyPostingPosts DEF SamePosts
  <2>2. c.key \in Keys
    BY <1>1, TypeInvStep DEF TypeInv, TypeOK, Comments
  <2>3. c \in Posts(c.key)'
    BY <1>1 DEF Posts
  <2>4. QED
    BY <2>1, <2>2, <2>3 DEF Posts
<1>2. QED
  BY <1>1

(* Where a step that is not a post may lead.                               *)
LEMMA DispatchingBegins ==
  ASSUME TypeInv, [Next]_vars, ~Posting, ~Scan
  PROVE  pc' \in Dispatching => pc \in Dispatching /\ job' = job
<1> USE DEF Dispatching
<1>1. CASE Start \/ Shutdown
  BY <1>1 DEF Start, Shutdown, Gone
<1>2. CASE Outside
  BY <1>2 DEF Outside, Signal, Crash, Wipe, PreflightFails, procVars, Gone
<1>3. ASSUME NEW l \in FailingCalls, CallFails(l)
      PROVE  pc' \in Dispatching => pc \in Dispatching /\ job' = job
  <2>1. pc = l /\ FailsAt(l)
    BY <1>3 DEF CallFails, Calling
  <2>2. GiveUp => pc' \notin Dispatching
    BY DEF GiveUp
  <2>3. QED
    BY <2>1, <2>2 DEF FailsAt
<1>4. CASE Trouble
  BY <1>3, <1>4
     DEF Trouble, CallFatal, Calling, PostLate, Gone, GiveUp,
         Posting
<1>5. CASE NextTick \/ ListOpenPrs \/ AutoPathDone \/ SkipReview
           \/ NoMoreApprovals \/ (\E p \in Prs : ListReviews(p))
           \/ (\E u \in Users : CheckApprover(u))
  BY <1>5 DEF NextTick, ListOpenPrs, AutoPathDone, SkipReview,
              NoMoreApprovals, ListReviews, CheckApprover, Calling, GiveUp
<1>6. CASE ListComments \/ SkipComment \/ GetIssueDetail \/ CheckMentioner
           \/ PingPathDone
  BY <1>6 DEF ListComments, SkipComment, GetIssueDetail, CheckMentioner,
              PingPathDone, Decide
<1>7. CASE StreamDiff \/ GetPrInfo \/ CollectContext \/ RunReviewer
           \/ CommitAuto \/ CommitPing
  BY <1>7 DEF StreamDiff, GetPrInfo, CollectContext, RunReviewer, CommitAuto,
              CommitPing, Decide, Calling
<1>8. CASE UNCHANGED vars
  BY <1>8 DEF vars, procVars
<1>9. QED
  BY <1>1, <1>2, <1>4, <1>5, <1>6, <1>7, <1>8
     DEF Next, BotStep, Work, Posting

(* Only a late POST is left travelling.                                    *)
LEMMA Travelling ==
  ASSUME TypeInv, [Next]_vars
  PROVE  /\ unsure \subseteq unsure'
         /\ inflight \subseteq unsure => inflight' \subseteq unsure'
         /\ "late" \notin Faults => unsure' = unsure
<1>1. CASE UNCHANGED <<inflight, unsure>>
  BY <1>1
<1>2. CASE GitHubNext
  BY <1>2 DEF GitHubNext, Comment, Edit, Review, Close, TimePasses, Land
<1>3. CASE Start \/ Shutdown \/ Signal \/ Crash \/ Wipe \/ PreflightFails
  BY <1>1, <1>3 DEF Start, Shutdown, Signal, Crash, Wipe, PreflightFails,
                    githubVars
<1>4. CASE Trouble
  BY <1>1, <1>4 DEF Trouble, CallFails, CallFatal, PostUnanswered,
                    PostLate, githubVars
<1>5. CASE Work
  BY <1>1, <1>5
     DEF Work, NextTick, ListOpenPrs, AutoPathDone, SkipReview,
         NoMoreApprovals, ListReviews, CheckApprover, ListComments,
         SkipComment, GetIssueDetail, CheckMentioner, PingPathDone, Scan,
         StreamDiff, GetPrInfo, CollectContext, RunReviewer, PostComment,
         CommitAuto, CommitPing, githubVars
<1>6. CASE UNCHANGED vars
  BY <1>1, <1>6 DEF vars, githubVars
<1>7. QED
  BY <1>2, <1>3, <1>4, <1>5, <1>6 DEF Next, BotStep, Outside

(* One post more for a key that has none, or whose POST was given up.      *)
LEMMA OnceMore ==
  ASSUME TypeInv, OnceInv, NEW key \in Keys, AddPost(key),
         Posts(key) = {} \/ key \in unsure, unsure \subseteq unsure'
  PROVE  SecondPostWasUnsure'
<1>1. PICK post : /\ post.author = Bot /\ post.key = key
                  /\ comments' = comments \cup {post}
  BY PostAdds
<1>2. Posts(key) = {} => \A c \in comments : c.author = Bot => c.key # key
  BY DEF Posts
<1>3. QED
  BY <1>1, <1>2 DEF OnceInv, SecondPostWasUnsure

LEMMA OnceStep ==
  ASSUME TypeInv, OnceInv, [Next]_vars
  PROVE  OnceInv'
<1>0. /\ inflight' \subseteq unsure' /\ unsure \subseteq unsure'
      /\ job \in Keys
  BY Travelling DEF OnceInv, TypeInv, TypeOK
<1>1. CASE ~Posting /\ ~Scan
  BY <1>0, <1>1, OnceQuiet, OnlyPostingPosts, BotCommentsAreOld,
     DispatchingBegins
<1>2. CASE Scan
  <2>1. UNCHANGED <<comments, job, inflight, unsure>>
    BY <1>2 DEF Scan, githubVars
  <2>2. pc' \in Dispatching => Posts(job) = {}
    BY <1>2 DEF Scan, Dispatching
  <2>3. QED
    BY <1>0, <2>1, <2>2 DEF OnceInv, SecondPostWasUnsure, Posts
<1>3. CASE PostComment \/ PostUnanswered
  <2>1. /\ AddPost(job) /\ pc' \notin Dispatching
        /\ Posts(job) = {} \/ job \in unsure
    BY <1>3 DEF PostComment, PostUnanswered, Calling, OnceInv, Dispatching,
                GiveUp
  <2>2. QED
    BY <1>0, <2>1, OnceMore DEF OnceInv
<1>4. ASSUME NEW key \in inflight, Land(key), UNCHANGED procVars
      PROVE  OnceInv'
  <2>1. key \in Keys /\ key \in unsure /\ AddPost(key) /\ UNCHANGED unsure
    BY <1>4 DEF Land, OnceInv, TypeInv, TypeOK
  <2>2. SecondPostWasUnsure'
    BY <1>0, <2>1, OnceMore
  <2>3. job # key => {c \in comments' : c.author = Bot /\ c.key = job} = Posts(job)
    BY <1>0, <2>1, PostAdds DEF Posts
  <2>4. UNCHANGED <<pc, job>>
    BY <1>4 DEF procVars
  <2>5. (pc \in Dispatching => Posts(job) = {} \/ job \in unsure)'
    BY <2>1, <2>3, <2>4 DEF OnceInv, Posts
  <2>6. QED
    BY <1>0, <2>2, <2>5 DEF OnceInv
<1>5. QED
  BY <1>1, <1>2, <1>3, <1>4 DEF Posting

LEMMA OnceInit == Init => OnceInv
BY DEF Init, GitHubInit, OnceInv, SecondPostWasUnsure, Dispatching

(* However often the process crashes, restarts, loses its state file, gets *)
(* no answer to a POST or cannot save: no trigger is answered twice but    *)
(* after a POST of it was given up too early.                              *)
THEOREM OnceUnlessUnsure == Spec => []SecondPostWasUnsure
<1>1. OnceInv => SecondPostWasUnsure
  BY DEF OnceInv
<1>2. QED
  BY <1>1, OnceInit, OnceStep, TypeInvInit, TypeInvStep, PTL DEF Spec

LEMMA OnceMeansOnce ==
  ASSUME OnceInv, unsure = {}
  PROVE  AtMostOnePost
BY DEF OnceInv, SecondPostWasUnsure, AtMostOnePost

LEMMA NeverUnsure ==
  ASSUME "late" \notin Faults
  PROVE  Spec => [](TypeInv /\ OnceInv /\ unsure = {})
<1>1. Init => unsure = {}
  BY DEF Init, GitHubInit
<1>2. TypeInv /\ unsure = {} /\ [Next]_vars => (unsure = {})'
  BY Travelling
<1>3. QED
  BY <1>1, <1>2, OnceInit, OnceStep, TypeInvInit, TypeInvStep, PTL DEF Spec

(* Where no POST lands after the client gave it up: one trigger, at most   *)
(* one post.                                                               *)
THEOREM AtMostOnce ==
  ASSUME "late" \notin Faults
  PROVE  Spec => []AtMostOnePost
<1>1. TypeInv /\ OnceInv /\ unsure = {} => AtMostOnePost
  BY OnceMeansOnce
<1>2. QED
  BY <1>1, NeverUnsure, PTL

-----------------------------------------------------------------------------
(***************************************************************************)
(* A pull request counts as reviewed only once the review is posted.       *)
(***************************************************************************)
ReviewedInv ==
  /\ ReviewedMeansPosted
  /\ pc = "commit" => Posts(job) # {}

(* Where the two sets can come from.                                       *)
LEMMA ReviewedSources ==
  ASSUME TypeInv, [Next]_vars, ~CommitAuto
  PROVE  mem'.reviewed \cup disk'.reviewed \subseteq mem.reviewed \cup disk.reviewed
<1>0. mem \in Stores /\ disk \in Stores
  BY DEF TypeInv, TypeOK
<1>1. Loaded.reviewed = disk.reviewed /\ Fresh.reviewed = {}
  BY <1>0 DEF Loaded, Fresh, Stores
<1>2. ASSUME NEW c \in batch, NEW m \in BOOLEAN, Decide(c, m)
      PROVE  mem'.reviewed = mem.reviewed /\ disk'.reviewed \subseteq mem.reviewed \cup disk.reviewed
  BY <1>0, <1>2 DEF Decide, Save, Stores
<1>3. CASE UNCHANGED <<mem, disk>>
  BY <1>3
<1>4. CASE Start \/ Shutdown \/ Crash \/ Wipe \/ PreflightFails
  BY <1>1, <1>4 DEF Start, Shutdown, Crash, Wipe, PreflightFails, Gone, Save
<1>5. CASE SkipComment \/ GetIssueDetail \/ CheckMentioner \/ CommitPing
  BY <1>2, <1>3, <1>5 DEF SkipComment, GetIssueDetail, CheckMentioner, CommitPing
<1>6. CASE Trouble
  BY <1>1, <1>3, <1>6
     DEF Trouble, CallFails, CallFatal, PostUnanswered,
         PostLate, Gone, Save
<1>7. CASE Work
  BY <1>3, <1>5, <1>7
     DEF Work, NextTick, ListOpenPrs, AutoPathDone, SkipReview,
         NoMoreApprovals, ListReviews, CheckApprover, ListComments,
         PingPathDone, Scan, StreamDiff, GetPrInfo, CollectContext,
         RunReviewer, PostComment
<1>8. CASE Signal \/ (GitHubNext /\ UNCHANGED procVars) \/ UNCHANGED vars
  BY <1>3, <1>8 DEF Signal, procVars, vars
<1>9. QED
  BY <1>4, <1>6, <1>7, <1>8 DEF Next, BotStep, Outside

(* How "commit" is reached.                                                *)
LEMMA CommitReached ==
  ASSUME TypeInv, [Next]_vars, pc' = "commit"
  PROVE  \/ pc = "commit" /\ job' = job
         \/ Scan /\ Posts(job) # {}
         \/ PostComment
<1>1. CASE Start \/ Shutdown \/ Outside
  BY <1>1 DEF Start, Shutdown, Outside, Signal, Crash, Wipe, PreflightFails,
              procVars, Gone
<1>2. ASSUME NEW l \in FailingCalls, CallFails(l)
      PROVE  FALSE
  <2>1. pc = l /\ FailsAt(l)
    BY <1>2 DEF CallFails, Calling
  <2>2. QED
    BY <2>1, <1>2 DEF FailsAt, GiveUp
<1>3. CASE Trouble
  BY <1>2, <1>3
     DEF Trouble, CallFatal, PostUnanswered, PostLate, Gone,
         GiveUp
<1>4. CASE NextTick \/ ListOpenPrs \/ AutoPathDone \/ SkipReview
           \/ NoMoreApprovals \/ (\E p \in Prs : ListReviews(p))
           \/ (\E u \in Users : CheckApprover(u))
  BY <1>4 DEF NextTick, ListOpenPrs, AutoPathDone, SkipReview,
              NoMoreApprovals, ListReviews, CheckApprover, Calling, GiveUp
<1>5. CASE ListComments \/ SkipComment \/ GetIssueDetail \/ CheckMentioner
           \/ PingPathDone \/ CommitAuto \/ CommitPing
  BY <1>5 DEF ListComments, SkipComment, GetIssueDetail, CheckMentioner,
              PingPathDone, CommitAuto, CommitPing, Decide
<1>6. CASE Scan \/ StreamDiff \/ GetPrInfo \/ CollectContext \/ RunReviewer
  BY <1>6 DEF Scan, StreamDiff, GetPrInfo, CollectContext, RunReviewer
<1>7. CASE UNCHANGED vars
  BY <1>7 DEF vars, procVars
<1>8. QED
  BY <1>1, <1>3, <1>4, <1>5, <1>6, <1>7 DEF Next, BotStep, Work

LEMMA PostedAtCommit ==
  ASSUME TypeInv, [Next]_vars, pc = "commit" => Posts(job) # {}
  PROVE  (pc = "commit" => Posts(job) # {})'
<1> SUFFICES ASSUME pc' = "commit" PROVE Posts(job)' # {}
  OBVIOUS
<1>0. job \in Keys
  BY DEF TypeInv, TypeOK
<1>1. CASE (pc = "commit" /\ job' = job) \/ (Scan /\ Posts(job) # {})
  <2>1. job' = job /\ Posts(job) # {}
    BY <1>1 DEF Scan
  <2>2. Posts(job) \subseteq {c \in comments' : c.author = Bot /\ c.key = job}
    BY <1>0, PostsGrow DEF Posts
  <2>3. QED
    BY <2>1, <2>2 DEF Posts
<1>2. CASE PostComment
  <2>1. AddPost(job) /\ job' = job
    BY <1>2 DEF PostComment
  <2>2. {c \in comments' : c.author = Bot /\ c.key = job} # {}
    BY <1>0, <2>1, PostAdds DEF Posts
  <2>3. QED
    BY <2>1, <2>2 DEF Posts
<1>3. QED
  BY <1>1, <1>2, CommitReached

LEMMA ReviewedStep ==
  ASSUME TypeInv, ReviewedInv, [Next]_vars
  PROVE  ReviewedInv'
<1>1. (pc = "commit" => Posts(job) # {})'
  BY PostedAtCommit DEF ReviewedInv
<1>2. \A p \in mem.reviewed \cup disk.reviewed : Posts(AutoKey(p))' # {}
  <2>1. mem.reviewed \subseteq Prs /\ disk.reviewed \subseteq Prs
    BY DEF TypeInv, TypeOK, Stores
  <2>2. \A p \in Prs : AutoKey(p) \in Keys
    BY NumbersAssumption DEF AutoKey, Keys, Numbers
  <2>3. QED
    BY <2>1, <2>2, PostsGrow DEF ReviewedInv, ReviewedMeansPosted
<1>3. CASE ~CommitAuto
  BY <1>1, <1>2, <1>3, ReviewedSources DEF ReviewedInv, ReviewedMeansPosted
<1>4. CASE CommitAuto
  <2>1. /\ mem'.reviewed = mem.reviewed \cup {job.number}
        /\ disk'.reviewed \subseteq mem.reviewed \cup disk.reviewed \cup {job.number}
    BY <1>4 DEF CommitAuto, Save, TypeInv, TypeOK, Stores
  <2>2. job = AutoKey(job.number) /\ Posts(job) # {} /\ UNCHANGED comments
    BY <1>4 DEF CommitAuto, TypeInv, ReviewedInv, githubVars
  <2>3. PICK p \in Prs : p = job.number /\ job = AutoKey(p)
    BY <1>4, <2>2 DEF CommitAuto, TypeInv
  <2>4. Posts(AutoKey(p))' # {}
    BY <2>2, <2>3 DEF Posts
  <2>5. QED
    BY <1>1, <1>2, <2>1, <2>3, <2>4 DEF ReviewedInv, ReviewedMeansPosted
<1>5. QED
  BY <1>3, <1>4

(* Whatever fails and however late a POST lands, a pull request is         *)
(* remembered as reviewed only with its review on GitHub.                  *)
THEOREM ReviewedIsPosted == Spec => []ReviewedMeansPosted
<1>1. Init => ReviewedInv
  BY DEF Init, Fresh, ReviewedInv, ReviewedMeansPosted
<1>2. TypeInv /\ ReviewedInv /\ [Next]_vars => ReviewedInv'
  BY ReviewedStep
<1>3. ReviewedInv => ReviewedMeansPosted
  BY DEF ReviewedInv
<1>4. QED
  BY <1>1, <1>2, <1>3, TypeInvInit, TypeInvStep, PTL DEF Spec

-----------------------------------------------------------------------------
(* The locations at which somebody was found who may ask.                  *)
Granted == {"scan", "diff", "info", "context", "review", "post", "commit"}

(* A listed comment is still there, whoever edited it.                     *)
Traced(b) ==
  \E d \in comments :
    /\ d.id = b.id /\ d.number = b.number /\ d.author = b.author
    /\ b.asked => d.asked

FromReviews ==
  /\ job.source = "auto"
  /\ \A i \in 1..Len(revs) :
       \E j \in 1..Len(reviews[job.number]) : reviews[job.number][j] = revs[i]

AskedInv ==
  /\ \A c \in comments \cup batch : c.author # Bot /\ c.mention => c.asked
  /\ \A b \in batch : Traced(b)
  /\ \A c \in comments : c.author = Bot => c.key \in Asked /\ c.number = c.key.number
  /\ inflight \subseteq Asked
  /\ pc \in Granted => job \in Asked
  /\ pc = "approvals" => FromReviews
  /\ pc = "collab" => \E c \in batch : IsNext(c) /\ ~Settled(c) /\ job = PingKey(c)

-----------------------------------------------------------------------------
(***************************************************************************)
(* What was asked stays asked.                                             *)
(***************************************************************************)
(* Reviews are only added.                                                 *)
Appended == \A p \in Prs : \A j \in 1..Len(reviews[p]) :
              j \in 1..Len(reviews'[p]) /\ reviews'[p][j] = reviews[p][j]

(* A comment, with who wrote it and that it asked, is only added.          *)
Kept == \A c \in comments : \E d \in comments' :
          /\ d.id = c.id /\ d.number = c.number /\ d.author = c.author
          /\ c.asked => d.asked

(* Only people's steps and posts change what GitHub has.                   *)
LEMMA WorldChanges ==
  ASSUME [Next]_vars
  PROVE  \/ UNCHANGED <<comments, reviews>>
         \/ GitHubNext /\ UNCHANGED procVars
         \/ PostComment \/ PostUnanswered
<1>1. CASE Start \/ Shutdown \/ Outside
  BY <1>1 DEF Start, Shutdown, Outside, Signal, Crash, Wipe, PreflightFails,
              githubVars
<1>2. CASE Trouble
  BY <1>2 DEF Trouble, CallFails, CallFatal, PostLate, githubVars
<1>3. CASE Work
  BY <1>3
     DEF Work, NextTick, ListOpenPrs, AutoPathDone, SkipReview,
         NoMoreApprovals, ListReviews, CheckApprover, ListComments,
         SkipComment, GetIssueDetail, CheckMentioner, PingPathDone, Scan,
         StreamDiff, GetPrInfo, CollectContext, RunReviewer, CommitAuto,
         CommitPing, githubVars
<1>4. QED
  BY <1>1, <1>2, <1>3 DEF Next, BotStep, vars, githubVars

LEMMA NothingIsTakenBack ==
  ASSUME TypeInv, [Next]_vars
  PROVE  Appended /\ Kept
<1>0. comments \subseteq Comments /\ reviews \in [Prs -> Seq(Reviews)]
  BY DEF TypeInv, TypeOK
<1>1. UNCHANGED reviews => Appended
  BY DEF Appended
<1>2. comments \subseteq comments' => Kept
  BY DEF Kept
<1>3. CASE UNCHANGED <<comments, reviews>>
  BY <1>1, <1>2, <1>3
<1>4. CASE PostComment \/ PostUnanswered
  BY <1>1, <1>2, <1>4 DEF PostComment, PostUnanswered, AddPost
<1>5. ASSUME NEW u \in Users, NEW p \in Prs,
             NEW s \in {"APPROVED", "COMMENTED"}, Review(u, p, s)
      PROVE  Appended /\ Kept
  <2>1. /\ reviews' = [reviews EXCEPT ![p] = Append(@, [author |-> u, state |-> s])]
        /\ UNCHANGED comments
    BY <1>5 DEF Review
  <2>2. \A q \in Prs \ {p} : reviews'[q] = reviews[q]
    BY <1>0, <2>1
  <2>3. reviews'[p] = Append(reviews[p], [author |-> u, state |-> s])
        /\ reviews[p] \in Seq(Reviews)
    BY <1>0, <2>1
  <2>4. \A j \in 1..Len(reviews[p]) :
          j \in 1..Len(reviews'[p]) /\ reviews'[p][j] = reviews[p][j]
    BY <2>3
  <2>5. QED
    BY <1>2, <2>1, <2>2, <2>4 DEF Appended
<1>6. ASSUME NEW c \in comments, NEW m \in BOOLEAN, Edit(c, m)
      PROVE  Appended /\ Kept
  <2> DEFINE new == [c EXCEPT !.updated = now, !.mention = m, !.asked = @ \/ m]
  <2>1. /\ new.id = c.id /\ new.number = c.number /\ new.author = c.author
        /\ c.asked => new.asked
    BY <1>0 DEF Comments
  <2>2. comments' = (comments \ {c}) \cup {new} /\ UNCHANGED reviews
    BY <1>6 DEF Edit
  <2> HIDE DEF new
  <2>3. Kept
    BY <2>1, <2>2 DEF Kept
  <2>4. QED
    BY <1>1, <2>2, <2>3
<1>7. CASE GitHubNext
  BY <1>1, <1>2, <1>5, <1>6, <1>7
     DEF GitHubNext, Comment, Close, TimePasses, Land, AddPost
<1>8. QED
  BY <1>3, <1>4, <1>7, WorldChanges

LEMMA AskedGrows ==
  ASSUME TypeInv, [Next]_vars
  PROVE  Asked \subseteq Asked'
<1>1. Appended /\ Kept
  BY NothingIsTakenBack
<1>2. ASSUME NEW p \in Prs, ApprovedByCollaborator(p)
      PROVE  ApprovedByCollaborator(p)'
  BY <1>1, <1>2 DEF Appended, ApprovedByCollaborator
<1>3. ASSUME NEW c \in comments, c.asked, c.author \in Collaborators
      PROVE  \E d \in comments' : d.asked /\ d.author \in Collaborators
                                  /\ PingKey(c) = PingKey(d)
  BY <1>1, <1>3 DEF Kept, PingKey
<1>4. QED
  BY <1>2, <1>3 DEF Asked

-----------------------------------------------------------------------------
(***************************************************************************)
(* Where a job comes from.                                                 *)
(***************************************************************************)
(* Steps that change nothing of what AskedInv says of the process.         *)
LEMMA ProcChanges ==
  ASSUME TypeInv, [Next]_vars
  PROVE  /\ pc' \in Granted =>
              \/ pc \in Granted /\ job' = job
              \/ CheckMentioner
              \/ \E u \in Users : CheckApprover(u)
         /\ pc' = "approvals" =>
              \/ pc = "approvals" /\ job' = job /\ revs' = revs
              \/ pc = "approvals" /\ job' = job /\ revs # <<>> /\ revs' = Tail(revs)
              \/ \E p \in Prs : ListReviews(p)
         /\ pc' = "collab" =>
              \/ pc = "collab" /\ UNCHANGED <<job, batch, mem>>
              \/ GetIssueDetail
         /\ batch' \subseteq batch \/ ListComments
         /\ inflight' \subseteq inflight \/ PostLate
<1> USE DEF Granted
<1>1. CASE Start \/ Shutdown
  BY <1>1 DEF Start, Shutdown, Gone, githubVars
<1>2. CASE Outside
  BY <1>2 DEF Outside, Signal, Crash, Wipe, PreflightFails, procVars, Gone,
              githubVars, GitHubNext, Comment, Edit, Review, Close,
              TimePasses, Land
<1>3. ASSUME NEW l \in FailingCalls, CallFails(l)
      PROVE  /\ pc' \in Granted => pc \in Granted /\ job' = job
             /\ pc' \notin {"approvals", "collab"}
             /\ batch' \subseteq batch /\ inflight' = inflight
  <2>1. pc = l /\ FailsAt(l) /\ inflight' = inflight
    BY <1>3 DEF CallFails, Calling, githubVars
  <2>2. GiveUp => /\ pc' \notin Granted \cup {"approvals", "collab"}
                  /\ batch' \subseteq batch
    BY DEF GiveUp
  <2>3. QED
    BY <2>1, <2>2 DEF FailsAt
<1>4. CASE Trouble
  BY <1>3, <1>4 DEF Trouble, CallFatal, Calling, PostUnanswered, PostLate,
                    Gone, GiveUp, githubVars
<1>5. CASE NextTick \/ ListOpenPrs \/ AutoPathDone \/ SkipReview
           \/ NoMoreApprovals \/ (\E p \in Prs : ListReviews(p))
           \/ (\E u \in Users : CheckApprover(u))
  BY <1>5 DEF NextTick, ListOpenPrs, AutoPathDone, SkipReview,
              NoMoreApprovals, ListReviews, CheckApprover, Calling, GiveUp,
              githubVars
<1>6. CASE ListComments \/ SkipComment \/ GetIssueDetail \/ CheckMentioner
           \/ PingPathDone
  BY <1>6 DEF ListComments, SkipComment, GetIssueDetail, CheckMentioner,
              PingPathDone, Decide, githubVars
<1>7. CASE Scan \/ StreamDiff \/ GetPrInfo \/ CollectContext \/ RunReviewer
           \/ PostComment \/ CommitAuto \/ CommitPing
  BY <1>7 DEF Scan, StreamDiff, GetPrInfo, CollectContext, RunReviewer,
              PostComment, CommitAuto, CommitPing, Decide, Calling, githubVars
<1>8. CASE UNCHANGED vars
  BY <1>8 DEF vars, procVars, githubVars
<1>9. QED
  BY <1>1, <1>2, <1>4, <1>5, <1>6, <1>7, <1>8 DEF Next, BotStep, Work

-----------------------------------------------------------------------------
(***************************************************************************)
(* The parts of AskedInv.                                                  *)
(***************************************************************************)
MentionsAsked ==
  \A c \in comments \cup batch : c.author # Bot /\ c.mention => c.asked

LEMMA MentionsAskedStep ==
  ASSUME TypeInv, MentionsAsked, [Next]_vars
  PROVE  MentionsAsked'
<1>0. comments \subseteq Comments
  BY DEF TypeInv, TypeOK
<1>1. batch' \subseteq batch \cup comments
  BY ProcChanges DEF ListComments
<1>2. ASSUME NEW new, comments' \subseteq comments \cup {new},
             new.author = Bot \/ (new.mention => new.asked)
      PROVE  MentionsAsked'
  BY <1>1, <1>2 DEF MentionsAsked
<1>3. CASE UNCHANGED comments
  BY <1>1, <1>3 DEF MentionsAsked
<1>4. ASSUME NEW key, AddPost(key)
      PROVE  MentionsAsked'
  <2> DEFINE post == [id |-> lastId + 1, number |-> key.number, author |-> Bot,
                      updated |-> now, mention |-> FALSE, asked |-> FALSE,
                      key |-> key]
  <2>1. comments' = comments \cup {post} /\ post.author = Bot
    BY <1>4 DEF AddPost
  <2> HIDE DEF post
  <2>2. QED
    BY <1>2, <2>1
<1>5. ASSUME NEW u \in Users, NEW n \in Numbers, NEW m \in BOOLEAN, Comment(u, n, m)
      PROVE  MentionsAsked'
  <2> DEFINE new == [id |-> lastId + 1, number |-> n, author |-> u,
                     updated |-> now, mention |-> m, asked |-> m, key |-> NoKey]
  <2>1. comments' = comments \cup {new} /\ (new.mention => new.asked)
    BY <1>5 DEF Comment
  <2> HIDE DEF new
  <2>2. QED
    BY <1>2, <2>1
<1>6. ASSUME NEW c \in comments, NEW m \in BOOLEAN, Edit(c, m)
      PROVE  MentionsAsked'
  <2> DEFINE new == [c EXCEPT !.updated = now, !.mention = m, !.asked = @ \/ m]
  <2>1. comments' = (comments \ {c}) \cup {new}
    BY <1>6 DEF Edit
  <2>2. new.mention => new.asked
    BY <1>0 DEF Comments
  <2> HIDE DEF new
  <2>3. QED
    BY <1>2, <2>1, <2>2
<1>7. QED
  BY <1>3, <1>4, <1>5, <1>6, WorldChanges
  DEF GitHubNext, Review, Close, TimePasses, Land, PostComment, PostUnanswered

LEMMA TracedStep ==
  ASSUME TypeInv, \A b \in batch : Traced(b), [Next]_vars
  PROVE  \A b \in batch' : Traced(b)'
<1>1. \A b \in batch : Traced(b)'
  BY NothingIsTakenBack DEF Traced, Kept
<1>2. CASE ListComments
  BY <1>2 DEF ListComments, Traced, githubVars
<1>3. QED
  BY <1>1, <1>2, ProcChanges

LEMMA PostsStep ==
  ASSUME TypeInv, AskedInv, [Next]_vars
  PROVE  \A c \in comments' : c.author = Bot => c.key \in Asked' /\ c.number = c.key.number
<1>1. Asked \subseteq Asked'
  BY AskedGrows
<1>2. ASSUME NEW key \in Asked, AddPost(key)
      PROVE  \A c \in comments' : c.author = Bot => c.key \in Asked /\ c.number = c.key.number
  <2> DEFINE post == [id |-> lastId + 1, number |-> key.number, author |-> Bot,
                      updated |-> now, mention |-> FALSE, asked |-> FALSE,
                      key |-> key]
  <2>1. comments' = comments \cup {post} /\ post.key = key /\ post.number = key.number
    BY <1>2 DEF AddPost
  <2> HIDE DEF post
  <2>2. QED
    BY <2>1 DEF AskedInv
<1>3. CASE PostComment \/ PostUnanswered
  BY <1>1, <1>2, <1>3 DEF PostComment, PostUnanswered, Calling, AskedInv, Granted
<1>4. CASE \E key \in inflight : Land(key)
  BY <1>1, <1>2, <1>4 DEF Land, AskedInv
<1>5. CASE ~Posting
  BY <1>1, <1>5, BotCommentsAreOld DEF AskedInv
<1>6. QED
  BY <1>3, <1>4, <1>5 DEF Posting

(* A review that is looked at is one of the pull request's.                *)
LEMMA ReviewsStep ==
  ASSUME TypeInv, pc = "approvals" => FromReviews, [Next]_vars, pc' = "approvals"
  PROVE  FromReviews'
<1>0. reviews \in [Prs -> Seq(Reviews)] /\ revs \in Seq(Reviews)
  BY DEF TypeInv, TypeOK
<1>1. Appended
  BY NothingIsTakenBack
<1>2. ASSUME FromReviews, UNCHANGED <<job, revs>>
      PROVE  FromReviews'
  <2>1. job.number \in Prs
    BY <1>2 DEF FromReviews, TypeInv
  <2>2. QED
    BY <1>1, <1>2, <2>1 DEF FromReviews, Appended
<1>3. ASSUME FromReviews, job' = job, revs # <<>>, revs' = Tail(revs)
      PROVE  FromReviews'
  <2>1. job.number \in Prs
    BY <1>3 DEF FromReviews, TypeInv
  <2>2. \A i \in 1..Len(revs') : revs'[i] = revs[i + 1] /\ i + 1 \in 1..Len(revs)
    BY <1>0, <1>3
  <2>3. QED
    BY <1>1, <1>3, <2>1, <2>2 DEF FromReviews, Appended
<1>4. ASSUME NEW p \in Prs, ListReviews(p)
      PROVE  FromReviews'
  BY <1>4 DEF ListReviews, FromReviews, AutoKey, githubVars
<1>5. QED
  BY <1>2, <1>3, <1>4, ProcChanges

LEMMA GrantedStep ==
  ASSUME TypeInv, AskedInv, [Next]_vars, pc' \in Granted
  PROVE  job' \in Asked'
<1>0. /\ reviews \in [Prs -> Seq(Reviews)] /\ revs \in Seq(Reviews)
      /\ batch \subseteq Comments /\ comments \subseteq Comments
  BY DEF TypeInv, TypeOK
<1>1. Asked \subseteq Asked'
  BY AskedGrows
<1>2. ASSUME NEW u \in Users, CheckApprover(u)
      PROVE  job' \in Asked
  <2>1. /\ pc = "approvals" /\ revs # <<>> /\ Approved(Head(revs))
        /\ u = Head(revs).author /\ job' = job
        /\ u \in Collaborators
    BY <1>2 DEF CheckApprover, Calling, Granted
  <2>2. FromReviews /\ job.number \in Prs /\ job = AutoKey(job.number)
    BY <2>1 DEF AskedInv, FromReviews, TypeInv
  <2>3. 1 \in 1..Len(revs) /\ Head(revs) = revs[1]
    BY <1>0, <2>1
  <2>4. ApprovedByCollaborator(job.number)
    BY <2>1, <2>2, <2>3 DEF FromReviews, Approved, ApprovedByCollaborator
  <2>5. QED
    BY <2>1, <2>2, <2>4 DEF Asked
<1>3. CASE CheckMentioner
  <2>1. PICK c \in batch : IsNext(c) /\ c.author \in Collaborators
    BY <1>3 DEF CheckMentioner, Decide, Granted
  <2>2. PICK d \in batch : IsNext(d) /\ ~Settled(d) /\ job = PingKey(d)
    BY <1>3 DEF CheckMentioner, Calling, AskedInv
  <2>3. c = d
    BY <1>0, <2>1, <2>2 DEF IsNext, Before, Comments
  <2>4. d.asked /\ Traced(d)
    BY <2>2 DEF AskedInv, Settled
  <2>5. PICK e \in comments : /\ e.id = d.id /\ e.number = d.number
                              /\ e.author = d.author /\ e.asked
    BY <2>4 DEF Traced
  <2>6. job = PingKey(e) /\ e.author \in Collaborators
    BY <2>1, <2>2, <2>3, <2>5 DEF PingKey
  <2>7. job' = job
    BY <1>3 DEF CheckMentioner, Decide, Granted
  <2>8. job \in Asked
    BY <2>5, <2>6 DEF Asked
  <2>9. QED
    BY <1>1, <2>7, <2>8
<1>4. QED
  BY <1>1, <1>2, <1>3, ProcChanges DEF AskedInv

LEMMA AskedStep ==
  ASSUME TypeInv, AskedInv, [Next]_vars
  PROVE  AskedInv'
<1>1. MentionsAsked' /\ \A b \in batch' : Traced(b)'
  BY MentionsAskedStep, TracedStep DEF AskedInv, MentionsAsked
<1>2. \A c \in comments' : c.author = Bot => c.key \in Asked' /\ c.number = c.key.number
  BY PostsStep
<1>3. inflight' \subseteq Asked'
  <2>1. CASE PostLate
    BY <2>1, AskedGrows DEF PostLate, Calling, AskedInv, Granted
  <2>2. QED
    BY <2>1, AskedGrows, ProcChanges DEF AskedInv
<1>4. pc' \in Granted => job' \in Asked'
  BY GrantedStep
<1>5. pc' = "approvals" => FromReviews'
  BY ReviewsStep DEF AskedInv
<1>6. (pc = "collab" => \E c \in batch : IsNext(c) /\ ~Settled(c) /\ job = PingKey(c))'
  <2>1. CASE pc = "collab" /\ UNCHANGED <<job, batch, mem>>
    BY <2>1 DEF AskedInv, IsNext, Settled
  <2>2. CASE GetIssueDetail
    BY <2>2 DEF GetIssueDetail, Decide, IsNext, Settled
  <2>3. QED
    BY <2>1, <2>2, ProcChanges
<1>7. QED
  BY <1>1, <1>2, <1>3, <1>4, <1>5, <1>6 DEF AskedInv, MentionsAsked

LEMMA AskedInit == Init => AskedInv
BY DEF Init, GitHubInit, AskedInv, Granted, NoKey

LEMMA AskedIsAnswered == TypeInv /\ AskedInv => PostsAnswerCollaborators
<1> SUFFICES ASSUME TypeInv, AskedInv, NEW c \in comments, c.author = Bot
             PROVE  \/ /\ c.key.source = "auto"
                       /\ ApprovedByCollaborator(c.number)
                    \/ /\ c.key.source = "ping"
                       /\ \E d \in comments : /\ d.id = c.key.trigger
                                              /\ d.number = c.number
                                              /\ d.author \in Collaborators /\ d.asked
  BY DEF PostsAnswerCollaborators, ApprovedByCollaborator
<1>1. c.key \in Asked /\ c.number = c.key.number
  BY DEF AskedInv
<1>2. ASSUME NEW p \in Prs, ApprovedByCollaborator(p), c.key = AutoKey(p)
      PROVE  c.key.source = "auto" /\ ApprovedByCollaborator(c.number)
  BY <1>1, <1>2 DEF AutoKey
<1>3. ASSUME NEW d \in comments, d.asked, d.author \in Collaborators,
             c.key = PingKey(d)
      PROVE  c.key.source = "ping" /\ d.id = c.key.trigger /\ d.number = c.number
  BY <1>1, <1>3 DEF PingKey
<1>4. QED
  BY <1>1, <1>2, <1>3 DEF Asked

(* Whatever fails and whoever comments: the bot posts on nobody's request  *)
(* but a collaborator's (watcher.cpp:154-182, 285-320).                    *)
THEOREM CollaboratorsAsked == Spec => []PostsAnswerCollaborators
<1>1. TypeInv /\ AskedInv /\ [Next]_vars => AskedInv'
  BY AskedStep
<1>2. QED
  BY <1>1, AskedInit, AskedIsAnswered, TypeInvInit, TypeInvStep, PTL DEF Spec
=============================================================================
