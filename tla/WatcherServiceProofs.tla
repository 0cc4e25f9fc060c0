------------------------ MODULE WatcherServiceProofs -----------------------
(***************************************************************************)
(* What Watcher promises over time: it is the service that ReviewService   *)
(* describes, its cursor loses no mention (NoMentionLost, for edits that   *)
(* do not share their second with another comment), and its file only      *)
(* grows (DurableGrows, for a file nobody removes).                        *)
(***************************************************************************)
EXTENDS WatcherProofs

-----------------------------------------------------------------------------
(***************************************************************************)
(* The refinement.                                                         *)
(***************************************************************************)
LEMMA AnsweredIsPosted ==
  ASSUME NEW key
  PROVE  key \in Service!Answered <=> Posts(key) # {}
<1>1. ASSUME NEW c \in comments, c.author = Bot, c.key = key
      PROVE  key \in Service!Answered
  <2> DEFINE a == [id |-> c.id, request |-> c.key]
  <2>1. a \in Answers /\ a.request = key
    BY <1>1 DEF Answers
  <2>2. QED
    BY <2>1 DEF Service!Answered
<1>2. ASSUME key \in Service!Answered
      PROVE  Posts(key) # {}
  <2>1. PICK a \in Answers : a.request = key
    BY <1>2 DEF Service!Answered
  <2>2. PICK c \in comments : c.author = Bot /\ a = [id |-> c.id, request |-> c.key]
    BY DEF Answers
  <2>3. c.key = key
    BY <2>1, <2>2
  <2>4. QED
    BY <2>2, <2>3 DEF Posts
<1>3. QED
  BY <1>1, <1>2 DEF Posts

(* A post is one answer more, to a request that had none.                  *)
LEMMA PostAnswers ==
  ASSUME TypeInv, AskedInv, PostComment \/ PostUnanswered, Posts(job) = {}
  PROVE  Service!Answer
<1> DEFINE post == [id |-> lastId + 1, number |-> job.number, author |-> Bot,
                    updated |-> now, mention |-> FALSE, asked |-> FALSE,
                    key |-> job]
           new  == [id |-> lastId + 1, request |-> job]
<1>1. /\ pc = "post" /\ comments' = comments \cup {post}
      /\ UNCHANGED <<reviews, mem, disk>>
  BY DEF PostComment, PostUnanswered, Calling, AddPost
<1>2. /\ post.author = Bot /\ post.key = job /\ post.id = lastId + 1
      /\ ~post.asked
  OBVIOUS
<1>3. new.request = job
  OBVIOUS
<1> HIDE DEF post
<1>4. Answers' = Answers \cup {new}
  BY <1>1, <1>2 DEF Answers
<1>5. Asked' = Asked
  BY <1>1, <1>2 DEF Asked, ApprovedByCollaborator
<1>6. Noted' = Noted
  BY <1>1 DEF Noted
<1>7. job \in Asked \ Service!Answered
  BY <1>1, AnsweredIsPosted DEF AskedInv, Granted
<1> HIDE DEF new
<1>8. QED
  BY <1>3, <1>4, <1>5, <1>6, <1>7 DEF Service!Answer

LEMMA SameAnswers ==
  ASSUME TypeInv, [Next]_vars, ~Posting
  PROVE  Answers' = Answers
<1>1. \A c \in comments' : c.author = Bot => c \in comments
  BY BotCommentsAreOld
<1>2. ASSUME NEW c \in comments, c.author = Bot
      PROVE  c \in comments'
  <2>1. c.key \in Keys /\ c \in Posts(c.key)
    BY <1>2 DEF TypeInv, TypeOK, Comments, Posts
  <2>2. Posts(c.key) \subseteq {d \in comments' : d.author = Bot /\ d.key = c.key}
    BY <2>1, PostsGrow DEF Posts
  <2>3. QED
    BY <2>1, <2>2
<1>3. QED
  BY <1>1, <1>2 DEF Answers

(* A running process holds all that its file holds.                        *)
HeldInv == pc # "down" => disk.reviewed \subseteq mem.reviewed

LEMMA HeldStep ==
  ASSUME TypeInv, HeldInv, [Next]_vars
  PROVE  HeldInv'
<1>0. mem \in Stores /\ disk \in Stores
  BY DEF TypeInv, TypeOK
<1>1. CASE UNCHANGED <<mem, disk>> /\ pc # "down"
  BY <1>1 DEF HeldInv
<1>2. CASE pc' = "down"
  BY <1>2 DEF HeldInv
<1>3. ASSUME NEW c \in batch, NEW m \in BOOLEAN, Decide(c, m), pc # "down"
      PROVE  HeldInv'
  BY <1>0, <1>3 DEF Decide, Save, HeldInv, Stores
<1>4. CASE SkipComment \/ GetIssueDetail \/ CheckMentioner \/ CommitPing
  BY <1>1, <1>3, <1>4 DEF SkipComment, GetIssueDetail, CheckMentioner,
                          CommitPing, Calling
<1>5. CASE CommitAuto
  BY <1>0, <1>5 DEF CommitAuto, Save, HeldInv, Stores
<1>6. CASE Start
  BY <1>6 DEF Start, HeldInv
<1>7. CASE Shutdown \/ Crash \/ Wipe \/ PreflightFails
  BY <1>2, <1>7 DEF Shutdown, Crash, Wipe, PreflightFails, Gone
<1>8. CASE Signal \/ (GitHubNext /\ UNCHANGED procVars) \/ UNCHANGED vars
  BY <1>8 DEF Signal, procVars, vars, HeldInv
<1>9. ASSUME NEW l \in FailingCalls, CallFails(l)
      PROVE  HeldInv'
  BY <1>1, <1>9 DEF CallFails, Calling, FailingCalls
<1>10. CASE Trouble
  BY <1>1, <1>2, <1>9, <1>10
     DEF Trouble, CallFatal, PostUnanswered, PostLate, Calling, Gone
<1>11. CASE Work
  BY <1>1, <1>4, <1>5, <1>11
     DEF Work, NextTick, ListOpenPrs, AutoPathDone, SkipReview,
         NoMoreApprovals, ListReviews, CheckApprover, ListComments,
         PingPathDone, Scan, StreamDiff, GetPrInfo, CollectContext,
         RunReviewer, PostComment, Calling
<1>12. QED
  BY <1>6, <1>7, <1>8, <1>10, <1>11 DEF Next, BotStep, Outside

LEMMA ServiceStep ==
  ASSUME TypeInv, AskedInv, OnceInv, unsure = {}, ReviewedInv, HeldInv,
         [Next]_vars
  PROVE  [Service!Next]_(Service!vars)
<1>1. CASE PostComment \/ PostUnanswered
  <2>1. Posts(job) = {}
    BY <1>1 DEF PostComment, PostUnanswered, Calling, OnceInv, Dispatching
  <2>2. QED
    BY <1>1, <2>1, PostAnswers DEF Service!Next
<1>2. CASE GitHubNext /\ UNCHANGED procVars /\ ~Posting
  <2>1. Asked \subseteq Asked' /\ Answers' = Answers
    BY <1>2, AskedGrows, SameAnswers
  <2>2. Noted' = Noted
    BY <1>2 DEF Noted, procVars
  <2>3. QED
    BY <2>1, <2>2 DEF Service!Next, Service!Ask
<1>3. CASE UNCHANGED <<comments, reviews>> /\ ~CommitAuto
  <2>1. Asked' = Asked /\ Answers' = Answers
    BY <1>3 DEF Asked, Answers, ApprovedByCollaborator
  <2>2. Noted' \subseteq Noted
    BY <1>3, ReviewedSources DEF Noted
  <2>3. QED
    BY <2>1, <2>2 DEF Service!Next, Service!Forget
<1>4. CASE CommitAuto
  <2>1. UNCHANGED <<comments, reviews>>
    BY <1>4 DEF CommitAuto, githubVars
  <2>2. Asked' = Asked /\ Answers' = Answers
    BY <2>1 DEF Asked, Answers, ApprovedByCollaborator
  <2>3. /\ mem'.reviewed = mem.reviewed \cup {job.number}
        /\ \/ disk'.reviewed = mem.reviewed \cup {job.number}
           \/ disk'.reviewed = disk.reviewed
    BY <1>4 DEF CommitAuto, Save, TypeInv, TypeOK, Stores
  <2>4. job = AutoKey(job.number)
    BY <1>4 DEF CommitAuto, TypeInv
  <2> DEFINE n == job.number
  <2>5. Noted' = Noted \cup {job}
    <3>1. mem'.reviewed \cup disk'.reviewed = (mem.reviewed \cup disk.reviewed) \cup {n}
      BY <1>4, <2>3 DEF HeldInv, CommitAuto
    <3>2. AutoKey(n) = job
      BY <2>4
    <3> HIDE DEF n
    <3>3. QED
      BY <3>1, <3>2 DEF Noted
  <2>6. job \in Service!Answered
    BY <1>4, AnsweredIsPosted DEF CommitAuto, ReviewedInv
  <2>7. QED
    BY <2>2, <2>5, <2>6 DEF Service!Next, Service!Note
<1>5. ~ \E key \in inflight : Land(key)
  BY DEF OnceInv
<1>6. QED
  BY <1>1, <1>2, <1>3, <1>4, <1>5, WorldChanges DEF Posting

LEMMA ServiceInit == Init => Service!Init
BY DEF Init, GitHubInit, Fresh, Service!Init, Asked, Answers, Noted,
       ApprovedByCollaborator

(* With any number of crashes, restarts, failed saves and lost answers,    *)
(* the bot is the service that ReviewService describes, if no POST lands   *)
(* after the client gave it up (watcher.cpp:114-394, main.cpp:65-151).     *)
THEOREM ServiceTheorem ==
  ASSUME "late" \notin Faults
  PROVE  Spec => ImplementsReviewService
<1>1. TypeInv /\ AskedInv /\ [Next]_vars => AskedInv'
  BY AskedStep
<1>2. TypeInv /\ ReviewedInv /\ [Next]_vars => ReviewedInv'
  BY ReviewedStep
<1>3. Init => ReviewedInv
  BY DEF Init, Fresh, ReviewedInv, ReviewedMeansPosted
<1>4. Init => HeldInv
  BY DEF Init, HeldInv
<1>5. TypeInv /\ HeldInv /\ [Next]_vars => HeldInv'
  BY HeldStep
<1>6. Spec => [](AskedInv /\ ReviewedInv /\ HeldInv)
  BY <1>1, <1>2, <1>3, <1>4, <1>5, AskedInit, TypeInvInit, TypeInvStep, PTL DEF Spec
<1>7. TypeInv /\ OnceInv /\ unsure = {} /\ AskedInv /\ ReviewedInv
        /\ HeldInv /\ [Next]_vars => [Service!Next]_(Service!vars)
  BY ServiceStep
<1>8. Spec => [](TypeInv /\ OnceInv /\ unsure = {})
  BY NeverUnsure
<1>9. QED
  BY <1>6, <1>7, <1>8, ServiceInit, PTL DEF Spec, ImplementsReviewService, Service!Spec

-----------------------------------------------------------------------------
(***************************************************************************)
(* The inductive invariant.                                                *)
(***************************************************************************)

(* Ids are given out once and in order, and nothing is stamped ahead.      *)
IdInv ==
  /\ \A c \in comments : c.id > 0 /\ c.id <= lastId /\ c.updated <= now
  /\ \A c, d \in comments : c.id = d.id => c = d

(* A listed comment is still as listed, or it was edited since.            *)
Listed(b) ==
  \E d \in comments :
    /\ d.id = b.id /\ d.number = b.number /\ d.author = b.author
    /\ d = b \/ b.updated < d.updated

(* Every comment behind the cursor is listed, or comes after all of the    *)
(* listed ones: the next one to be decided hides nothing.                  *)
BatchInv ==
  /\ \A b \in batch : Listed(b)
  /\ \A c \in comments :
       Before(mem.cursor, c) => c \in batch \/ \A b \in batch : Before(b, c)

(* A cursor is where some comment is or was, or where a first run put it.  *)
Behind(cursor) ==
  /\ cursor.updated <= now /\ cursor.id <= lastId
  /\ \/ cursor.id = 0
     \/ \E d \in comments : d.id = cursor.id /\ cursor.updated <= d.updated

(* Why a mention needs no further attention.                               *)
Resolved(c) ==
  \/ c.number \notin open
  \/ c.author \notin Collaborators
  \/ Posts(PingKey(c)) # {}

StoreInv ==
  /\ Behind(mem.cursor) /\ Behind(disk.cursor)
  /\ \A i \in mem.handled \cup disk.handled : i <= lastId
  /\ \A c \in comments : c.id \in mem.handled \cup disk.handled => Resolved(c)

(* What the process holds where: nothing when it is down; the comment at   *)
(* hand while it decides; the post when it commits.                        *)
PlaceInv ==
  /\ pc = "down" => mem = Fresh /\ batch = {}
  /\ pc \in JobLocations /\ job.source = "ping" =>
       \E c \in batch : IsNext(c) /\ job = PingKey(c)
  /\ pc = "approvals" => job.source = "auto"
  /\ pc = "commit" => Posts(job) # {}

CoveredInv ==
  \A c \in comments : Wanted(c) =>
    \/ Posts(PingKey(c)) # {}
    \/ Before(mem.cursor, c) /\ Before(disk.cursor, c)

CursorInv == IdInv /\ BatchInv /\ StoreInv /\ PlaceInv /\ CoveredInv

-----------------------------------------------------------------------------
(***************************************************************************)
(* What a step can do, at GitHub and in the process.                       *)
(***************************************************************************)
Still == UNCHANGED <<comments, lastId>> /\ now' >= now /\ open' \subseteq open

Quiet == UNCHANGED <<mem, disk, seed>> /\ (batch' = batch \/ batch' = {})

Added(new) ==
  /\ new.id = lastId + 1 /\ new.updated = now
  /\ comments' = comments \cup {new}
  /\ lastId' = lastId + 1
  /\ UNCHANGED <<now, open>>
  /\ Quiet

Edited(c, m) == Edit(c, m) /\ UNCHANGED procVars

LEMMA AddPostAdds ==
  ASSUME TypeInv, NEW key \in Keys, key.number \in Numbers, AddPost(key),
         UNCHANGED <<now, open>>, Quiet
  PROVE  \E new \in Comments : Added(new)
<1> DEFINE post == [id |-> lastId + 1, number |-> key.number, author |-> Bot,
                    updated |-> now, mention |-> FALSE, asked |-> FALSE,
                    key |-> key]
<1>1. post \in Comments
  BY DEF Comments, TypeInv, TypeOK
<1>2. Added(post)
  BY DEF Added, AddPost
<1>3. QED
  BY <1>1, <1>2

LEMMA WorldSteps ==
  ASSUME TypeInv, [Next]_vars
  PROVE  \/ Still
         \/ \E new \in Comments : Added(new)
         \/ \E c \in comments, m \in BOOLEAN : Edited(c, m)
<1>0. now \in Nat /\ lastId \in Nat /\ job \in Keys
  BY DEF TypeInv, TypeOK
<1>1. ASSUME NEW u \in Users, NEW n \in Numbers, NEW m \in BOOLEAN,
             Comment(u, n, m), UNCHANGED procVars
      PROVE  \E new \in Comments : Added(new)
  <2> DEFINE new == [id |-> lastId + 1, number |-> n, author |-> u,
                     updated |-> now, mention |-> m, asked |-> m, key |-> NoKey]
  <2>1. new \in Comments
    BY <1>0, FreshType DEF Comments
  <2>2. Added(new)
    BY <1>1 DEF Added, Comment, Quiet, procVars
  <2>3. QED
    BY <2>1, <2>2
<1>2. ASSUME NEW key \in inflight, Land(key), UNCHANGED procVars
      PROVE  \E new \in Comments : Added(new)
  <2>1. key \in Keys /\ key.number \in Numbers
    BY DEF TypeInv, TypeOK
  <2>2. Quiet /\ AddPost(key) /\ UNCHANGED <<now, open>>
    BY <1>2 DEF Land, Quiet, procVars
  <2>3. QED
    BY <2>1, <2>2, AddPostAdds
<1>3. CASE PostComment \/ PostUnanswered
  <2>1. pc = "post" /\ AddPost(job) /\ UNCHANGED <<now, open>>
    BY <1>3 DEF PostComment, PostUnanswered, Calling
  <2>2. Quiet
    BY <1>3 DEF PostComment, PostUnanswered, GiveUp, Quiet
  <2>3. job.number \in Numbers
    BY <2>1 DEF TypeInv, JobLocations
  <2>4. QED
    BY <1>0, <2>1, <2>2, <2>3, AddPostAdds
<1>4. CASE GitHubNext /\ UNCHANGED procVars
  <2>1. ASSUME NEW u \in Users, NEW p \in Prs,
               NEW r \in {"APPROVED", "COMMENTED"}, Review(u, p, r)
        PROVE  Still
    BY <1>0, <2>1 DEF Review, Still
  <2>2. ASSUME NEW p \in Prs, Close(p)
        PROVE  Still
    BY <1>0, <2>2 DEF Close, Still
  <2>3. CASE TimePasses
    BY <1>0, <2>3 DEF TimePasses, Still
  <2>4. QED
    BY <1>1, <1>2, <1>4, <2>1, <2>2, <2>3 DEF GitHubNext, Edited
<1>5. CASE UNCHANGED <<comments, lastId, now, open>>
  BY <1>0, <1>5 DEF Still
<1>6. CASE Start \/ Shutdown \/ Signal \/ Crash \/ Wipe \/ PreflightFails
  BY <1>5, <1>6 DEF Start, Shutdown, Signal, Crash, Wipe, PreflightFails,
                    githubVars
<1>7. CASE Trouble
  BY <1>3, <1>5, <1>7
     DEF Trouble, CallFails, CallFatal, PostLate, githubVars
<1>8. CASE Work
  BY <1>3, <1>5, <1>8
     DEF Work, NextTick, ListOpenPrs, AutoPathDone, SkipReview,
         NoMoreApprovals, ListReviews, CheckApprover, ListComments,
         SkipComment, GetIssueDetail, CheckMentioner, PingPathDone, Scan,
         StreamDiff, GetPrInfo, CollectContext, RunReviewer, CommitAuto,
         CommitPing, githubVars
<1>9. CASE UNCHANGED vars
  BY <1>5, <1>9 DEF vars, githubVars
<1>10. QED
  BY <1>4, <1>6, <1>7, <1>8, <1>9 DEF Next, BotStep, Outside

(* A comment is decided, for a reason that is true.                        *)
Deciding(c, m) ==
  /\ c \in batch /\ IsNext(c)
  /\ Decide(c, m)
  /\ UNCHANGED githubVars
  /\ IF m THEN Resolved(c) ELSE Settled(c)

Dying == Gone /\ disk' \in {mem, disk} /\ UNCHANGED githubVars

Starting ==
  /\ pc = "down" /\ UNCHANGED githubVars
  /\ batch' = batch
  /\ \/ /\ mem' \in {mem, Loaded} /\ disk' = Loaded
        /\ seed' = IF FirstRun THEN Loaded.cursor ELSE seed
     \/ mem' = mem /\ disk' = Fresh /\ seed' = seed

(* Only one comment is next.                                               *)
LEMMA NextIsUnique ==
  ASSUME TypeInv, NEW c \in batch, NEW d \in batch, IsNext(c), IsNext(d)
  PROVE  c = d
<1>1. c \in Comments /\ d \in Comments
  BY DEF TypeInv, TypeOK
<1>2. QED
  BY <1>1 DEF IsNext, Before, Comments

LEMMA ProcSteps ==
  ASSUME TypeInv, PlaceInv, [Next]_vars
  PROVE  \/ Quiet
         \/ ListComments \/ CommitAuto \/ Dying \/ Starting
         \/ \E c \in batch, m \in BOOLEAN : Deciding(c, m)
<1>1. CASE Start \/ Wipe \/ PreflightFails
  BY <1>1 DEF Start, Wipe, PreflightFails, Starting
<1>2. CASE Shutdown \/ Crash
  BY <1>2 DEF Shutdown, Crash, Dying, Save
<1>3. CASE Signal \/ (GitHubNext /\ UNCHANGED procVars) \/ UNCHANGED vars
  BY <1>3 DEF Signal, procVars, vars, Quiet
<1>4. ASSUME NEW l \in FailingCalls, CallFails(l)
      PROVE  Quiet
  BY <1>4 DEF CallFails, FailsAt, GiveUp, Quiet
<1>5. CASE Trouble
  BY <1>4, <1>5 DEF Trouble, CallFatal, PostUnanswered,
                    PostLate, GiveUp, Dying, Save, Quiet
<1>6. CASE SkipComment
  <2>1. PICK c \in batch : IsNext(c) /\ Settled(c) /\ Decide(c, FALSE)
    BY <1>6 DEF SkipComment
  <2>2. Deciding(c, FALSE)
    BY <1>6, <2>1 DEF SkipComment, Deciding
  <2>3. QED
    BY <2>2
<1>7. CASE GetIssueDetail
  <2>1. PICK c \in batch :
          /\ IsNext(c)
          /\ \/ UNCHANGED <<mem, disk, batch, seed>>
             \/ c.number \notin open /\ Decide(c, TRUE)
    BY <1>7 DEF GetIssueDetail
  <2>2. CASE c.number \notin open /\ Decide(c, TRUE)
    <3>1. Deciding(c, TRUE)
      BY <1>7, <2>1, <2>2 DEF GetIssueDetail, Deciding, Resolved
    <3>2. QED
      BY <3>1
  <2>3. QED
    BY <2>1, <2>2 DEF Quiet
<1>8. CASE CheckMentioner
  <2>1. PICK c \in batch :
          /\ IsNext(c)
          /\ \/ UNCHANGED <<mem, disk, batch, seed>>
             \/ c.author \notin Collaborators /\ Decide(c, TRUE)
    BY <1>8 DEF CheckMentioner
  <2>2. CASE c.author \notin Collaborators /\ Decide(c, TRUE)
    <3>1. Deciding(c, TRUE)
      BY <1>8, <2>1, <2>2 DEF CheckMentioner, Deciding, Resolved
    <3>2. QED
      BY <3>1
  <2>3. QED
    BY <2>1, <2>2 DEF Quiet
<1>9. CASE CommitPing
  <2>1. PICK c \in batch : IsNext(c) /\ Decide(c, TRUE)
    BY <1>9 DEF CommitPing
  <2>2. PICK d \in batch : IsNext(d) /\ job = PingKey(d)
    BY <1>9 DEF CommitPing, PlaceInv, JobLocations
  <2>3. Resolved(c)
    BY <1>9, <2>1, <2>2, NextIsUnique DEF CommitPing, PlaceInv, Resolved
  <2>4. Deciding(c, TRUE)
    BY <1>9, <2>1, <2>3 DEF CommitPing, Deciding
  <2>5. QED
    BY <2>4
<1>10. CASE Work
  BY <1>6, <1>7, <1>8, <1>9, <1>10
     DEF Work, NextTick, ListOpenPrs, AutoPathDone, SkipReview,
         NoMoreApprovals, ListReviews, CheckApprover, PingPathDone, Scan,
         StreamDiff, GetPrInfo, CollectContext, RunReviewer, PostComment,
         GiveUp, Quiet
<1>11. QED
  BY <1>1, <1>2, <1>3, <1>5, <1>10 DEF Next, BotStep, Outside

-----------------------------------------------------------------------------
(***************************************************************************)
(* Each part of the invariant is kept.                                     *)
(***************************************************************************)
LEMMA IdStep ==
  ASSUME TypeInv, IdInv, [Next]_vars
  PROVE  IdInv'
<1>0. /\ now \in Nat /\ lastId \in Nat /\ comments \subseteq Comments
      /\ now' \in Nat
  BY TypeInvStep DEF TypeInv, TypeOK
<1>1. CASE Still
  BY <1>0, <1>1 DEF Still, IdInv, Comments
<1>2. ASSUME NEW new \in Comments, Added(new)
      PROVE  IdInv'
  BY <1>0, <1>2 DEF Added, IdInv, Comments
<1>3. ASSUME NEW c \in comments, NEW m \in BOOLEAN, Edited(c, m)
      PROVE  IdInv'
  <2> DEFINE new == [c EXCEPT !.updated = now, !.mention = m, !.asked = @ \/ m]
  <2>1. c \in Comments
    BY <1>0
  <2>2. new.id = c.id /\ new.updated = now
    BY <2>1 DEF Comments
  <2>3. comments' = (comments \ {c}) \cup {new} /\ UNCHANGED <<lastId, now>>
    BY <1>3 DEF Edited, Edit
  <2> HIDE DEF new
  <2>4. QED
    BY <1>0, <2>2, <2>3 DEF IdInv, Comments
<1>4. QED
  BY <1>1, <1>2, <1>3, WorldSteps

(* An edit leaves one comment, and it alone has the current time.          *)
LEMMA EditEffect ==
  ASSUME TypeInv, IdInv, "tieEdit" \notin Faults,
         NEW c \in comments, NEW m \in BOOLEAN, Edited(c, m)
  PROVE  \E new \in Comments :
           /\ new.id = c.id /\ new.number = c.number
           /\ new.author = c.author /\ new.key = c.key /\ new.updated = now
           /\ comments' = (comments \ {c}) \cup {new}
           /\ \A d \in comments : d.updated < now
           /\ UNCHANGED <<lastId, now, open, procVars>>
<1> DEFINE new == [c EXCEPT !.updated = now, !.mention = m, !.asked = @ \/ m]
<1>1. c \in Comments /\ now \in Nat
  BY DEF TypeInv, TypeOK
<1>2. /\ new.id = c.id /\ new.number = c.number
      /\ new.author = c.author /\ new.key = c.key /\ new.updated = now
      /\ new \in Comments
  BY <1>1 DEF Comments
<1>3. /\ comments' = (comments \ {c}) \cup {new}
      /\ \A d \in comments : d.updated < now
      /\ UNCHANGED <<lastId, now, open, procVars>>
  BY DEF Edited, Edit
<1> HIDE DEF new
<1>4. QED
  BY <1>2, <1>3

LEMMA ListedKept ==
  ASSUME TypeInv, IdInv, "tieEdit" \notin Faults, [Next]_vars,
         NEW b \in Comments, Listed(b)
  PROVE  \E d \in comments' :
           /\ d.id = b.id /\ d.number = b.number /\ d.author = b.author
           /\ d = b \/ b.updated < d.updated
<1>0. comments \subseteq Comments /\ now \in Nat
  BY DEF TypeInv, TypeOK
<1>1. PICK d \in comments :
        /\ d.id = b.id /\ d.number = b.number /\ d.author = b.author
        /\ d = b \/ b.updated < d.updated
  BY DEF Listed
<1>2. CASE d \in comments'
  BY <1>1, <1>2
<1>3. ASSUME NEW c \in comments, NEW m \in BOOLEAN, Edited(c, m)
      PROVE  \E e \in comments' :
               /\ e.id = b.id /\ e.number = b.number /\ e.author = b.author
               /\ e = b \/ b.updated < e.updated
  <2>1. PICK new \in Comments :
          /\ new.id = c.id /\ new.number = c.number
          /\ new.author = c.author /\ new.updated = now
          /\ comments' = (comments \ {c}) \cup {new}
          /\ \A e \in comments : e.updated < now
    BY <1>3, EditEffect
  <2>2. CASE d = c
    <3>1. b.updated < new.updated
      BY <1>0, <1>1, <2>1, <2>2 DEF Comments
    <3>2. QED
      BY <1>1, <2>1, <2>2, <3>1
  <2>3. QED
    BY <1>2, <2>1, <2>2
<1>4. QED
  BY <1>2, <1>3, WorldSteps DEF Still, Added

(* What a decision does to the cursor.                                     *)
LEMMA AdvancedOver ==
  ASSUME NEW cursor \in Cursors, NEW c \in Comments
  PROVE  /\ Advanced(cursor, c) \in Cursors
         /\ ~Before(Advanced(cursor, c), c)
         /\ \A d \in Comments : Before(Advanced(cursor, c), d)
                                => Before(cursor, d) /\ Before(c, d)
         /\ \A d \in Comments : Before(cursor, d) /\ Before(c, d)
                                => Before(Advanced(cursor, c), d)
         /\ ~Before(Advanced(cursor, c), cursor)
BY DEF Advanced, Before, Cursors, Comments

LEMMA BatchStep ==
  ASSUME TypeInv, IdInv, BatchInv, PlaceInv, "tieEdit" \notin Faults,
         [Next]_vars
  PROVE  BatchInv'
<1>0. /\ comments \subseteq Comments /\ batch \subseteq Comments
      /\ now \in Nat /\ lastId \in Nat /\ mem.cursor \in Cursors
      /\ comments' \subseteq Comments
  BY TypeInvStep DEF TypeInv, TypeOK, Stores
<1>1. \A b \in batch : Listed(b)'
  BY <1>0, ListedKept DEF BatchInv, Listed
<1>2. ASSUME Quiet
      PROVE  BatchInv'
  <2>1. CASE batch' = {}
    BY <2>1 DEF BatchInv
  <2>2. ASSUME batch' = batch, NEW c \in comments', Before(mem.cursor, c)
        PROVE  c \in batch \/ \A b \in batch : Before(b, c)
    <3>1. CASE c \in comments
      BY <2>2, <3>1 DEF BatchInv
    <3>2. ASSUME NEW new \in Comments, Added(new), c = new
          PROVE  \A b \in batch : Before(b, c)
      BY <1>0, <3>2 DEF Added, BatchInv, Listed, IdInv, Before, Comments
    <3>3. ASSUME NEW e \in comments, NEW m \in BOOLEAN, Edited(e, m),
                 c \notin comments
          PROVE  \A b \in batch : Before(b, c)
      <4>1. c.updated = now /\ \A d \in comments : d.updated < now
        BY <3>3, EditEffect
      <4>2. QED
        BY <1>0, <4>1 DEF BatchInv, Listed, Before, Comments
    <3>4. QED
      BY <3>1, <3>2, <3>3, WorldSteps DEF Still, Added
  <2>3. QED
    BY <1>1, <1>2, <2>1, <2>2 DEF BatchInv, Quiet
<1>3. CASE ListComments
  <2>1. /\ batch' = {c \in comments : c.updated >= mem.cursor.updated}
        /\ UNCHANGED <<comments, mem>>
    BY <1>3 DEF ListComments, githubVars
  <2>2. \A b \in batch' : Listed(b)'
    BY <2>1 DEF Listed
  <2>3. \A c \in comments : Before(mem.cursor, c) => c \in batch'
    BY <1>0, <2>1 DEF Before, Cursors, Comments
  <2>4. QED
    BY <2>1, <2>2, <2>3 DEF BatchInv
<1>4. CASE CommitAuto
  <2>1. UNCHANGED <<comments, batch>> /\ mem'.cursor = mem.cursor
    BY <1>4 DEF CommitAuto, githubVars, TypeInv, TypeOK, Stores
  <2>2. QED
    BY <1>1, <2>1 DEF BatchInv
<1>5. CASE Dying \/ Starting
  <2>1. batch' = {}
    BY <1>5 DEF Dying, Gone, Starting, PlaceInv
  <2>2. QED
    BY <2>1 DEF BatchInv
<1>6. ASSUME NEW c \in batch, NEW m \in BOOLEAN, Deciding(c, m)
      PROVE  BatchInv'
  <2>1. /\ batch' = batch \ {c} /\ UNCHANGED comments
        /\ mem'.cursor = Advanced(mem.cursor, c)
    BY <1>6 DEF Deciding, Decide, githubVars, TypeInv, TypeOK, Stores
  <2>2. ASSUME NEW d \in comments, Before(mem'.cursor, d)
        PROVE  d \in batch' \/ \A b \in batch' : Before(b, d)
    <3>1. Before(mem.cursor, d) /\ d # c
      BY <1>0, <2>1, <2>2, AdvancedOver
    <3>2. QED
      BY <2>1, <3>1 DEF BatchInv
  <2>3. QED
    BY <1>1, <2>1, <2>2 DEF BatchInv
<1>7. QED
  BY <1>2, <1>3, <1>4, <1>5, <1>6, ProcSteps

(* A cursor stays behind the stream, whatever happens at GitHub.           *)
LEMMA BehindKept ==
  ASSUME TypeInv, IdInv, "tieEdit" \notin Faults, [Next]_vars,
         NEW k \in Cursors, Behind(k)
  PROVE  /\ k.updated <= now' /\ k.id <= lastId'
         /\ k.id = 0 \/ \E d \in comments' : d.id = k.id /\ k.updated <= d.updated
<1>0. /\ comments \subseteq Comments /\ now \in Nat /\ lastId \in Nat
      /\ now' \in Nat
  BY TypeInvStep DEF TypeInv, TypeOK
<1>1. CASE Still
  BY <1>0, <1>1 DEF Still, Behind, Cursors
<1>2. ASSUME NEW new \in Comments, Added(new)
      PROVE  /\ k.updated <= now' /\ k.id <= lastId'
             /\ k.id = 0 \/ \E d \in comments' : d.id = k.id /\ k.updated <= d.updated
  BY <1>0, <1>2 DEF Added, Behind, Cursors
<1>3. ASSUME NEW c \in comments, NEW m \in BOOLEAN, Edited(c, m)
      PROVE  /\ k.updated <= now' /\ k.id <= lastId'
             /\ k.id = 0 \/ \E d \in comments' : d.id = k.id /\ k.updated <= d.updated
  <2>1. PICK new \in Comments :
          /\ new.id = c.id /\ new.updated = now
          /\ comments' = (comments \ {c}) \cup {new}
          /\ UNCHANGED <<lastId, now>>
    BY <1>3, EditEffect
  <2>2. QED
    BY <1>0, <2>1 DEF Behind, Cursors, Comments
<1>4. QED
  BY <1>1, <1>2, <1>3, WorldSteps

(* A resolved mention stays resolved: pull requests are not reopened here, *)
(* and a post is for ever.                                                 *)
LEMMA ResolvedKept ==
  ASSUME TypeInv, [Next]_vars, NEW c \in Comments, Resolved(c)
  PROVE  Resolved(c)'
<1>1. PingKey(c) \in Keys
  BY NumbersAssumption DEF PingKey, Keys, Comments, Numbers
<1>2. Posts(PingKey(c)) \subseteq Posts(PingKey(c))'
  BY <1>1, PostsGrow
<1>3. open' \subseteq open
  BY WorldSteps DEF Still, Added, Edited, Edit
<1>4. QED
  BY <1>2, <1>3 DEF Resolved

(* The comments of the next state: an old one, a new one, or an edited one *)
(* that differs from an old one in its time and in what it says.           *)
LEMMA CommentSources ==
  ASSUME TypeInv, IdInv, "tieEdit" \notin Faults, [Next]_vars,
         NEW c \in comments'
  PROVE  \/ c \in comments
         \/ c.id = lastId + 1 /\ c.updated = now /\ Quiet
         \/ /\ \E d \in comments : /\ d.id = c.id /\ d.number = c.number
                                  /\ d.author = c.author
            /\ c.updated = now /\ UNCHANGED procVars
            /\ \A d \in comments : d.updated < now
<1>1. ASSUME NEW e \in comments, NEW m \in BOOLEAN, Edited(e, m),
             c \notin comments
      PROVE  /\ \E d \in comments : /\ d.id = c.id /\ d.number = c.number
                                   /\ d.author = c.author
             /\ c.updated = now /\ UNCHANGED procVars
             /\ \A d \in comments : d.updated < now
  BY <1>1, EditEffect
<1>2. QED
  BY <1>1, WorldSteps DEF Still, Added

(* The stores of the next state, one at a time.                            *)
LEMMA StoreSources ==
  ASSUME TypeInv, PlaceInv, [Next]_vars, NEW s \in {mem', disk'}
  PROVE  \/ \E t \in {mem, disk, Fresh} : s.handled = t.handled /\ s.cursor = t.cursor
         \/ /\ Starting /\ FirstRun /\ s.handled = disk.handled
            /\ s.cursor = [updated |-> now - SeedLag, id |-> 0]
            /\ seed' = s.cursor
         \/ \E c \in batch, m \in BOOLEAN :
              /\ Deciding(c, m)
              /\ s.handled = IF m THEN mem.handled \cup {c.id} ELSE mem.handled
              /\ s.cursor = Advanced(mem.cursor, c)
<1>0. mem \in Stores /\ disk \in Stores
  BY DEF TypeInv, TypeOK
<1>1. CASE Quiet \/ ListComments \/ Dying
  BY <1>1 DEF Quiet, ListComments, Dying, Gone
<1>2. CASE CommitAuto
  BY <1>0, <1>2 DEF CommitAuto, Save, Stores
<1>3. CASE Starting
  <2>1. s \in {mem, Loaded, Fresh}
    BY <1>3 DEF Starting
  <2>2. CASE s = Loaded /\ FirstRun
    <3>1. /\ s.handled = disk.handled
          /\ s.cursor = [updated |-> now - SeedLag, id |-> 0]
      BY <1>0, <2>2 DEF Loaded, Stores
    <3>2. seed' = s.cursor \/ s = mem \/ s = Fresh
      BY <1>3, <2>2 DEF Starting
    <3>3. QED
      BY <1>3, <2>2, <3>1, <3>2
  <2>3. CASE s = Loaded /\ ~FirstRun
    BY <1>0, <2>3 DEF Loaded
  <2>4. QED
    BY <2>1, <2>2, <2>3
<1>4. ASSUME NEW c \in batch, NEW m \in BOOLEAN, Deciding(c, m)
      PROVE  \/ s.handled = disk.handled /\ s.cursor = disk.cursor
             \/ /\ s.handled = IF m THEN mem.handled \cup {c.id} ELSE mem.handled
                /\ s.cursor = Advanced(mem.cursor, c)
  BY <1>0, <1>4 DEF Deciding, Decide, Save, Stores
<1>5. QED
  BY <1>1, <1>2, <1>3, <1>4, ProcSteps

LEMMA StoreStep ==
  ASSUME TypeInv, IdInv, BatchInv, PlaceInv, StoreInv,
         "tieEdit" \notin Faults, [Next]_vars
  PROVE  StoreInv'
<1>0. /\ mem \in Stores /\ disk \in Stores /\ comments \subseteq Comments
      /\ now \in Nat /\ lastId \in Nat /\ batch \subseteq Comments
      /\ now' \in Nat /\ lastId' \in Nat /\ SeedLag \in Nat /\ now > SeedLag
  BY TypeInvStep, BoundsAssumption DEF TypeInv, TypeOK
<1>1. lastId <= lastId'
  <2>1. lastId' = lastId \/ lastId' = lastId + 1
    BY WorldSteps DEF Still, Added, Edited, Edit
  <2>2. QED
    BY <1>0, <2>1
<1> DEFINE StoreKept(s) ==
      /\ s.cursor.updated <= now' /\ s.cursor.id <= lastId'
      /\ \/ s.cursor.id = 0
         \/ \E d \in comments' : /\ d.id = s.cursor.id
                               /\ s.cursor.updated <= d.updated
      /\ \A i \in s.handled : i <= lastId'
      /\ \A c \in comments' : c.id \in s.handled => Resolved(c)'
<1>2. ASSUME NEW s \in {mem', disk'}
      PROVE  StoreKept(s)
  <2>1. ASSUME NEW t \in {mem, disk}, s.handled = t.handled, s.cursor = t.cursor
        PROVE  StoreKept(s)
    <3>1. t.cursor \in Cursors /\ Behind(t.cursor)
      BY <1>0 DEF Stores, StoreInv
    <3>2. \A i \in t.handled : i \in Nat /\ i <= lastId
      BY <1>0 DEF Stores, StoreInv
    <3>3. ASSUME NEW c \in comments', c.id \in t.handled
          PROVE  Resolved(c)'
      <4>1. CASE c \in comments
        BY <1>0, <3>3, <4>1, ResolvedKept DEF StoreInv
      <4>2. CASE c.id = lastId + 1
        BY <1>0, <3>2, <3>3, <4>2
      <4>3. ASSUME NEW d \in comments, d.id = c.id, d.number = c.number,
                   d.author = c.author
            PROVE  Resolved(c)'
        <5>1. Resolved(d)'
          BY <1>0, <3>3, <4>3, ResolvedKept DEF StoreInv
        <5>2. PingKey(d) = PingKey(c)
          BY <4>3 DEF PingKey
        <5>3. QED
          BY <4>3, <5>1, <5>2 DEF Resolved, Posts
      <4>4. QED
        BY <4>1, <4>2, <4>3, CommentSources
    <3>4. QED
      BY <1>0, <1>1, <2>1, <3>1, <3>2, <3>3, BehindKept
  <2>2. CASE s.handled = Fresh.handled /\ s.cursor = Fresh.cursor
    BY <1>0, <2>2 DEF Fresh
  <2>3. CASE /\ Starting /\ s.handled = disk.handled
             /\ s.cursor = [updated |-> now - SeedLag, id |-> 0]
    <3>1. UNCHANGED <<comments, lastId, now, open>>
      BY <2>3 DEF Starting, githubVars
    <3>2. s.cursor.updated <= now' /\ s.cursor.id = 0
      BY <1>0, <2>3, <3>1
    <3>3. \A c \in comments' : c.id \in s.handled => Resolved(c)'
      BY <1>0, <2>3, <3>1, ResolvedKept DEF StoreInv
    <3>4. \A i \in s.handled : i <= lastId'
      BY <2>3, <3>1 DEF StoreInv
    <3>5. QED
      BY <1>0, <3>2, <3>3, <3>4
  <2>4. ASSUME NEW c \in batch, NEW m \in BOOLEAN, Deciding(c, m),
               s.handled = IF m THEN mem.handled \cup {c.id} ELSE mem.handled,
               s.cursor = Advanced(mem.cursor, c)
        PROVE  StoreKept(s)
    <3>1. UNCHANGED <<comments, lastId, now, open>>
      BY <2>4 DEF Deciding, githubVars
    <3>2. PICK e \in comments :
            /\ e.id = c.id /\ e.number = c.number /\ e.author = c.author
            /\ e = c \/ c.updated < e.updated
      BY DEF BatchInv, Listed
    <3>3. c.updated <= e.updated /\ e.updated <= now /\ c.id <= lastId
      BY <1>0, <3>2 DEF IdInv, Comments
    <3>4. \/ s.cursor = mem.cursor
          \/ s.cursor.updated = c.updated /\ s.cursor.id = c.id
      BY <2>4 DEF Advanced
    <3>5. /\ s.cursor.updated <= now' /\ s.cursor.id <= lastId'
          /\ \/ s.cursor.id = 0
             \/ \E d \in comments' : /\ d.id = s.cursor.id
                                   /\ s.cursor.updated <= d.updated
      BY <1>0, <3>1, <3>2, <3>3, <3>4 DEF StoreInv, Behind, Comments
    <3>6. ASSUME NEW d \in comments, d.id \in s.handled
          PROVE  Resolved(d)
      <4>1. CASE d.id \in mem.handled
        BY <4>1 DEF StoreInv
      <4>2. CASE m /\ d.id = c.id
        <5>1. d = e /\ PingKey(d) = PingKey(c)
          BY <3>2, <4>2 DEF IdInv, PingKey
        <5>2. QED
          BY <2>4, <3>2, <4>2, <5>1 DEF Deciding, Resolved
      <4>3. QED
        BY <2>4, <3>6, <4>1, <4>2
    <3>7. \A d \in comments' : d.id \in s.handled => Resolved(d)'
      BY <1>0, <3>1, <3>6, ResolvedKept
    <3>8. \A i \in s.handled : i <= lastId'
      BY <2>4, <3>1, <3>3 DEF StoreInv
    <3>9. QED
      BY <3>5, <3>7, <3>8
  <2>5. QED
    BY <2>1, <2>2, <2>3, <2>4, StoreSources
<1>3. QED
  BY <1>2 DEF StoreInv, Behind

LEMMA PlaceStep ==
  ASSUME TypeInv, PlaceInv, [Next]_vars
  PROVE  PlaceInv'
<1>1. (pc = "commit" => Posts(job) # {})'
  BY PostedAtCommit DEF PlaceInv
<1> DEFINE Down == pc = "down" => mem = Fresh /\ batch = {}
           AutoJob == pc = "approvals" => job.source = "auto"
           AtHand == pc \in JobLocations /\ job.source = "ping" =>
                       \E c \in batch : IsNext(c) /\ job = PingKey(c)
<1>2. Down /\ AutoJob /\ AtHand
  BY DEF PlaceInv
<1> SUFFICES (Down /\ AutoJob /\ AtHand)'
  BY <1>1 DEF PlaceInv
<1> USE DEF JobLocations
<1>3. CASE Start \/ Wipe \/ PreflightFails \/ Shutdown \/ Crash
  BY <1>2, <1>3 DEF Start, Wipe, PreflightFails, Shutdown, Crash, Gone, IsNext
<1>4. CASE Signal \/ (GitHubNext /\ UNCHANGED procVars) \/ UNCHANGED vars
  BY <1>2, <1>4 DEF Signal, procVars, vars, IsNext
<1>5. ASSUME GiveUp, UNCHANGED <<mem>>
      PROVE  (Down /\ AutoJob /\ AtHand)'
  BY <1>2, <1>5 DEF GiveUp
<1>6. ASSUME NEW l \in FailingCalls, CallFails(l)
      PROVE  (Down /\ AutoJob /\ AtHand)'
  <2>1. pc = l /\ FailsAt(l) /\ UNCHANGED mem
    BY <1>6 DEF CallFails, Calling
  <2>2. CASE ~GiveUp
    BY <1>2, <2>1, <2>2 DEF FailsAt, IsNext
  <2>3. QED
    BY <1>5, <2>1, <2>2
<1>7. CASE Trouble
  BY <1>2, <1>5, <1>6, <1>7
     DEF Trouble, CallFatal, Calling, PostUnanswered, PostLate,
         Gone, IsNext
<1>8. ASSUME NEW c \in batch, NEW m \in BOOLEAN, Decide(c, m)
      PROVE  (Down /\ AutoJob /\ AtHand)'
  BY <1>8 DEF Decide
<1>9. CASE NextTick \/ ListOpenPrs \/ AutoPathDone \/ SkipReview
           \/ NoMoreApprovals \/ (\E p \in Prs : ListReviews(p))
           \/ (\E u \in Users : CheckApprover(u))
  BY <1>2, <1>5, <1>9
     DEF NextTick, ListOpenPrs, AutoPathDone, SkipReview, NoMoreApprovals,
         ListReviews, CheckApprover, Calling, AutoKey, IsNext
<1>10. CASE ListComments \/ SkipComment \/ PingPathDone \/ CommitAuto
            \/ CommitPing
  BY <1>2, <1>8, <1>10 DEF ListComments, SkipComment, PingPathDone, CommitAuto,
                     CommitPing
<1>11. CASE GetIssueDetail
  BY <1>2, <1>8, <1>11 DEF GetIssueDetail, IsNext
<1>12. CASE CheckMentioner
  BY <1>2, <1>8, <1>12 DEF CheckMentioner, Calling, IsNext
<1>13. CASE Scan \/ StreamDiff \/ GetPrInfo \/ CollectContext \/ RunReviewer
            \/ PostComment
  BY <1>2, <1>13 DEF Scan, StreamDiff, GetPrInfo, CollectContext, RunReviewer,
                     PostComment, Calling, IsNext
<1>14. QED
  BY <1>3, <1>4, <1>7, <1>9, <1>10, <1>11, <1>12, <1>13
     DEF Next, BotStep, Outside, Work

(* A new first run pins the cursor it writes down.                         *)
LEMMA SeedMoves ==
  ASSUME TypeInv, PlaceInv, [Next]_vars
  PROVE  seed' = seed \/ \A s \in {mem', disk'} : s.cursor \in {seed', Fresh.cursor}
<1>1. CASE Starting
  BY <1>1 DEF Starting, PlaceInv
<1>2. CASE ~Starting
  BY <1>2, ProcSteps DEF Quiet, ListComments, CommitAuto, Dying, Gone, Deciding,
                   Decide
<1>3. QED
  BY <1>1, <1>2

LEMMA CoveredStep ==
  ASSUME TypeInv, CursorInv, "tieEdit" \notin Faults, [Next]_vars
  PROVE  CoveredInv'
<1> USE DEF CursorInv
<1>0. /\ mem \in Stores /\ disk \in Stores /\ comments \subseteq Comments
      /\ comments' \subseteq Comments /\ batch \subseteq Comments
      /\ now \in Nat /\ lastId \in Nat
  BY TypeInvStep DEF TypeInv, TypeOK
<1>1. ASSUME NEW c \in comments', Wanted(c)', Posts(PingKey(c))' = {},
             NEW s \in {mem', disk'}
      PROVE  Before(s.cursor, c)
  <2>0. /\ c \in Comments /\ c.mention /\ c.author \in Collaborators
        /\ c.number \in open' /\ Before(seed', c) /\ c.id > 0
    BY <1>0, <1>1, IdStep DEF Wanted, IdInv
  <2>1. Before(Fresh.cursor, c)
    BY <2>0 DEF Before, Fresh, Comments
  <2>2. CASE s.cursor \in {seed', Fresh.cursor}
    BY <2>0, <2>1, <2>2
  <2>3. CASE c \in comments /\ seed' = seed
    <3>1. ~Resolved(c)
      BY <1>1, <2>0, ResolvedKept DEF Resolved
    <3>2. Before(mem.cursor, c) /\ Before(disk.cursor, c)
      BY <2>0, <2>3, <3>1 DEF CoveredInv, Resolved, Wanted
    <3>3. ASSUME NEW e \in batch, NEW m \in BOOLEAN, Deciding(e, m),
                 s.cursor = Advanced(mem.cursor, e)
          PROVE  Before(s.cursor, c)
      <4>1. c # e
        <5>1. m => Resolved(e)
          BY <3>3 DEF Deciding
        <5>2. ~m => Settled(e)
          BY <3>3 DEF Deciding
        <5>3. c = e => ~Settled(e)
          BY <2>0, <2>3, <3>1, <3>2, UsersAssumption DEF Settled, StoreInv
        <5>4. QED
          BY <3>1, <5>1, <5>2, <5>3
      <4>2. Before(e, c)
        BY <2>3, <3>2, <3>3, <4>1 DEF BatchInv, Deciding, IsNext
      <4>3. QED
        BY <1>0, <2>0, <3>2, <3>3, <4>2, AdvancedOver DEF Stores
    <3>4. QED
      BY <2>1, <2>2, <3>2, <3>3, StoreSources
  <2>4. CASE c.id = lastId + 1 /\ c.updated = now /\ Quiet
    BY <1>0, <1>1, <2>4 DEF Quiet, StoreInv, Behind, Before, Stores, Cursors
  <2>5. CASE /\ c.updated = now /\ UNCHANGED procVars
             /\ \A d \in comments : d.updated < now
    BY <1>0, <1>1, <2>0, <2>5
       DEF procVars, StoreInv, Behind, Before, Stores, Cursors, Comments
  <2>6. QED
    BY <1>1, <2>2, <2>3, <2>4, <2>5, CommentSources, SeedMoves
<1>2. QED
  BY <1>1 DEF CoveredInv

LEMMA CursorInvInit == Init => CursorInv
BY BoundsAssumption
   DEF Init, GitHubInit, CursorInv, IdInv, BatchInv, StoreInv, PlaceInv,
       CoveredInv, Behind, Fresh, NoKey, JobLocations

LEMMA CursorInvStep ==
  ASSUME "tieEdit" \notin Faults
  PROVE  TypeInv /\ CursorInv /\ [Next]_vars => CursorInv'
BY IdStep, BatchStep, StoreStep, PlaceStep, CoveredStep DEF CursorInv

LEMMA CoveredIsEnough == TypeInv /\ CursorInv => NoMentionLost
<1> SUFFICES ASSUME TypeInv, CursorInv, NEW c \in comments, Wanted(c),
                    Posts(PingKey(c)) = {}, NEW s \in {mem, disk}
             PROVE  Before(s.cursor, c) /\ c.id \notin s.handled
  BY DEF NoMentionLost
<1>1. Before(s.cursor, c)
  BY DEF CursorInv, CoveredInv
<1>2. c.id \notin s.handled
  BY DEF CursorInv, StoreInv, Resolved, Wanted
<1>3. QED
  BY <1>1, <1>2

(* Neither the cursor nor handled_comments ever covers a mention that is   *)
(* still to be answered, whatever call fails, whenever the process dies    *)
(* and whatever the people do meanwhile, as long as nobody edits a comment *)
(* in a second that already stamped another one.                           *)
THEOREM MentionsAreKept ==
  ASSUME "tieEdit" \notin Faults
  PROVE  Spec => []NoMentionLost
<1>1. TypeInv /\ CursorInv /\ [Next]_vars => CursorInv'
  BY CursorInvStep
<1>2. QED
  BY <1>1, CursorInvInit, CoveredIsEnough, TypeInvInit, TypeInvStep, PTL
     DEF Spec

-----------------------------------------------------------------------------
(***************************************************************************)
(* The state file only grows.                                              *)
(***************************************************************************)
AheadOf(s, t) ==
  /\ t.reviewed \subseteq s.reviewed
  /\ t.handled \subseteq s.handled
  /\ ~Before(s.cursor, t.cursor)

(* Memory is never behind the file of a running process.                   *)
MemoryInv == pc # "down" => AheadOf(mem, disk)

LEMMA AheadTrans ==
  ASSUME NEW r \in Stores, NEW s \in Stores, NEW t \in Stores,
         AheadOf(r, s), AheadOf(s, t)
  PROVE  AheadOf(r, t)
BY DEF AheadOf, Before, Stores, Cursors

LEMMA AheadOfSelf ==
  ASSUME NEW s \in Stores
  PROVE  AheadOf(s, s)
BY DEF AheadOf, Before, Stores, Cursors

LEMMA LoadedAhead ==
  ASSUME TypeInv
  PROVE  AheadOf(Loaded, disk)
<1>1. now - SeedLag \in Nat /\ now - SeedLag > 0 /\ disk \in Stores
  BY BoundsAssumption DEF TypeInv, TypeOK
<1>2. QED
  BY <1>1 DEF AheadOf, Loaded, FirstRun, Before, Stores, Cursors

(* How the stores move.                                                    *)
LEMMA StoresMove ==
  ASSUME TypeInv, MemoryInv, "wipe" \notin Faults, [Next]_vars
  PROVE  /\ AheadOf(disk', disk)
         /\ MemoryInv'
<1>0. mem \in Stores /\ disk \in Stores /\ Loaded \in Stores /\ batch \subseteq Comments
  BY LoadedType DEF TypeInv, TypeOK
<1>1. CASE UNCHANGED <<mem, disk>> /\ (pc' # "down" => pc # "down")
  BY <1>0, <1>1, AheadOfSelf DEF MemoryInv
<1>2. ASSUME pc # "down", NEW store \in Stores, AheadOf(store, mem),
             mem' = store, Save(store)
      PROVE  AheadOf(disk', disk) /\ MemoryInv'
  <2>1. AheadOf(store, disk)
    BY <1>0, <1>2, AheadTrans DEF MemoryInv
  <2>2. QED
    BY <1>0, <1>2, <2>1, AheadOfSelf DEF Save, MemoryInv
<1>3. ASSUME pc # "down", Gone, disk' \in {mem, disk}
      PROVE  AheadOf(disk', disk) /\ MemoryInv'
  BY <1>0, <1>3, AheadOfSelf DEF Gone, MemoryInv
<1>4. CASE Start \/ PreflightFails
  BY <1>0, <1>4, LoadedAhead, AheadOfSelf DEF Start, PreflightFails, MemoryInv
<1>5. CASE Shutdown \/ Crash \/ Wipe
  BY <1>3, <1>5 DEF Shutdown, Crash, Wipe, Save
<1>6. ASSUME NEW c \in batch, NEW m \in BOOLEAN, Decide(c, m), pc # "down"
      PROVE  AheadOf(disk', disk) /\ MemoryInv'
  <2> DEFINE store == [mem EXCEPT
                         !.handled = IF m THEN @ \cup {c.id} ELSE @,
                         !.cursor = Advanced(@, c)]
  <2>1. store \in Stores
    BY DecidedType
  <2>2. /\ store.reviewed = mem.reviewed /\ mem.handled \subseteq store.handled
        /\ store.cursor = Advanced(mem.cursor, c)
    BY <1>0 DEF Stores
  <2>3. mem' = store /\ Save(store)
    BY <1>6 DEF Decide
  <2> HIDE DEF store
  <2>4. AheadOf(store, mem)
    BY <1>0, <2>2, AdvancedOver DEF AheadOf, Stores
  <2>5. QED
    BY <1>2, <1>6, <2>1, <2>3, <2>4
<1>7. CASE SkipComment \/ GetIssueDetail \/ CheckMentioner \/ CommitPing
  BY <1>1, <1>6, <1>7 DEF SkipComment, GetIssueDetail, CheckMentioner,
                          CommitPing, Calling
<1>8. CASE CommitAuto
  <2> DEFINE store == [mem EXCEPT !.reviewed = @ \cup {job.number}]
  <2>1. job.number \in Prs
    BY <1>8 DEF CommitAuto, TypeInv
  <2>2. store \in Stores /\ AheadOf(store, mem)
    BY <1>0, <2>1 DEF Stores, AheadOf, Cursors, Before
  <2>3. mem' = store /\ Save(store) /\ pc # "down"
    BY <1>8 DEF CommitAuto
  <2> HIDE DEF store
  <2>4. QED
    BY <1>2, <2>2, <2>3
<1>9. CASE Signal \/ (GitHubNext /\ UNCHANGED procVars) \/ UNCHANGED vars
  BY <1>1, <1>9 DEF Signal, procVars, vars
<1>10. ASSUME NEW l \in FailingCalls, CallFails(l)
       PROVE  AheadOf(disk', disk) /\ MemoryInv'
  <2>1. l # "down"
    BY DEF FailingCalls
  <2>2. pc # "down" /\ UNCHANGED <<mem, disk>>
    BY <1>10, <2>1 DEF CallFails, Calling
  <2>3. QED
    BY <1>1, <2>2
<1>11. ASSUME NEW l \in FatalCalls, CallFatal(l)
       PROVE  AheadOf(disk', disk) /\ MemoryInv'
  <2>1. l # "down"
    BY DEF FatalCalls, FailingCalls
  <2>2. pc # "down" /\ Gone /\ disk' \in {mem, disk}
    BY <1>11, <2>1 DEF CallFatal, Calling, Save
  <2>3. QED
    BY <1>3, <2>2
<1>12. CASE Trouble
  BY <1>1, <1>10, <1>11, <1>12
     DEF Trouble, PostUnanswered, PostLate, Calling
<1>13. CASE Work
  BY <1>1, <1>7, <1>8, <1>13
     DEF Work, NextTick, ListOpenPrs, AutoPathDone, SkipReview,
         NoMoreApprovals, ListReviews, CheckApprover, ListComments,
         PingPathDone, Scan, StreamDiff, GetPrInfo, CollectContext,
         RunReviewer, PostComment, Calling
<1>14. QED
  BY <1>4, <1>5, <1>9, <1>12, <1>13 DEF Next, BotStep, Outside

(* Unless somebody removes the file, nothing that was saved is forgotten   *)
(* and the saved cursor never goes back.                                   *)
THEOREM FileOnlyGrows ==
  ASSUME "wipe" \notin Faults
  PROVE  Spec => DurableGrows
<1>1. Init => MemoryInv
  BY DEF Init, MemoryInv
<1>2. TypeInv /\ MemoryInv /\ [Next]_vars => MemoryInv'
  BY StoresMove
<1>3. TypeInv /\ MemoryInv /\ [Next]_vars =>
        [/\ disk.reviewed \subseteq disk'.reviewed
         /\ disk.handled \subseteq disk'.handled
         /\ ~Before(disk'.cursor, disk.cursor)]_vars
  BY StoresMove DEF AheadOf
<1>4. QED
  BY <1>1, <1>2, <1>3, TypeInvInit, TypeInvStep, PTL DEF Spec, DurableGrows
=============================================================================
