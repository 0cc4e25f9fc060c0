------------------------------- MODULE GitHub -------------------------------
(***************************************************************************)
(* The repository on GitHub, as the bot sees it through its REST calls:    *)
(* pull requests, their reviews, the repo-wide stream of issue comments    *)
(* and the people who write them.  None of this is code of the bot; it is  *)
(* modelled from what github_client.cpp and watcher.cpp ask for and rely   *)
(* on, and every definition is external.                                   *)
(***************************************************************************)
EXTENDS Integers, Sequences, FiniteSets

CONSTANTS Prs,            \* the pull requests
          Issues,         \* plain issues: comments land there as well
          Users,          \* the people (and apps) other than the bot
          Collaborators,  \* those with write access
          AppUsers,       \* logins such as dependabot[bot]
          Bot,            \* BOT_HANDLE
          MaxComments,    \* bound: comments people write
          MaxReviews,     \* bound: reviews per pull request
          MaxActs,        \* bound: comments and reviews of people together
          MaxTime,        \* bound: the clock, in seconds
          SeedLag,        \* how far back a first run puts its cursor
          Faults          \* what may go wrong in this instance

Numbers == Prs \cup Issues

(* "tieEdit": a comment is edited in a second that already stamped another *)
(* comment.  "late": a POST lands after the client gave it up.  "close":   *)
(* pull requests get closed.  The others are explained in Watcher.         *)
FaultKinds == {"transient", "fatal", "ambiguous", "late", "save", "crash",
               "wipe", "stop", "tieEdit", "edit", "close"}

ASSUME NumbersAssumption == Numbers \subseteq Nat \ {0} /\ Prs \cap Issues = {}
ASSUME UsersAssumption ==
  /\ Collaborators \subseteq Users
  /\ AppUsers \subseteq Users \ Collaborators
  /\ Bot \notin Users
ASSUME BoundsAssumption ==
  /\ MaxComments \in Nat /\ MaxReviews \in Nat /\ MaxActs \in Nat
  /\ MaxTime \in Nat /\ SeedLag \in Nat
ASSUME FaultsAssumption == Faults \subseteq FaultKinds

VARIABLES now,       \* GitHub's clock
          lastId,    \* the highest comment id given out
          comments,  \* the issue comments of the repository
          reviews,   \* reviews[p]: the reviews of p, oldest first
          open,      \* the open pull requests
          inflight,  \* keys of POSTs the client gave up and that still travel
          unsure     \* history: all keys that were ever in inflight

githubVars == <<now, lastId, comments, reviews, open, inflight, unsure>>

(* The marker of a posted comment, reduced to the part the bot compares.   *)
NoKey == [source |-> "none", number |-> 0, trigger |-> 0]
AutoKey(p) == [source |-> "auto", number |-> p, trigger |-> 0]
PingKey(c) == [source |-> "ping", number |-> c.number, trigger |-> c.id]

Keys == [source : {"none", "auto", "ping"}, number : Nat, trigger : Nat]
(* asked is history: the comment mentions the bot or did so before an edit. *)
Comments == [id : Nat, number : Numbers, author : Users \cup {Bot},
             updated : Nat, mention : BOOLEAN, asked : BOOLEAN, key : Keys]
Reviews == [author : Users, state : {"APPROVED", "COMMENTED"}]

GitHubInit ==
  /\ now = SeedLag + 1
  /\ lastId = 0
  /\ comments = {}
  /\ reviews = [p \in Prs |-> <<>>]
  /\ open = Prs
  /\ inflight = {} /\ unsure = {}

(* The order of the issue-comments stream (sort=updated, then id).  A      *)
(* cursor has the same two fields and compares in the same way.            *)
Before(a, b) ==
  \/ a.updated < b.updated
  \/ a.updated = b.updated /\ a.id < b.id

(* The bot looks for the text of the key anywhere in a body; here a body   *)
(* holds the key it was posted with and no other.                          *)
Posts(key) == {c \in comments : c.author = Bot /\ c.key = key}

(***************************************************************************)
(* What people do.                                                         *)
(***************************************************************************)
Written == {c \in comments : c.author # Bot}
Given == UNION {{p} \X DOMAIN reviews[p] : p \in Prs}
MayAct == Cardinality(Written) + Cardinality(Given) < MaxActs

Comment(u, n, mention) ==
  /\ Cardinality(Written) < MaxComments /\ MayAct
  /\ lastId' = lastId + 1
  /\ comments' = comments \cup
       {[id |-> lastId + 1, number |-> n, author |-> u, updated |-> now,
         mention |-> mention, asked |-> mention, key |-> NoKey]}
  /\ UNCHANGED <<now, reviews, open, inflight, unsure>>

Edit(c, mention) ==
  /\ "edit" \in Faults
  /\ c.author # Bot
  /\ "tieEdit" \in Faults \/ \A d \in comments : d.updated < now
  /\ comments' = (comments \ {c}) \cup
       {[c EXCEPT !.updated = now, !.mention = mention,
                  !.asked = @ \/ mention]}
  /\ UNCHANGED <<now, lastId, reviews, open, inflight, unsure>>

Review(u, p, state) ==
  /\ Len(reviews[p]) < MaxReviews /\ MayAct
  /\ reviews' = [reviews EXCEPT ![p] =
                   Append(@, [author |-> u, state |-> state])]
  /\ UNCHANGED <<now, lastId, comments, open, inflight, unsure>>

Close(p) ==
  /\ "close" \in Faults
  /\ p \in open
  /\ open' = open \ {p}
  /\ UNCHANGED <<now, lastId, comments, reviews, inflight, unsure>>

TimePasses ==
  /\ now < MaxTime
  /\ now' = now + 1
  /\ UNCHANGED <<lastId, comments, reviews, open, inflight, unsure>>

(***************************************************************************)
(* What happens to the bot's POST: applied at once, or by a server that    *)
(* was still busy when the client stopped waiting.                         *)
(***************************************************************************)
AddPost(key) ==
  /\ lastId' = lastId + 1
  /\ comments' = comments \cup
       {[id |-> lastId + 1, number |-> key.number, author |-> Bot,
         updated |-> now, mention |-> FALSE, asked |-> FALSE, key |-> key]}

Land(key) ==
  /\ AddPost(key)
  /\ inflight' = inflight \ {key}
  /\ UNCHANGED <<now, reviews, open, unsure>>

GitHubNext ==
  \/ \E u \in Users, n \in Numbers, m \in BOOLEAN : Comment(u, n, m)
  \/ \E c \in comments, m \in BOOLEAN : Edit(c, m)
  \/ \E u \in Users, p \in Prs, s \in {"APPROVED", "COMMENTED"} :
       Review(u, p, s)
  \/ \E p \in Prs : Close(p)
  \/ TimePasses
  \/ \E key \in inflight : Land(key)
=============================================================================
