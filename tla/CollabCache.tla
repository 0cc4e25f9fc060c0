----------------------------- MODULE CollabCache ----------------------------
(***************************************************************************)
(* GithubClient::is_collaborator(): who may make the bot spend a review is *)
(* asked of GitHub and remembered for a while.  A request takes time, and  *)
(* GitHub looks at its list of collaborators at any moment of it.  Watcher *)
(* takes the collaborators as fixed.                                       *)
(***************************************************************************)
EXTENDS Integers

CONSTANTS Users,
          Nobody,
          Ttl,        \* kCollabCacheTtl
          MaxTime,    \* bound: the clock
          MaxChanges  \* bound: changes of the list of collaborators

ASSUME NumbersAssumption ==
  Ttl \in Nat \ {0} /\ MaxTime \in Nat /\ MaxChanges \in Nat
ASSUME NobodyAssumption == Nobody \notin Users

VARIABLES clock,
          member,   \* member[u]: u is a collaborator now
          since,    \* since[u]: when that last changed
          changes,  \* changes made
          cache,    \* cache[u]: the answer and when it expires, 0 for none
          asking,   \* the user asked about, or Nobody
          begun,    \* when the request was sent
          seen,     \* what GitHub answers, once it has looked
          answer    \* history: what is_collaborator() returned last, when,
                    \* and when it sent its request

cacheVars == <<clock, member, since, changes, cache, asking, begun, seen, answer>>

NoAnswer == [user |-> Nobody, collab |-> FALSE, asked |-> 0, at |-> 0]

CacheInit ==
  /\ clock = 1
  /\ member \in [Users -> BOOLEAN]
  /\ since = [u \in Users |-> 0] /\ changes = 0
  /\ cache = [u \in Users |-> [collab |-> FALSE, expires |-> 0]]
  /\ asking = Nobody /\ begun = 0 /\ seen = "nothing"
  /\ answer = NoAnswer

Tick ==
  /\ clock < MaxTime
  /\ clock' = clock + 1
  /\ UNCHANGED <<member, since, changes, cache, asking, begun, seen, answer>>

(* Somebody is made a collaborator, or is one no longer.                   *)
Change(u) ==
  /\ changes < MaxChanges /\ since[u] # clock
  /\ changes' = changes + 1
  /\ member' = [member EXCEPT ![u] = ~@]
  /\ since' = [since EXCEPT ![u] = clock]
  /\ UNCHANGED <<clock, cache, asking, begun, seen, answer>>

-----------------------------------------------------------------------------
Cached(u) == clock < cache[u].expires

(* A hit: the entry is used and keeps its time.                            *)
AnswerCached(u) ==
  /\ asking = Nobody /\ Cached(u)
  /\ answer' = [user |-> u, collab |-> cache[u].collab,
                asked |-> clock, at |-> clock]
  /\ UNCHANGED <<clock, member, since, changes, cache, asking, begun, seen>>

Ask(u) ==
  /\ asking = Nobody /\ ~Cached(u)
  /\ asking' = u /\ begun' = clock /\ seen' = "nothing"
  /\ UNCHANGED <<clock, member, since, changes, cache, answer>>

(* GitHub looks: 204, 404, or a 403 for want of a scope.                   *)
Look ==
  /\ asking # Nobody /\ seen = "nothing"
  /\ seen' \in {IF member[asking] THEN "204" ELSE "404", "403"}
  /\ UNCHANGED <<clock, member, since, changes, cache, asking, begun, answer>>

(* Mutant of Remember: the time of the answer counts, not of the question. *)
RememberFromAnswer(u, collab) ==
  cache' = [cache EXCEPT ![u] = [collab |-> collab, expires |-> clock + Ttl]]

Remember(u, collab) ==
  cache' = [cache EXCEPT ![u] = [collab |-> collab, expires |-> begun + Ttl]]

(* Mutant of Receive: a 403 is taken for "not a collaborator".             *)
ReceiveAnything ==
  /\ seen # "nothing"
  /\ Remember(asking, seen = "204")
  /\ answer' = [user |-> asking, collab |-> seen = "204",
                asked |-> begun, at |-> clock]
  /\ asking' = Nobody /\ begun' = 0 /\ seen' = "nothing"
  /\ UNCHANGED <<clock, member, since, changes>>

Receive ==
  /\ seen \in {"204", "404"}
  /\ Remember(asking, seen = "204")
  /\ answer' = [user |-> asking, collab |-> seen = "204",
                asked |-> begun, at |-> clock]
  /\ asking' = Nobody /\ begun' = 0 /\ seen' = "nothing"
  /\ UNCHANGED <<clock, member, since, changes>>

(* Anything else throws and is not remembered.                             *)
Refuse ==
  /\ seen = "403"
  /\ asking' = Nobody /\ begun' = 0 /\ seen' = "nothing"
  /\ UNCHANGED <<clock, member, since, changes, cache, answer>>

CacheNext ==
  \/ Tick
  \/ \E u \in Users : Change(u) \/ AnswerCached(u) \/ Ask(u)
  \/ Look \/ Receive \/ Refuse

CacheSpec == CacheInit /\ [][CacheNext]_cacheVars

-----------------------------------------------------------------------------
(* An answer that is wrong now was right at some moment of its own request *)
(* or less than the Ttl before it was given: who was added or removed      *)
(* longer ago is not misjudged (github_client.cpp:226-239, 766-786).       *)
AnswersAreRecent ==
  answer # NoAnswer /\ member[answer.user] # answer.collab =>
    \/ since[answer.user] >= answer.asked
    \/ answer.at - since[answer.user] < Ttl
=============================================================================
