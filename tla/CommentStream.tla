---------------------------- MODULE CommentStream ---------------------------
(***************************************************************************)
(* list_issue_comments() as a walk over pages (walk_pages() of             *)
(* github_client.cpp) and what run_ping_path() makes of its result: the    *)
(* part of the ping path that Watcher takes as one atomic listing.  Every  *)
(* change on GitHub has a second of its own here, so that a version of a   *)
(* comment is the time it was stamped with.                                *)
(***************************************************************************)
EXTENDS Integers, FiniteSets

CONSTANTS PageSize,    \* comments on a page (per_page=100)
          MaxComments, \* bound: comments ever written
          MaxEdits     \* bound: edits

ASSUME NumbersAssumption ==
  PageSize \in Nat \ {0} /\ MaxComments \in Nat /\ MaxEdits \in Nat

VARIABLES comments, \* [id, updated] of every comment
          now,      \* the last second in which something changed
          cursor,   \* the updated_at of the cursor; times are unique here
          pc,       \* "idle", "walk" or "sorted"
          since,    \* the cursor the walk was asked with
          page,     \* the next page
          got,      \* the comments listed so far
          answered, \* history: the versions that were decided
          shifted   \* history: an edit moved a comment between two pages

vars == <<comments, now, cursor, pc, since, page, got, answered, shifted>>

Init ==
  /\ comments = {} /\ now = 0
  /\ cursor = 0
  /\ pc = "idle" /\ since = 0 /\ page = 1 /\ got = {}
  /\ answered = {} /\ shifted = FALSE

-----------------------------------------------------------------------------
Write ==
  /\ Cardinality(comments) < MaxComments
  /\ now' = now + 1
  /\ comments' = comments \cup
       {[id |-> Cardinality(comments) + 1, updated |-> now + 1]}
  /\ UNCHANGED <<cursor, pc, since, page, got, answered, shifted>>

Edit(c) ==
  /\ now < MaxComments + MaxEdits
  /\ now' = now + 1
  /\ comments' = (comments \ {c}) \cup {[c EXCEPT !.updated = now + 1]}
  /\ shifted' = (shifted \/ pc = "walk")
  /\ UNCHANGED <<cursor, pc, since, page, got, answered>>

(* sort=updated&direction=asc&since=...: the comments that are listed, how *)
(* many of them stand in front of one, and those on the k-th page.         *)
Listed == {c \in comments : c.updated >= since}

Before(c) == Cardinality({d \in Listed : d.updated < c.updated})

Page(k) ==
  {c \in Listed : (k - 1) * PageSize <= Before(c) /\ Before(c) < k * PageSize}

HasNext(k) == Cardinality(Listed) > k * PageSize

-----------------------------------------------------------------------------
Begin ==
  /\ pc = "idle"
  /\ since' = cursor
  /\ pc' = "walk" /\ page' = 1 /\ got' = {}
  /\ UNCHANGED <<comments, now, cursor, answered, shifted>>

LaterPageSkipped ==   \* mutant of LaterPage: the page number runs ahead
  /\ pc = "walk" /\ HasNext(page)
  /\ got' = got
  /\ page' = page + 1
  /\ UNCHANGED <<comments, now, cursor, pc, since, answered, shifted>>

LaterPage ==
  /\ pc = "walk" /\ HasNext(page)
  /\ got' = got \cup Page(page)
  /\ page' = page + 1
  /\ UNCHANGED <<comments, now, cursor, pc, since, answered, shifted>>

LastPage ==
  /\ pc = "walk" /\ ~HasNext(page)
  /\ got' = got \cup Page(page)
  /\ pc' = "sorted"
  /\ UNCHANGED <<comments, now, cursor, since, page, answered, shifted>>

(* A page cannot be had: the whole walk throws.                            *)
Fail ==
  /\ pc = "walk"
  /\ pc' = "idle" /\ got' = {}
  /\ UNCHANGED <<comments, now, cursor, since, page, answered, shifted>>

Earliest(c) == \A d \in got : d = c \/ c.updated < d.updated

(* The comment at the cursor is listed again.                              *)
SkipSeen ==
  /\ pc = "sorted"
  /\ \E c \in got : c.updated <= cursor /\ got' = got \ {c}
  /\ UNCHANGED <<comments, now, cursor, pc, since, page, answered, shifted>>

DecideUnsorted ==   \* mutant of Decide: in any order
  /\ pc = "sorted"
  /\ \E c \in got :
       /\ c.updated > cursor
       /\ answered' = answered \cup {c}
       /\ cursor' = c.updated
       /\ got' = got \ {c}
  /\ UNCHANGED <<comments, now, pc, since, page, shifted>>

(* The next comment in the order of the cursor is decided.                 *)
Decide ==
  /\ pc = "sorted"
  /\ \E c \in got :
       /\ c.updated > cursor /\ Earliest(c)
       /\ answered' = answered \cup {c}
       /\ cursor' = c.updated
       /\ got' = got \ {c}
  /\ UNCHANGED <<comments, now, pc, since, page, shifted>>

(* It cannot be decided now: the rest is left for a later tick.            *)
Defer ==
  /\ pc = "sorted"
  /\ \E c \in got : c.updated > cursor /\ Earliest(c)
  /\ pc' = "idle" /\ got' = {}
  /\ UNCHANGED <<comments, now, cursor, since, page, answered, shifted>>

Done ==
  /\ pc = "sorted" /\ got = {}
  /\ pc' = "idle"
  /\ UNCHANGED <<comments, now, cursor, since, page, got, answered, shifted>>

Tick == Begin \/ LaterPage \/ LastPage \/ SkipSeen \/ Decide \/ Done
Next == Tick \/ Fail \/ Defer \/ Write \/ \E c \in comments : Edit(c)

Spec == Init /\ [][Next]_vars

(* The bot polls, and no page and no decision fails for ever.              *)
FairSpec == /\ Spec /\ WF_vars(Tick)
            /\ SF_vars(LaterPage) /\ SF_vars(LastPage) /\ SF_vars(Decide)

-----------------------------------------------------------------------------
(* The cursor never passes a comment, in its present version, that was not *)
(* decided: "advances the cursor only after a comment is durably handled"  *)
(* (README.md:311-313).  The exception: an edit during a walk takes its    *)
(* comment to the end of the list, those behind it move up, and one that   *)
(* moves to a page already read is missed.                                 *)
NothingSkipped ==
  \A c \in comments : c.updated <= cursor => c \in answered \/ shifted

(* Every comment is decided in its last version, with the same exception.  *)
EventuallyDecided ==
  \A n \in 1 .. MaxComments :
    (\E c \in comments : c.id = n)
      ~> shifted \/ \E c \in comments : c.id = n /\ c \in answered
=============================================================================
