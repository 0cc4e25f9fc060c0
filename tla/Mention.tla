------------------------------- MODULE Mention ------------------------------
(***************************************************************************)
(* mention_matches() and eq_login() (mention.cpp): whether a comment       *)
(* mentions the bot.  The scan goes from one '@' to the next.              *)
(***************************************************************************)
EXTENDS Integers, Sequences

CONSTANTS Chars,       \* characters
          HandleChars, \* those of is_handle_char()
          At,          \* '@'
          Lower,       \* ascii_lower(), as a function
          MaxHandle    \* longest handle of GitHub

ASSUME AtAssumption == At \in Chars /\ At \notin HandleChars
ASSUME LowerAssumption == Lower \in [Chars -> Chars]
ASSUME MaxHandleAssumption == MaxHandle \in Nat

VARIABLES comment,  \* the body of the comment
          handle,   \* the name of the bot
          from,     \* where the scan goes on
          heard     \* "scanning", "yes" or "no"

mentionVars == <<comment, handle, from, heard>>

(* eq_login(): the same name, whatever the case.                           *)
EqLogin(a, b) ==
  Len(a) = Len(b) /\ \A i \in 1..Len(a) : Lower[a[i]] = Lower[b[i]]

(* case_insensitive_starts_with(), at a position.                          *)
StartsWith(text, pos, needle) ==
  /\ pos - 1 + Len(needle) <= Len(text)
  /\ \A i \in 1..Len(needle) : Lower[text[pos - 1 + i]] = Lower[needle[i]]

(* Mutant of MatchAt: the handle may go on on the right.                   *)
MatchAtPrefix(text, name, at) ==
  /\ at = 1 \/ text[at - 1] \notin HandleChars
  /\ StartsWith(text, at + 1, name)

(* The boundary on the left, the handle, and the boundary on the right.    *)
MatchAt(text, name, at) ==
  LET after == at + 1 + Len(name)
  IN  /\ at = 1 \/ text[at - 1] \notin HandleChars
      /\ StartsWith(text, at + 1, name)
      /\ after > Len(text) \/ text[after] \notin HandleChars

MentionInit(texts, names) ==
  /\ comment \in texts /\ handle \in names
  /\ from = 1
  /\ heard = IF Len(handle) \in 1..MaxHandle THEN "scanning" ELSE "no"

Ats == {k \in from..Len(comment) : comment[k] = At}

NoMore ==
  /\ heard = "scanning" /\ Ats = {}
  /\ heard' = "no"
  /\ UNCHANGED <<comment, handle, from>>

(* Mutant of NextFrom: what was compared is not looked at again.           *)
NextFromSkips(at) == at + 1 + Len(handle)

NextFrom(at) == at + 1

(* The next '@'.                                                           *)
TryNext ==
  /\ heard = "scanning"
  /\ \E at \in Ats :
       /\ \A k \in Ats : at <= k
       /\ from' = NextFrom(at)
       /\ heard' = IF MatchAt(comment, handle, at) THEN "yes" ELSE "scanning"
  /\ UNCHANGED <<comment, handle>>

MentionNext == NoMore \/ TryNext

(* For any comment and any handle.                                         *)
MentionSpec == /\ MentionInit(Seq(Chars), Seq(Chars))
               /\ [][MentionNext]_mentionVars

-----------------------------------------------------------------------------
(* The regular expression (?i)(?<![A-Za-z0-9-])@<handle>(?![A-Za-z0-9-])   *)
(* matches somewhere.                                                      *)
Mentions(text, name) ==
  \E left \in 0..Len(text) :
    LET right == left + 1 + Len(name)
    IN  /\ right <= Len(text) /\ text[left + 1] = At
        /\ EqLogin(SubSeq(text, left + 2, right), name)
        /\ left > 0 => text[left] \notin HandleChars
        /\ right < Len(text) => text[right + 1] \notin HandleChars

(* The scan ends with what the regular expression says, however many '@'   *)
(* and near misses come first, also when they overlap (mention.hpp:9-16).  *)
ScanIsRegex ==
  heard # "scanning" /\ Len(handle) \in 1..MaxHandle =>
    (heard = "yes" <=> Mentions(comment, handle))
=============================================================================
