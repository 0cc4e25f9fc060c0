----------------------------- MODULE CommentText ----------------------------
(***************************************************************************)
(* From the comment a person wrote to mention_matches().  GitHub sends its *)
(* text escaped, and IssueComment keeps the escapes: the serialization     *)
(* macro does not undo them, and nobody calls json_unescape().             *)
(***************************************************************************)
EXTENDS Mention, JsonText

CONSTANTS Comments,   \* what people write
          Handles

(* A comment is of characters, and so is its escaped form; a name is of    *)
(* characters that is_handle_char() takes, in either case.                 *)
ASSUME WrittenAssumption ==
  /\ Comments \subseteq Seq(Chars) /\ \A c \in Chars : EscapeChar(c) \in Seq(Chars)
  /\ Handles \subseteq Seq(HandleChars) /\ HandleChars \subseteq Chars
  /\ \A c \in Chars, d \in HandleChars : Lower[c] = Lower[d] => c \in HandleChars

(* Neither '@' nor the characters of a name are escaped, and no escape     *)
(* holds an '@'.                                                           *)
ASSUME EscapesAssumption ==
  /\ At \notin {Backslash, Quote, LineFeed, Control, "n", "u", "control"}
  /\ HandleChars \cap {Backslash, Quote, LineFeed, Control} = {}

VARIABLE wrote        \* the comment as it was written

commentVars == <<mentionVars, wrote>>

(* IssueComment::body.                                                     *)
Received(t) == Escaped(t)

CommentInit ==
  /\ wrote \in Comments
  /\ MentionInit({Received(wrote)}, Handles)

CommentNext == MentionNext /\ UNCHANGED wrote

CommentSpec == CommentInit /\ [][CommentNext]_commentVars

-----------------------------------------------------------------------------
(* The bot only answers who did mention it: no escape makes a mention of   *)
(* what is none (watcher.cpp:288, github_types.hpp:69-72).                 *)
NoFalseMention == heard = "yes" => Mentions(wrote, handle)

(* A mention anywhere in a comment is seen: "inside a code block" as       *)
(* test_mention.cpp:64-70 has it, at the start of a line after the first.  *)
MentionIsSeen ==
  heard = "no" /\ Len(handle) \in 1..MaxHandle => ~Mentions(wrote, handle)
=============================================================================
