------------------------------ MODULE JsonText ------------------------------
(***************************************************************************)
(* Text on its way through JSON: json_escape_utf8() (github_client.cpp)    *)
(* for what the bot posts, json_unescape() (github_types.cpp) for title    *)
(* and description of a pull request.  A text is a sequence of characters; *)
(* the four hex digits after "\u" are one symbol here, "n" stands for all  *)
(* letters of the short escapes and the line feed for what they mean.      *)
(***************************************************************************)
EXTENDS Integers, SequencesExt

CONSTANTS MaxPieces,  \* bound: pieces of a text that is received
          Posts       \* the texts that are posted

ASSUME TextsAssumption ==
  MaxPieces \in Nat /\ \A t \in Posts : t \in Seq(ToSet(t))

Backslash == "\\"
Quote == "\""
LineFeed == "\n"
Control == "\\u0001"   \* a control character without a letter of its own

(* Hex digits: of a character of the basic plane, of a control character,  *)
(* and the two halves of a surrogate pair.                                 *)
Hex == [basic |-> "e-acute", control |-> Control]
High == "D83D"
Low == "DE00"
Quads == DOMAIN Hex \cup {High, Low}
Astral == "smile"
Replacement == "U+FFFD"

VARIABLES raw,    \* the characters between the quotes
          means,  \* history: what the sender meant
          place,  \* where json_unescape() is
          text    \* its result so far

jsonVars == <<raw, means, place, text>>

(* What a sender may write for what, malformed escapes included.           *)
Pieces ==
  {[sent |-> <<"a">>, means |-> <<"a">>],
   [sent |-> <<"n">>, means |-> <<"n">>],
   [sent |-> <<Backslash, "n">>, means |-> <<LineFeed>>],
   [sent |-> <<Backslash, Backslash>>, means |-> <<Backslash>>],
   [sent |-> <<Backslash, "u", "basic">>, means |-> <<"e-acute">>],
   [sent |-> <<Backslash, "u", High, Backslash, "u", Low>>,
    means |-> <<Astral>>],
   [sent |-> <<Backslash, "u", High>>, means |-> <<Replacement>>],
   [sent |-> <<Backslash, "u", Low>>, means |-> <<Replacement>>],
   [sent |-> <<Backslash, "u", "a">>, means |-> <<Backslash, "u", "a">>],
   [sent |-> <<Backslash, "a">>, means |-> <<Backslash, "a">>]}

Lone(p, quad) == p.sent = <<Backslash, "u", quad>>

(* Two halves that come one after the other are a pair.                    *)
Messages ==
  {m \in BoundedSeq(Pieces, MaxPieces) :
     \A i \in 1..(Len(m) - 1) : ~(Lone(m[i], High) /\ Lone(m[i + 1], Low))}

-----------------------------------------------------------------------------
(* Mutant of EscapeChar: a backslash goes out as it is.                    *)
EscapeCharNoBackslash(c) ==
  CASE c = Quote -> <<Backslash, c>>
    [] c = LineFeed -> <<Backslash, "n">>
    [] c = Control -> <<Backslash, "u", "control">>
    [] OTHER -> <<c>>

EscapeChar(c) ==
  CASE c \in {Quote, Backslash} -> <<Backslash, c>>
    [] c = LineFeed -> <<Backslash, "n">>
    [] c = Control -> <<Backslash, "u", "control">>
    [] OTHER -> <<c>>

(* json_escape_utf8().                                                     *)
Escaped(t) == FlattenSeq([i \in 1..Len(t) |-> EscapeChar(t[i])])

JsonInit ==
  /\ \/ \E m \in Messages, end \in {<<>>, <<Backslash>>} :
          /\ raw = FlattenSeq([i \in 1..Len(m) |-> m[i].sent]) \o end
          /\ means = FlattenSeq([i \in 1..Len(m) |-> m[i].means]) \o end
     \/ means \in Posts /\ raw = Escaped(means)
  /\ place = 1 /\ text = <<>>

-----------------------------------------------------------------------------
Symbol(i) == IF i <= Len(raw) THEN raw[i] ELSE "end"

Escape == Symbol(place) = Backslash /\ place < Len(raw)
LetterEscape == Escape /\ Symbol(place + 1) \in {Quote, Backslash, "n"}
HexEscape(i) ==
  Symbol(i) = Backslash /\ Symbol(i + 1) = "u" /\ Symbol(i + 2) \in Quads

Move(n, t) ==
  /\ place' = place + n
  /\ text' = text \o t
  /\ UNCHANGED <<raw, means>>

(* A character, or a backslash at the very end.                            *)
TakePlain == place <= Len(raw) /\ ~Escape /\ Move(1, <<raw[place]>>)

(* Mutant of TakeLetter: the character after the backslash is read again.  *)
TakeLetterTwice ==
  LetterEscape /\ Move(1, <<IF raw[place + 1] = "n" THEN LineFeed
                            ELSE raw[place + 1]>>)

TakeLetter ==
  LetterEscape /\ Move(2, <<IF raw[place + 1] = "n" THEN LineFeed
                            ELSE raw[place + 1]>>)

(* Mutant of Paired: any second escape completes a pair.                   *)
PairedWithAny ==
  HexEscape(place) /\ raw[place + 2] = High /\ HexEscape(place + 3)

Paired ==
  /\ HexEscape(place) /\ raw[place + 2] = High
  /\ HexEscape(place + 3) /\ raw[place + 5] = Low

TakePair == Paired /\ Move(6, <<Astral>>)

(* A surrogate half that is alone.                                         *)
TakeHalf ==
  /\ HexEscape(place) /\ ~Paired
  /\ raw[place + 2] \in {High, Low}
  /\ Move(3, <<Replacement>>)

TakeHex ==
  /\ HexEscape(place) /\ raw[place + 2] \in DOMAIN Hex
  /\ Move(3, <<Hex[raw[place + 2]]>>)

(* Not an escape: the backslash stays, and what follows is read as text.   *)
TakeMalformed ==
  /\ Escape /\ ~LetterEscape /\ ~HexEscape(place)
  /\ Move(1, <<Backslash>>)

JsonNext ==
  \/ TakePlain \/ TakeLetter \/ TakePair \/ TakeHalf \/ TakeHex
  \/ TakeMalformed

JsonSpec == JsonInit /\ [][JsonNext]_jsonVars

-----------------------------------------------------------------------------
(* Title and description reach the reviewer as their author wrote them:    *)
(* escapes next to each other do not run together, half a surrogate pair   *)
(* takes nothing with it, and what is no escape stays as it is; and what   *)
(* the bot posts is read back as it was posted (github_types.hpp:104-107,  *)
(* github_client.hpp:77-82).                                               *)
TextSurvives == place > Len(raw) => text = means
=============================================================================
