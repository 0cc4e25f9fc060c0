------------------------------- MODULE Payload -------------------------------
(***************************************************************************)
(* assemble_review_stdin() (reviewer.cpp): the text that goes to a         *)
(* reviewer.  What comes out of a pull request stands between fence lines  *)
(* that carry a nonce of this run; a fence is one symbol, any other line   *)
(* of text some ordinary ones.                                             *)
(***************************************************************************)
EXTENDS Order, Integers, SequencesExt

CONSTANTS Contents,   \* texts of a pull request: diff and description
          ContextFile, \* its context files: [path, content]
          Entries,    \* what omitted_files holds
          MaxEntries, MaxContextFiles   \* bounds on how many

Newline == "newline"
Stale == "END_DIFF of another run"   \* a text may hold it, like any word
Metadata == <<"BEGIN_PR_METADATA", "END_PR_METADATA">>
TheDiff == <<"BEGIN_DIFF", "END_DIFF">>
AFile == <<"BEGIN_FILE", "END_FILE">>

Fences == UNION {ToSet(f) : f \in {Metadata, TheDiff, AFile}}

Foreign == Contents \cup Entries
           \cup UNION {{f.path, f.content} : f \in ContextFile}

(* Nobody can have written a fence down before its nonce was drawn.        *)
ASSUME NonceAssumption ==
  \A t \in Foreign : t \in Seq(ToSet(t)) /\ ToSet(t) \cap Fences = {}

(* An entry says how long the file is: it is never empty.                  *)
ASSUME EntriesAssumption ==
  <<>> \notin Entries /\ {MaxEntries, MaxContextFiles} \subseteq Nat

VARIABLES review,   \* the ReviewRequest
          payload   \* what is written to the reviewer, <<>> before that

payloadVars == <<review, payload>>

PayloadInit ==
  /\ review \in [title : {<<>>, <<"word">>}, body : Contents, diff : Contents,
                 omitted : BoundedSeq(Entries, MaxEntries),
                 files : BoundedSeq(ContextFile, MaxContextFiles)]
  /\ payload = <<>>

-----------------------------------------------------------------------------
(* Mutant of AppendBlock: the text may end in the middle of a line.        *)
AppendBlockAsItIs(t) == t

AppendBlock(t) ==
  IF t = <<>> \/ Last(t) = Newline THEN t ELSE Append(t, Newline)

(* Mutant of SanitizePath: control characters stay.                        *)
SanitizePathNot(p) == p

(* sanitize_fence_path().                                                  *)
SanitizePath(p) == [i \in 1..Len(p) |-> IF p[i] = Newline THEN "?" ELSE p[i]]

Concat(f(_), s) == FlattenSeq([i \in 1..Len(s) |-> f(s[i])])

(* Mutant of HasMetadata: only title and description count.                *)
HasMetadataOfAuthor == review.title # <<>> \/ review.body # <<>>

HasMetadata ==
  review.title # <<>> \/ review.body # <<>> \/ review.omitted # <<>>

HasFiles == review.files # <<>>

(* Mutant of Instruction: the files' fences are not explained.             *)
InstructionOnDiff ==
  <<"between">> \o (IF HasMetadata THEN Metadata ELSE <<>>) \o TheDiff
    \o <<"untrusted", Newline>>

(* The paragraph that names the fences, in the middle of its line.         *)
Instruction ==
  <<"between">> \o (IF HasMetadata THEN Metadata ELSE <<>>) \o TheDiff
    \o (IF HasFiles THEN AFile ELSE <<>>) \o <<"untrusted", Newline>>

MetadataSection ==
  IF ~HasMetadata THEN <<>>
  ELSE <<Metadata[1], Newline, "PR title: ">> \o review.title
         \o <<Newline, "PR description:", Newline>> \o AppendBlock(review.body)
         \o (IF review.omitted = <<>> THEN <<>>
             ELSE <<"Files omitted", Newline>>
                    \o Concat(LAMBDA e : <<"- ">> \o e \o <<Newline>>,
                              review.omitted))
         \o <<Metadata[2], Newline>>

FileSection(f) ==
  <<AFile[1]>> \o SanitizePath(f.path) \o <<Newline>> \o AppendBlock(f.content)
    \o <<AFile[2], Newline>>

Assemble ==
  /\ payload = <<>>
  /\ payload' = <<"prompt", Newline, Newline>> \o Instruction \o MetadataSection
                  \o <<TheDiff[1], Newline>> \o AppendBlock(review.diff)
                  \o <<TheDiff[2], Newline>>
                  \o Concat(FileSection, review.files)
  /\ UNCHANGED review

PayloadSpec == PayloadInit /\ [][Assemble]_payloadVars

-----------------------------------------------------------------------------
(* The places of the fence lines, from the first to the last.              *)
FencePlaces ==
  Ascending({i \in 1..Len(payload) :
               payload[i] \in Fences /\ payload[i - 1] = Newline})

(* The pairs of fences there are to be, in their order.                    *)
Expected ==
  (IF review.title \o review.body \o FlattenSeq(review.omitted) # <<>>
   THEN <<Metadata>> ELSE <<>>)
    \o <<TheDiff>> \o [i \in 1..Len(review.files) |-> AFile]

Holds(found, text) == found \in {text, Append(text, Newline)}

(* A reader who takes the payload apart at its fence lines finds, whatever *)
(* the texts are and however they end, the sections in their order, closing *)
(* fences alone on their lines, the diff and every file as they are, on    *)
(* one line with its path, and each file omitted in the metadata; and the  *)
(* fences were announced, no others (reviewer.hpp:126-149).                *)
SectionsAreFenced ==
  payload # <<>> =>
    LET places    == FencePlaces
        n         == Len(Expected)
        diffs     == n - Len(review.files)
        opens(k)  == places[2 * k - 1]
        closes(k) == places[2 * k]
        inside(k) == SubSeq(payload, opens(k) + 1, closes(k) - 1)
        behind(k) == SubSeq(payload, closes(k) + 1,
                            IF k < n THEN opens(k + 1) - 1 ELSE Len(payload))
    IN  /\ Len(places) = 2 * n
        /\ \A k \in 1..n :
             /\ <<payload[opens(k)], payload[closes(k)]>> = Expected[k]
             /\ behind(k) = <<Newline>>
        /\ ToSet(SubSeq(payload, 1, opens(1) - 1)) \cap Fences
             = UNION {ToSet(Expected[k]) : k \in 1..n}
        /\ Holds(inside(diffs), <<Newline>> \o review.diff)
        /\ \A i \in 1..Len(review.files) :
             LET f    == review.files[i]
                 text == inside(diffs + i)
             IN  /\ Newline \notin ToSet(SubSeq(text, 1, Len(f.path)))
                 /\ Holds(SubSeq(text, Len(f.path) + 1, Len(text)),
                          <<Newline>> \o f.content)
        /\ \A e \in ToSet(review.omitted) :
             \E i \in 1..(Len(inside(1)) - Len(e)) :
               SubSeq(inside(1), i, i + Len(e)) = <<"- ">> \o e
=============================================================================
