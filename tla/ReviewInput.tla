---------------------------- MODULE ReviewInput ----------------------------
(***************************************************************************)
(* What a reviewer is given of a pull request: the diff split into the     *)
(* sections of its files and trimmed to MAX_DIFF_BYTES (reviewer.cpp), and *)
(* the contents of the changed files under the caps of                     *)
(* collect_context_files() (watcher.cpp).  A diff is a sequence of lines   *)
(* of one byte; a line is told apart only as far as the code does.         *)
(***************************************************************************)
EXTENDS Order, Integers, FiniteSets, SequencesExt

CONSTANTS Plain,    \* paths that git prints as they are
          Quoted,   \* paths that git prints in quotes
          Spaced,   \* paths that contain " b/", Quoted ones among them
          Rest,     \* what follows the last " b/" of a Spaced path, with the
                    \* closing quote if there is one
          Unknown,  \* the empty path
          Kinds,    \* the changes that occur: "edit", "add", "delete",
                    \* "bare" and "baredelete" (no ---/+++ lines: a binary
                    \* or empty file, or a new mode)
          MaxFiles, MaxBudget, MaxContent,   \* bounds on the inputs
          ContextCaps,   \* MAX_CONTEXT_TOTAL_BYTES and MAX_CONTEXT_FILES that
                         \* occur; a cap of 0 switches the context off
          SizeMax   \* 2^64: where std::size_t wraps

Paths == Plain \cup Quoted \cup Spaced

ASSUME CapsAssumption == ContextCaps \subseteq [total : Nat, files : Nat]
ASSUME BoundsAssumption ==
  {MaxFiles, MaxBudget, MaxContent, SizeMax} \subseteq Nat /\ SizeMax > MaxBudget

VARIABLES pc,       \* "start", "trim", "context", "notice" or "done"
          files,    \* the files of the pull request, as git compared them
          budget,   \* MAX_DIFF_BYTES
          caps,     \* the two caps on the context
          diff,     \* the diff as downloaded
          next,     \* the section the trimming loop is at
          used,     \* bytes kept so far
          kept,     \* the sections kept so far, by number
          omitted,  \* the sections left out so far, by number
          request,  \* ReviewRequest::diff
          attempts, total,   \* the counters of collect_context_files()
          context   \* ReviewRequest::context_files: their paths and sizes

inputVars == <<files, budget, caps, diff>>
trimVars == <<next, used, kept, omitted>>
contextVars == <<attempts, total, context>>
reviewInputVars == <<pc, inputVars, trimVars, request, contextVars>>

-----------------------------------------------------------------------------
(***************************************************************************)
(* What git prints for a file.  A line of a hunk may look like a header:   *)
(* an added "++ b/x" is printed as "+++ b/x".                              *)
(***************************************************************************)
Line(kind, path) == [kind |-> kind, path |-> path]
Text == Line("text", Unknown)

(* The lines "--- a/p" and "+++ b/p"; a quoted path makes them "text".     *)
Old(p) == IF p \in Quoted THEN Text ELSE Line("old", p)
New(p) == IF p \in Quoted THEN Text ELSE Line("new", p)

Header(f) ==
  CASE f.kind = "edit" -> <<Old(f.path), New(f.path)>>
    [] f.kind = "add" -> <<Text, New(f.path)>>
    [] f.kind = "delete" -> <<Old(f.path), Line("null", Unknown)>>
    [] OTHER -> <<>>

Section(f) ==
  <<Line("git", f.path)>> \o Header(f)
    \o IF Header(f) = <<>> THEN <<>>
       ELSE <<Line("hunk", Unknown)>> \o f.body

Bodies == {<<Text>>} \cup {<<Line("new", p), Text>> : p \in Plain}

Files == {f \in [path : Paths, kind : Kinds, body : Bodies] :
            f.kind \in {"delete", "bare", "baredelete"} => f.body = <<Text>>}

-----------------------------------------------------------------------------
(***************************************************************************)
(* The split.                                                              *)
(***************************************************************************)
(* What follows the last " b/" of the line "diff --git a/p b/p".           *)
FromGitLine(p) ==
  CASE p \in Spaced -> Rest [] p \in Quoted \ Spaced -> Unknown [] OTHER -> p

(* Mutant of HeaderLines: a hunk does not end the headers.                 *)
HeaderLinesToTheEnd(text) == 1..Len(text)

HeaderLines(text) ==
  {i \in 1..Len(text) : \A j \in 1..i : text[j].kind # "hunk"}

(* section_path(): the path, and whether the file was deleted.             *)
SectionPath(text) ==
  LET ends == {i \in HeaderLines(text) : text[i].kind \in {"new", "null"}}
      end  == Min(ends)
      olds == {i \in HeaderLines(text) : i < end /\ text[i].kind = "old"}
  IN  CASE ends = {} ->
             [path |-> FromGitLine(text[1].path), deleted |-> FALSE]
        [] ends # {} /\ text[end].kind = "new" ->
             [path |-> text[end].path, deleted |-> FALSE]
        [] OTHER ->
             [path |-> IF olds = {} THEN Unknown ELSE text[Max(olds)].path,
              deleted |-> TRUE]

Starts(lines) == Ascending({i \in 1..Len(lines) : lines[i].kind = "git"})

(* split_diff_by_file().                                                   *)
Split(lines) ==
  LET starts == Starts(lines)
      end(i) == IF i < Len(starts) THEN starts[i + 1] - 1 ELSE Len(lines)
      text(i) == SubSeq(lines, starts[i], end(i))
  IN  [preamble |-> IF starts = <<>> THEN lines
                    ELSE SubSeq(lines, 1, starts[1] - 1),
       files |-> [i \in 1..Len(starts) |->
                    [text |-> text(i), path |-> SectionPath(text(i)).path,
                     deleted |-> SectionPath(text(i)).deleted]]]

(* The sections that show a path of a file that is still there.            *)
Shown(found) ==
  {i \in 1..Len(found) : ~found[i].deleted /\ found[i].path # Unknown}

(* Mutant of Firsts: a path is fetched once per section.                   *)
FirstsRepeated(found) == Shown(found)

Firsts(found) ==
  {i \in Shown(found) :
     \A j \in Shown(found) : j < i => found[j].path # found[i].path}

(* changed_paths(): each once, at its first section.                       *)
ChangedPaths(lines) ==
  LET found == Split(lines).files
      order == Ascending(Firsts(found))
  IN  [k \in 1..Len(order) |-> found[order[k]].path]

-----------------------------------------------------------------------------
Sections == Split(diff).files
Preamble == Split(diff).preamble

InputInit ==
  /\ pc = "start"
  /\ files \in BoundedSeq(Files, MaxFiles)
  /\ budget \in 0..MaxBudget /\ caps \in ContextCaps
  /\ \E first \in {<<>>, <<Text>>} :
       diff = first \o FlattenSeq([i \in 1..Len(files) |-> Section(files[i])])
  /\ next = 1 /\ used = 0
  /\ kept = <<>> /\ omitted = <<>>
  /\ request = <<>>
  /\ attempts = 0 /\ total = 0 /\ context = <<>>

Numbers(s) == [i \in 1..Len(s) |-> i]

(* The diff is small enough: it is not touched.                            *)
TakeWhole ==
  /\ pc = "start" /\ Len(diff) <= budget
  /\ request' = diff /\ kept' = Numbers(Sections)
  /\ pc' = "context"
  /\ UNCHANGED <<inputVars, next, used, omitted, contextVars>>

(* Mutant of PreambleFits: the early return of trim_diff_to_budget() is    *)
(* gone.                                                                   *)
PreambleAlwaysFits == TRUE

PreambleFits == Len(Preamble) <= budget

StartTrim ==
  /\ pc = "start" /\ Len(diff) > budget
  /\ IF PreambleFits
     THEN used' = Len(Preamble) /\ pc' = "trim" /\ UNCHANGED omitted
     ELSE omitted' = Numbers(Sections) /\ pc' = "notice" /\ UNCHANGED used
  /\ UNCHANGED <<inputVars, next, kept, request, contextVars>>

(* Unsigned arithmetic.                                                    *)
Room == (budget - used) % SizeMax

KeepSection ==
  /\ pc = "trim" /\ next <= Len(Sections)
  /\ Len(Sections[next].text) <= Room
  /\ used' = used + Len(Sections[next].text)
  /\ kept' = Append(kept, next)
  /\ next' = next + 1
  /\ UNCHANGED <<pc, inputVars, omitted, request, contextVars>>

(* A section that does not fit does not stop the later ones.               *)
OmitSection ==
  /\ pc = "trim" /\ next <= Len(Sections)
  /\ Len(Sections[next].text) > Room
  /\ omitted' = Append(omitted, next)
  /\ next' = next + 1
  /\ UNCHANGED <<pc, inputVars, used, kept, request, contextVars>>

KeptText ==
  Preamble \o FlattenSeq([i \in 1..Len(kept) |-> Sections[kept[i]].text])

(* dispatch_review(): a notice instead of a review of nothing.             *)
EndTrim ==
  /\ pc = "trim" /\ next > Len(Sections)
  /\ IF kept = <<>> THEN pc' = "notice" /\ UNCHANGED request
                    ELSE pc' = "context" /\ request' = KeptText
  /\ UNCHANGED <<inputVars, trimVars, contextVars>>

(* get_pr_info() failed, or the pull request has no head: no context.      *)
SkipContext ==
  /\ pc = "context" /\ attempts = 0
  /\ pc' = "done"
  /\ UNCHANGED <<inputVars, trimVars, request, contextVars>>

Candidate == ChangedPaths(request)[attempts + 1]

(* Mutant of Fetching: only the number of files is looked at.              *)
FetchingDespiteZero ==
  /\ pc = "context"
  /\ attempts < caps.files /\ attempts < Len(ChangedPaths(request))

Fetching ==
  /\ pc = "context"
  /\ caps.total # 0 /\ attempts < caps.files
  /\ attempts < Len(ChangedPaths(request))

(* A file of n bytes is found, and fits.                                   *)
FetchFile ==
  /\ Fetching
  /\ \E n \in 0..MaxContent :
       /\ total + n <= caps.total
       /\ total' = total + n
       /\ context' = Append(context, [path |-> Candidate, size |-> n])
  /\ attempts' = attempts + 1
  /\ UNCHANGED <<pc, inputVars, trimVars, request>>

(* It is absent, too long or binary: go on with the next one.              *)
FetchNothing ==
  /\ Fetching
  /\ attempts' = attempts + 1
  /\ UNCHANGED <<pc, inputVars, trimVars, request, total, context>>

(* The call failed, or the file would go over the total: no further one.   *)
FetchStops ==
  /\ Fetching
  /\ attempts' = attempts + 1
  /\ pc' = "done"
  /\ UNCHANGED <<inputVars, trimVars, request, total, context>>

(* There is no further path, or no further call allowed.                   *)
ContextEnds ==
  /\ pc = "context"
  /\ \/ attempts >= Len(ChangedPaths(request))
     \/ caps.total = 0 \/ attempts >= caps.files
  /\ pc' = "done"
  /\ UNCHANGED <<inputVars, trimVars, request, contextVars>>

InputNext ==
  \/ TakeWhole \/ StartTrim \/ KeepSection \/ OmitSection \/ EndTrim
  \/ SkipContext \/ FetchFile \/ FetchNothing \/ FetchStops \/ ContextEnds

InputSpec == InputInit /\ [][InputNext]_reviewInputVars

-----------------------------------------------------------------------------
(* The paths a file may be taken for.  Without ---/+++ lines, or with      *)
(* quoted ones, all but the last part of a path with " b/" in it is lost.  *)
Names(f) ==
  {f.path} \cup IF f.path \in Spaced /\ (f.path \in Quoted \/ Header(f) = <<>>)
               THEN {Rest} ELSE {}

(* Nothing of the diff is lost by the split, and each section is one file  *)
(* of the pull request, under its own path or none, and only taken for     *)
(* deleted if it is; whatever the lines of its hunks look like             *)
(* (reviewer.cpp:327-412, reviewer.hpp:177-188).                           *)
SectionsAreFiles ==
  /\ diff = Preamble \o FlattenSeq([i \in 1..Len(Sections) |-> Sections[i].text])
  /\ Len(Sections) = Len(files)
  /\ \A i \in 1..Len(files) :
       /\ Sections[i].text = Section(files[i])
       /\ Sections[i].path \in Names(files[i]) \cup {Unknown}
       /\ Sections[i].deleted => files[i].kind = "delete"

TextsOf(numbers) ==
  [k \in 1..Len(numbers) |-> Section(files[numbers[k]])]

(* What is left of a diff fits the budget, holds every file that is not    *)
(* reported as omitted, and no file was omitted that still had room after  *)
(* those kept before it (reviewer.cpp:414-452, reviewer.hpp:192-194).      *)
TrimIsGreedy ==
  pc \in {"context", "done"} =>
    /\ Len(request) <= budget
    /\ ToSet(kept) \cup ToSet(omitted) = 1..Len(files)
    /\ Len(kept) + Len(omitted) = Len(files)
    /\ \A i \in ToSet(omitted) :
         \E n \in 0..Len(kept) :
           /\ \A k \in 1..Len(kept) : kept[k] < i <=> k <= n
           /\ Len(Preamble) + Len(FlattenSeq(TextsOf(SubSeq(kept, 1, n))))
                + Len(Section(files[i])) > budget

SizeOf(found) ==
  LET size[n \in 0..Len(found)] ==
        IF n = 0 THEN 0 ELSE size[n - 1] + found[n].size
  IN  size[Len(found)]

(* The context holds files that the diff shows, each once, within both     *)
(* caps, and none that the diff shows as deleted; a deletion without       *)
(* ---/+++ lines does not show.  Where either cap is 0 not one file is     *)
(* asked for (watcher.cpp:492-527, reviewer.hpp:206-208, README.md:150).   *)
ContextIsShown ==
  /\ \A i \in 1..Len(context) :
       \E k \in ToSet(kept) : /\ context[i].path \in Names(files[k])
                              /\ files[k].kind # "delete"
  /\ IsInjective([i \in 1..Len(context) |-> context[i].path])
  /\ total = SizeOf(context)
  /\ total <= caps.total
  /\ Len(context) <= attempts /\ attempts <= caps.files
  /\ caps.total = 0 => attempts = 0
=============================================================================
