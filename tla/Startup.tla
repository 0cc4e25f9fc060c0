------------------------------- MODULE Startup ------------------------------
(***************************************************************************)
(* From the environment to the first tick: the settings (config.cpp), the  *)
(* start of the bot (main.cpp) and the run-reviewer tool                   *)
(* (tools/run_reviewer.cpp), which shares the reviewer's settings.  The    *)
(* settings that are only copied or looked up in a list are one choice.    *)
(***************************************************************************)
EXTENDS Integers, SequencesExt

CONSTANTS Digits,     \* 0..Base - 1
          Others,     \* characters that are no digits, signs among them
          MaxDigits,  \* bound: characters of a number
          IntMax, SizeLimit,  \* the largest int and std::size_t
          TimeoutMax, \* kSubprocessTimeoutMaxSec
          Grace,      \* kCodexmonGraceSec
          DefaultTimeout, DefaultDiff, \* of struct Config
          FileCap     \* kPromptFileMax, in buffers of read_text_file()

ASSUME WidthsAssumption ==
  /\ {TimeoutMax, DefaultTimeout, DefaultDiff, FileCap, Grace, IntMax,
      SizeLimit} \subseteq Nat
  /\ DefaultTimeout \in 1..TimeoutMax /\ TimeoutMax + Grace <= IntMax
  /\ DefaultDiff \in 1..SizeLimit

Refused == -1
Unset == <<>>         \* a number that is not set, or is empty
NoFile == -2          \* *_FILE is not set
Missing == -1         \* *_FILE names no file that can be read

(* What people set a number to, and a few values for the other numbers.    *)
Texts == BoundedSeq(Digits \cup Others, MaxDigits)
CommonTexts == {Unset, <<1>>, <<1, 0>>}

VARIABLES program,  \* "bot" or "tool"
          env,      \* the environment
          config,   \* the numbers in use, Refused before they are read
          step,
          exit      \* the exit code and the step it comes from

settingVars == <<program, env, config>>
startVars == <<settingVars, step, exit>>

Environments ==
  [others : BOOLEAN,               \* the reviewer's other settings are right
   rest : BOOLEAN,                 \* the bot's other numbers are right
   timeout : CommonTexts, diff : CommonTexts, fetch : CommonTexts,
   literal : BOOLEAN, file : NoFile..(FileCap + 1)]

WithNumbers(t, d, f) ==
  [others |-> TRUE, rest |-> TRUE, timeout |-> t, diff |-> d, fetch |-> f,
   literal |-> FALSE, file |-> NoFile]

NotYet == [code |-> 0, at |-> "none"]

(* Either any numbers and an ordinary rest, or the other way round.        *)
StartInit ==
  /\ program \in {"bot", "tool"}
  /\ \/ env \in Environments
     \/ \E t \in Texts, c, d \in CommonTexts :
          env \in {WithNumbers(t, c, d), WithNumbers(c, t, d), WithNumbers(c, d, t)}
  /\ config = [timeout |-> Refused, diff |-> Refused, fetch |-> Refused]
  /\ step = IF program = "bot" THEN "require" ELSE "reviewer"
  /\ exit = NotYet

-----------------------------------------------------------------------------
(* The value of a sequence of digits.                                      *)
ValueOf(digits) ==
  FoldLeft(LAMBDA n, d : n * Cardinality(Digits) + d, 0, digits)

(* std::from_chars(): the digits at the beginning.                         *)
Prefix(t) ==
  SubSeq(t, 1, Max({k \in 0..Len(t) : \A i \in 1..k : t[i] \in Digits}))

(* Mutant of ParseNonneg: what follows the digits is not looked at.        *)
ParseNonnegPrefix(t, lo, hi, widest) ==
  IF \/ Prefix(t) = <<>> \/ ValueOf(Prefix(t)) > widest
     \/ ValueOf(Prefix(t)) \notin lo..hi
  THEN Refused ELSE ValueOf(Prefix(t))

(* parse_nonneg(): no number, too wide for the type, trailing garbage, or  *)
(* out of range.                                                           *)
ParseNonneg(t, lo, hi, widest) ==
  IF \/ Prefix(t) = <<>> \/ ValueOf(Prefix(t)) > widest
     \/ Prefix(t) # t    \/ ValueOf(Prefix(t)) \notin lo..hi
  THEN Refused ELSE ValueOf(Prefix(t))

NumberOr(t, fallback, lo, hi, widest) ==
  IF t = Unset THEN fallback ELSE ParseNonneg(t, lo, hi, widest)

(* Mutant of FiveTimes: the product wraps.                                 *)
FiveTimesWraps(n) == (n * 5) % (SizeLimit + 1)

FiveTimes(n) ==
  IF n > SizeLimit \div 5 THEN SizeLimit ELSE (n * 5) % (SizeLimit + 1)

-----------------------------------------------------------------------------
Leave(code) == step' = "left" /\ exit' = [code |-> code, at |-> step]

SetupCode == IF program = "bot" THEN 1 ELSE 2

Fails == Leave(SetupCode) /\ UNCHANGED settingVars

(* Config::from_env(): what must be set.                                   *)
Require ==
  /\ step = "require"
  /\ \/ Fails
     \/ step' = "reviewer"
        /\ UNCHANGED <<settingVars, exit>>

(* Mutant of ReadTextFile: the cap is looked at once, before the last read.  *)
ReadTextFileLate(f) == f \in 0..(FileCap + 1)

(* read_text_file().                                                       *)
ReadTextFile(f) == f \in 0..FileCap

Timeout == NumberOr(env.timeout, DefaultTimeout, 1, TimeoutMax, IntMax)

ReviewerIsWrong ==
  \/ ~env.others
  \/ env.literal /\ env.file # NoFile
  \/ env.file # NoFile /\ ~ReadTextFile(env.file)
  \/ Timeout = Refused

(* apply_reviewer_env(); the guide is read like the prompt.                *)
LoadReviewer ==
  /\ step = "reviewer"
  /\ IF ReviewerIsWrong THEN Fails
     ELSE /\ config' = [config EXCEPT !.timeout = Timeout]
          /\ step' = IF program = "bot" THEN "limits" ELSE "input"
          /\ UNCHANGED <<program, env, exit>>

Diff == NumberOr(env.diff, DefaultDiff, 1, SizeLimit, SizeLimit)
Fetch == NumberOr(env.fetch, FiveTimes(Diff), 1, SizeLimit, SizeLimit)

(* Mutant of LimitsAreWrong: the two limits are not compared.              *)
LimitsAreWrongApart == ~env.rest \/ Diff = Refused \/ Fetch = Refused

LimitsAreWrong ==
  ~env.rest \/ Diff = Refused \/ Fetch = Refused \/ Fetch < Diff

(* The rest of Config::from_env(), which only the bot calls.               *)
LoadLimits ==
  /\ step = "limits"
  /\ IF LimitsAreWrong THEN Fails
     ELSE /\ config' = [config EXCEPT !.diff = Diff, !.fetch = Fetch]
          /\ step' = "store"
          /\ UNCHANGED <<program, env, exit>>

Pass(to) == step' = to /\ UNCHANGED <<settingVars, exit>>

(* The bot opens its state file, which another one may hold.               *)
OpenStore == step = "store" /\ (Fails \/ Pass("preflight"))

(* The tool reads a diff: there may be no file, or nothing in it.          *)
ReadDiff == step = "input" /\ (Fails \/ Pass("preflight"))

Preflight ==
  /\ step = "preflight"
  /\ Fails \/ Pass(IF program = "bot" THEN "serving" ELSE "review")

(* The tool's only review: printed, or an error.                           *)
RunReviewer ==
  /\ step = "review"
  /\ \E code \in {0, 1} : Leave(code)
  /\ UNCHANGED settingVars

StartNext ==
  \/ Require \/ LoadReviewer \/ LoadLimits \/ OpenStore \/ ReadDiff
  \/ Preflight \/ RunReviewer

StartSpec == StartInit /\ [][StartNext]_startVars

-----------------------------------------------------------------------------
(* A number as it is written: nothing but digits, and in its range.        *)
Number(t, lo, hi) == (\A i \in 1..Len(t) : t[i] \in Digits) /\ ValueOf(t) \in lo..hi

IsExact(t, fallback, lo, hi, value) ==
  IF t = Unset THEN value = fallback ELSE Number(t, lo, hi) /\ value = ValueOf(t)

(* What the reviewer's part of an environment must be; the timeout last.   *)
ReviewerIsRight ==
  /\ env.others
  /\ ~env.literal \/ env.file = NoFile
  /\ env.file \in {NoFile} \cup 0..FileCap
  /\ env.timeout = Unset \/ Number(env.timeout, 1, TimeoutMax)

LimitsAreRight ==
  LET least == IF env.diff = Unset THEN DefaultDiff ELSE ValueOf(env.diff)
  IN  /\ env.rest
      /\ env.diff = Unset \/ Number(env.diff, 1, SizeLimit)
      /\ env.fetch = Unset \/ Number(env.fetch, least, SizeLimit)

(* The numbers that are added or multiplied later fit their types: the     *)
(* time codexmon has beyond its own timeout, and the default limit of a    *)
(* download, which is never below what a review may hold (config.cpp:199-  *)
(* 209, 383-396; reviewer_agent.cpp:53-57).                                *)
LimitsFit ==
  /\ config.timeout # Refused => config.timeout + Grace <= IntMax
  /\ config.diff # Refused =>
       /\ config.diff <= config.fetch /\ config.fetch <= SizeLimit
       /\ env.fetch = Unset => config.fetch = Min({5 * config.diff, SizeLimit})

(* A number is in use exactly as it was written, or by default where       *)
(* nothing was; and both programs stop at the settings only for one that   *)
(* is wrong, and at every one (config.cpp:40-79, 241-412); and all fit.    *)
SettingsAreExact ==
  /\ LimitsFit
  /\ config.timeout # Refused =>
       /\ ReviewerIsRight
       /\ IsExact(env.timeout, DefaultTimeout, 1, TimeoutMax, config.timeout)
  /\ config.diff # Refused =>
       /\ LimitsAreRight
       /\ IsExact(env.diff, DefaultDiff, 1, SizeLimit, config.diff)
       /\ IsExact(env.fetch, config.fetch, config.diff, SizeLimit, config.fetch)
  /\ exit.at = "reviewer" => ~ReviewerIsRight
  /\ exit.at = "limits" => ~LimitsAreRight
=============================================================================
