------------------------------ MODULE Requests ------------------------------
(***************************************************************************)
(* github_client.cpp: one REST call of the client with its retries, either *)
(* through request() ("GET", "POST") or through the streaming loops of     *)
(* stream_diff() and get_file_at_ref() ("stream"), which collect a body    *)
(* piece by piece and stop at a cap.  What a call returns or throws is     *)
(* what Watcher's CallFails, CallFatal and Post* actions start from.       *)
(*                                                                         *)
(* The piece that goes over the cap ends the transfer whatever the status: *)
(* the loops look at the status only of an answer that they read whole.    *)
(***************************************************************************)
EXTENDS Integers, Sequences

CONSTANTS Retries,     \* attempts of a call that may be retried (6)
          MaxBackoff,  \* the longest wait the client chooses itself (60)
          MaxWait,     \* the longest wait a server can ask for (600)
          IntMax,      \* the largest int
          RetryAfters, \* what servers write into Retry-After
          Sizes,       \* the sizes of streamed bodies, in pieces
          Cap          \* the pieces that fit below the cap

ASSUME NumbersAssumption ==
  /\ Retries \in Nat \ {0} /\ Cap \in Nat
  /\ MaxBackoff \in Nat \ {0} /\ MaxWait \in Nat /\ IntMax \in Nat
  /\ MaxBackoff <= MaxWait /\ MaxWait <= IntMax
  /\ RetryAfters \subseteq Nat /\ Sizes \subseteq Nat

VARIABLES pc,      \* "idle", "send", "sleep" or "done"
          kind,    \* "GET", "POST" or "stream"
          attempt, \* attempts started
          answer,  \* the last answer: its status, and whether a 403 says
                   \* that it is a rate limit; status 0 is a network error
          wait,    \* the seconds to sleep before the next attempt
          asked,   \* history: the seconds Retry-After asked for, or -1
          body,    \* the pieces received, each named after its attempt
          left,    \* the pieces the server still has to send
          cut,     \* the body was cut at the cap
          result,  \* what the call returns (200) or throws
          landed   \* history: POSTs GitHub applied in this call

vars == <<pc, kind, attempt, answer, wait, asked, body, left, cut, result,
          landed>>

Kinds == {"GET", "POST", "stream"}
Statuses == {0, 200, 401, 403, 404, 422, 429, 500}
Answers == {[status |-> s, limited |-> FALSE] : s \in Statuses}
           \cup {[status |-> 403, limited |-> TRUE]}
Outcomes == [status : Statuses, transient : BOOLEAN]
None == [status |-> 200, transient |-> FALSE]

Init ==
  /\ pc = "idle" /\ kind = "GET" /\ attempt = 0
  /\ answer = [status |-> 200, limited |-> FALSE]
  /\ wait = 0 /\ asked = -1
  /\ body = <<>> /\ left = 0 /\ cut = FALSE
  /\ result = None /\ landed = 0

-----------------------------------------------------------------------------
MaxAttemptsForAll == Retries   \* mutant of MaxAttempts: POSTs are retried

MaxAttempts == IF kind = "POST" THEN 1 ELSE Retries

(* parse_retry_after(): a number that is no int is no answer.              *)
RetryAfter(v) == IF v <= IntMax THEN v ELSE 0

Lesser(m, n) == IF m <= n THEN m ELSE n

(* 1 << min(n, 6).                                                         *)
Doubled(n) == <<1, 2, 4, 8, 16, 32, 64>>[Lesser(n, 6) + 1]

BackoffUncapped(n, v) ==   \* mutant of Backoff: the server is believed
  IF RetryAfter(v) > 0 THEN RetryAfter(v) ELSE Lesser(MaxBackoff, Doubled(n))

(* sleep_backoff(): the wait the server asks for, or else a growing one.   *)
Backoff(n, v) ==
  IF RetryAfter(v) > 0 THEN Lesser(MaxWait, RetryAfter(v))
  ELSE Lesser(MaxBackoff, Doubled(n))

Retryable(a) == a.status \in {429, 500} \/ (a.status = 403 /\ a.limited)

(* is_fatal_github() of watcher.cpp, and main()'s copy of it.              *)
Fatal(r) == r.status \in {401, 422} \/ (r.status = 403 /\ ~r.transient)

Call(k) ==
  /\ pc \in {"idle", "done"}
  /\ kind' = k
  /\ pc' = "send" /\ attempt' = 1
  /\ body' = <<>> /\ cut' = FALSE
  /\ left' \in IF k = "stream" THEN Sizes ELSE {0}
  /\ landed' = 0 /\ asked' = -1 /\ result' = None
  /\ UNCHANGED <<answer, wait>>

(* One more piece of the body of a stream.                                 *)
Receive ==
  /\ pc = "send" /\ left > 0 /\ Len(body) < Cap
  /\ body' = Append(body, attempt)
  /\ left' = left - 1
  /\ UNCHANGED <<pc, kind, attempt, answer, wait, asked, cut, result, landed>>

(* The piece that does not fit: the transfer is aborted, be it the body of *)
(* an error.                                                               *)
CutAtCap ==
  /\ pc = "send" /\ left > 0 /\ Len(body) = Cap
  /\ answer' \in {a \in Answers : a.status # 0}
  /\ cut' = TRUE
  /\ pc' = "done" /\ result' = None
  /\ UNCHANGED <<kind, attempt, wait, asked, body, left, landed>>

Return(r) ==
  /\ pc' = "done" /\ result' = r
  /\ UNCHANGED <<wait, asked>>

Retry(v) ==
  /\ pc' = "sleep"
  /\ wait' = Backoff(attempt, IF v = -1 THEN 0 ELSE v)
  /\ asked' = v
  /\ UNCHANGED result

(* A POST may be applied although its answer says otherwise or is lost.    *)
Applies(a) ==
  \/ /\ kind = "POST" => a.status # 200
     /\ landed' = landed
  \/ /\ kind = "POST" /\ a.status \in {0, 200, 500}
     /\ landed' = landed + 1

(* Mutant of Answer: "after retries" is thrown without the transient flag. *)
AnswerForgetsLimit(a) ==
  /\ pc = "send"
  /\ a.status = 200 => left = 0
  /\ answer' = a
  /\ Applies(a)
  /\ IF a.status = 200 THEN Return(None)
     ELSE IF (a.status = 0 \/ Retryable(a)) /\ attempt < MaxAttempts
     THEN \E v \in RetryAfters \cup {-1} : Retry(v)
     ELSE Return([status |-> a.status, transient |-> FALSE])
  /\ UNCHANGED <<kind, attempt, body, left, cut>>

Answer(a) ==
  /\ pc = "send"
  /\ a.status = 200 => left = 0
  /\ answer' = a
  /\ Applies(a)
  /\ \/ /\ a.status = 200
        /\ Return(None)
     \/ /\ a.status = 0 /\ attempt < MaxAttempts
        /\ Retry(-1)
     \/ /\ Retryable(a) /\ attempt < MaxAttempts
        /\ \E v \in RetryAfters \cup {-1} : Retry(v)
     \/ /\ a.status # 200
        /\ attempt >= MaxAttempts \/ ~(a.status = 0 \/ Retryable(a))
        /\ Return([status |-> a.status, transient |-> a.limited])
  /\ UNCHANGED <<kind, attempt, body, left, cut>>

WakeKeepsBody ==   \* mutant of Wake: the loop does not clear out.body
  /\ pc = "sleep"
  /\ wait' = 0
  /\ attempt' = attempt + 1
  /\ left' \in IF kind = "stream" THEN Sizes ELSE {0}
  /\ pc' = "send"
  /\ UNCHANGED <<kind, answer, asked, body, cut, result, landed>>

WakeForgetsAttempt ==   \* mutant of Wake: attempts are not counted
  /\ pc = "sleep"
  /\ wait' = 0
  /\ body' = <<>>
  /\ left' \in IF kind = "stream" THEN Sizes ELSE {0}
  /\ pc' = "send"
  /\ UNCHANGED <<kind, attempt, answer, asked, cut, result, landed>>

(* The whole sleep: a signal does not end it.                              *)
Wake ==
  /\ pc = "sleep"
  /\ wait' = 0
  /\ attempt' = attempt + 1
  /\ body' = <<>>
  /\ left' \in IF kind = "stream" THEN Sizes ELSE {0}
  /\ pc' = "send"
  /\ UNCHANGED <<kind, answer, asked, cut, result, landed>>

Progress == Receive \/ CutAtCap \/ (\E a \in Answers : Answer(a)) \/ Wake
Next == (\E k \in Kinds : Call(k)) \/ Progress

Spec == Init /\ [][Next]_vars

(* Every attempt ends: the client's timeouts turn silence into status 0.   *)
FairSpec == Spec /\ WF_vars(Progress)

-----------------------------------------------------------------------------
(* Whatever a call throws for an answer that it read whole ends the        *)
(* process exactly if that answer was one that polling harder does not     *)
(* cure: a rate limit never does, not even when the attempts are used up   *)
(* or the call may not be retried (github_client.cpp:376-405, 855-873;     *)
(* watcher.cpp:25-32).                                                     *)
FatalIffRefused ==
  pc = "done" /\ ~cut =>
    (Fatal(result) <=>
       answer.status \in {401, 422}
         \/ (answer.status = 403 /\ ~answer.limited))

(* One call never writes twice (github_client.cpp:329-335).                *)
WritesOnce == landed <= 1

(* What a stream returns is one attempt's body, whole or cut exactly at    *)
(* the cap: pieces of a broken transfer are never kept                     *)
(* (github_client.cpp:692-715, 816-853).                                   *)
StreamIsOneAttempt ==
  pc = "done" /\ result.status = 200 /\ kind = "stream" =>
    /\ \A i \in 1 .. Len(body) : body[i] = attempt
    /\ IF cut THEN Len(body) = Cap /\ left > 0 ELSE left = 0

(* No wait is longer than the bound, or shorter than what the server asked *)
(* for below it (github_client.cpp:413-428).                               *)
WaitsAsAsked ==
  pc = "sleep" =>
    /\ wait \in 1 .. MaxWait
    /\ asked <= MaxWait => wait >= asked

(* Every call comes back.                                                  *)
CallsReturn == pc \in {"send", "sleep"} ~> pc = "done"

=============================================================================
