--------------------------- MODULE RequestsProofs ---------------------------
(***************************************************************************)
(* Proofs about one REST call: for every number of retries, every cap and  *)
(* bound, every body and whatever a server writes into Retry-After.        *)
(***************************************************************************)
EXTENDS Requests, TLAPS

TypeOK ==
  /\ pc \in {"idle", "send", "sleep", "done"}
  /\ kind \in Kinds
  /\ attempt \in Nat
  /\ answer \in Answers
  /\ wait \in Nat
  /\ asked \in RetryAfters \cup {-1}
  /\ body \in Seq(Nat)
  /\ left \in Nat
  /\ cut \in BOOLEAN
  /\ result \in Outcomes
  /\ landed \in Nat

(* A POST is sent once, and nothing else is ever applied.                  *)
PostInv ==
  /\ pc \in {"send", "sleep"} => attempt > 0
  /\ kind = "POST" => /\ pc # "sleep"
                      /\ pc = "send" => landed = 0 /\ attempt = 1
  /\ kind # "POST" => landed = 0
  /\ landed <= 1

(* What has been received belongs to the attempt under way.                *)
BodyInv ==
  /\ pc \in {"send", "done"} => \A i \in 1..Len(body) : body[i] = attempt
  /\ cut => pc = "done" /\ Len(body) = Cap /\ left > 0
  /\ pc = "done" /\ ~cut /\ result.status = 200 => left = 0

Inv == TypeOK /\ PostInv /\ BodyInv /\ FatalIffRefused /\ WaitsAsAsked

-----------------------------------------------------------------------------
(* The client's own wait is at least a second and within its bound.        *)
LEMMA DoubledPositive ==
  ASSUME NEW n \in Nat PROVE Doubled(n) \in Nat \ {0}
<1>1. Lesser(n, 6) \in 0..6
  BY DEF Lesser
<1>2. \A k \in 1..7 : <<1, 2, 4, 8, 16, 32, 64>>[k] \in Nat \ {0}
  OBVIOUS
<1> QED BY <1>1, <1>2 DEF Doubled

(* Every wait is between a second and the bound, and at least what the     *)
(* server asked for if that is below the bound (sleep_backoff()).          *)
LEMMA BackoffBounds ==
  ASSUME NEW n \in Nat, NEW v \in Nat
  PROVE  /\ Backoff(n, v) \in 1..MaxWait
         /\ v <= MaxWait => Backoff(n, v) >= v
BY DoubledPositive, NumbersAssumption DEF Backoff, RetryAfter, Lesser

(* Only a 403 can say that it is a rate limit.                             *)
LEMMA AnswerFields ==
  ASSUME NEW x \in Answers
  PROVE  /\ x.status \in Statuses /\ x.limited \in BOOLEAN
         /\ x.limited => x.status = 403
<1>1. CASE \E c \in Statuses : x = [status |-> c, limited |-> FALSE]
  BY <1>1
<1>2. CASE x = [status |-> 403, limited |-> TRUE]
  BY <1>2 DEF Statuses
<1> QED BY <1>1, <1>2 DEF Answers

LEMMA NoneOutcome == None \in Outcomes
BY DEF None, Outcomes, Statuses

LEMMA EmptyBody == <<>> \in Seq(Nat)
OBVIOUS

LEMMA InitInv == Init => Inv
<1> SUFFICES ASSUME Init PROVE Inv
  OBVIOUS
<1>1. answer \in Answers
  BY DEF Init, Answers, Statuses
<1>2. TypeOK
  BY <1>1, NoneOutcome, EmptyBody DEF Init, TypeOK, Kinds
<1>3. PostInv /\ BodyInv /\ FatalIffRefused /\ WaitsAsAsked
  BY DEF Init, PostInv, BodyInv, FatalIffRefused, WaitsAsAsked
<1> QED BY <1>2, <1>3 DEF Inv

LEMMA CallInv == ASSUME Inv, NEW k \in Kinds, Call(k) PROVE Inv'
<1> USE DEF Call
<1>1. TypeOK'
  <2>1. left' \in Nat
    BY NumbersAssumption
  <2> QED BY <2>1, NoneOutcome, EmptyBody DEF Inv, TypeOK
<1>2. PostInv' /\ BodyInv'
  BY DEF PostInv, BodyInv, None
<1>3. FatalIffRefused' /\ WaitsAsAsked'
  BY DEF FatalIffRefused, WaitsAsAsked
<1> QED BY <1>1, <1>2, <1>3 DEF Inv

LEMMA ReceiveInv == ASSUME Inv, Receive PROVE Inv'
<1> USE DEF Inv, Receive
<1>1. TypeOK'
  BY DEF TypeOK
<1>2. PostInv'
  BY DEF PostInv
<1>3. BodyInv'
  BY DEF BodyInv, TypeOK
<1>4. FatalIffRefused' /\ WaitsAsAsked'
  BY DEF FatalIffRefused, WaitsAsAsked
<1> QED BY <1>1, <1>2, <1>3, <1>4

LEMMA CutInv == ASSUME Inv, CutAtCap PROVE Inv'
<1> USE DEF Inv, CutAtCap
<1>1. TypeOK'
  BY DEF TypeOK, None, Outcomes, Statuses
<1>2. PostInv'
  BY DEF PostInv
<1>3. BodyInv'
  BY DEF BodyInv, TypeOK
<1>4. FatalIffRefused' /\ WaitsAsAsked'
  BY DEF FatalIffRefused, WaitsAsAsked
<1> QED BY <1>1, <1>2, <1>3, <1>4

LEMMA WakeInv == ASSUME Inv, Wake PROVE Inv'
<1> USE DEF Inv, Wake
<1>1. TypeOK'
  <2>1. left' \in Nat
    BY NumbersAssumption
  <2> QED BY <2>1 DEF TypeOK
<1>2. PostInv'
  BY DEF PostInv, TypeOK
<1>3. BodyInv'
  BY DEF BodyInv
<1>4. FatalIffRefused' /\ WaitsAsAsked'
  BY DEF FatalIffRefused, WaitsAsAsked
<1> QED BY <1>1, <1>2, <1>3, <1>4

LEMMA AnswerInv == ASSUME Inv, NEW x \in Answers, Answer(x) PROVE Inv'
<1> USE DEF Inv
<1>a. /\ pc = "send" /\ answer' = x /\ Applies(x)
      /\ UNCHANGED <<kind, attempt, body, left, cut>>
      /\ x.status = 200 => left = 0
  BY DEF Answer
<1>b. landed' \in Nat /\ landed' <= 1 /\ (kind # "POST" => landed' = 0)
  BY <1>a DEF Applies, PostInv, TypeOK
<1>1. CASE x.status = 200 /\ Return(None)
  <2>1. TypeOK'
    BY <1>1, <1>a, <1>b DEF Return, TypeOK, None, Outcomes, Statuses
  <2>2. PostInv' /\ BodyInv'
    BY <1>1, <1>a, <1>b DEF Return, PostInv, BodyInv, TypeOK
  <2>3. FatalIffRefused' /\ WaitsAsAsked'
    BY <1>1, <1>a DEF Return, FatalIffRefused, WaitsAsAsked, Fatal, None
  <2> QED BY <2>1, <2>2, <2>3
<1>2. CASE /\ x.status # 200 /\ attempt < MaxAttempts
           /\ \E v \in RetryAfters \cup {-1} : Retry(v)
  <2>1. PICK v \in RetryAfters \cup {-1} : Retry(v)
    BY <1>2
  <2> DEFINE n == IF v = -1 THEN 0 ELSE v
  <2>2. n \in Nat /\ v <= n
    BY NumbersAssumption
  <2>3. Backoff(attempt, n) \in 1..MaxWait
        /\ (n <= MaxWait => Backoff(attempt, n) >= n)
    BY <2>2, BackoffBounds DEF TypeOK
  <2>4. pc' = "sleep" /\ wait' = Backoff(attempt, n) /\ asked' = v /\ result' = result
    BY <2>1 DEF Retry
  <2>5. kind # "POST"
    BY <1>2, <1>a DEF MaxAttempts, PostInv
  <2>6. TypeOK'
    <3>1. wait' \in Nat
      BY <2>3, <2>4, NumbersAssumption
    <3> QED BY <3>1, <2>4, <1>a, <1>b DEF TypeOK
  <2>7. PostInv' /\ BodyInv'
    BY <2>4, <2>5, <1>a, <1>b DEF PostInv, BodyInv
  <2>8. FatalIffRefused'
    BY <2>4 DEF FatalIffRefused
  <2>9. WaitsAsAsked'
    <3> DEFINE b == Backoff(attempt, n)
    <3>1. b \in 1..MaxWait /\ (n <= MaxWait => b >= n)
      BY <2>3
    <3>2. v <= MaxWait => b >= v
      BY <3>1, NumbersAssumption
    <3> HIDE DEF b
    <3>3. wait' = b /\ asked' = v
      BY <2>4 DEF b
    <3> QED BY <3>1, <3>2, <3>3 DEF WaitsAsAsked
  <2> QED BY <2>6, <2>7, <2>8, <2>9
<1>3. CASE /\ x.status # 200
           /\ Return([status |-> x.status, transient |-> x.limited])
  <2>1. /\ pc' = "done" /\ wait' = wait /\ asked' = asked
        /\ result' = [status |-> x.status, transient |-> x.limited]
    BY <1>3 DEF Return
  <2>2. result'.status = x.status /\ result'.transient = x.limited
        /\ result' \in Outcomes
    BY <2>1, AnswerFields DEF Outcomes
  <2>3. TypeOK'
    BY <2>1, <2>2, <1>a, <1>b DEF TypeOK
  <2>4. PostInv' /\ BodyInv'
    BY <2>1, <2>2, <1>3, <1>a, <1>b DEF PostInv, BodyInv
  <2>5. FatalIffRefused' /\ WaitsAsAsked'
    BY <2>1, <2>2, <1>a, AnswerFields DEF FatalIffRefused, WaitsAsAsked, Fatal
  <2> QED BY <2>3, <2>4, <2>5
<1> QED BY <1>1, <1>2, <1>3 DEF Answer, Retryable

LEMMA StutterInv == ASSUME Inv, UNCHANGED vars PROVE Inv'
BY DEF Inv, TypeOK, PostInv, BodyInv, FatalIffRefused, WaitsAsAsked, vars,
       Fatal

LEMMA NextInv == ASSUME Inv, [Next]_vars PROVE Inv'
BY CallInv, ReceiveInv, CutInv, WakeInv, AnswerInv, StutterInv
   DEF Next, Progress

LEMMA InvAlways == Spec => []Inv
<1>1. Inv /\ [Next]_vars => Inv'
  BY NextInv
<1> QED BY InitInv, <1>1, PTL DEF Spec

(* What is thrown ends the process exactly for an answer that polling      *)
(* harder does not cure (GithubError::transient() and is_fatal_github()).  *)
THEOREM FatalTheorem == Spec => []FatalIffRefused
BY InvAlways, PTL DEF Inv

(* No call writes twice: a POST has one attempt (request()).               *)
THEOREM WritesOnceTheorem == Spec => []WritesOnce
<1>1. Inv => WritesOnce
  BY DEF Inv, PostInv, WritesOnce
<1> QED BY InvAlways, <1>1, PTL

(* What a stream returns is one attempt's body, whole or cut at the cap    *)
(* (stream_diff(), get_file_at_ref()).                                     *)
THEOREM StreamTheorem == Spec => []StreamIsOneAttempt
<1>1. Inv => StreamIsOneAttempt
  BY DEF Inv, BodyInv, StreamIsOneAttempt
<1> QED BY InvAlways, <1>1, PTL

(* No wait is longer than the bound, or shorter than what was asked for    *)
(* below it (sleep_backoff()).                                             *)
THEOREM WaitsTheorem == Spec => []WaitsAsAsked
BY InvAlways, PTL DEF Inv
=============================================================================
