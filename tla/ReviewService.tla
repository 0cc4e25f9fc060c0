---------------------------- MODULE ReviewService ---------------------------
(***************************************************************************)
(* What the bot is for, without how it does it: people ask for reviews,    *)
(* each request is answered at most once, and what the service has noted   *)
(* as done has been answered.  It may forget its notes at any time.        *)
(***************************************************************************)
VARIABLES asked,    \* the requests made so far
          answers,  \* the answers given, as records [id, request]
          noted     \* the requests noted as done

vars == <<asked, answers, noted>>

Answered == {a.request : a \in answers}

Init == asked = {} /\ answers = {} /\ noted = {}

(* Requests are made, and stay made.                                       *)
Ask == asked \subseteq asked' /\ UNCHANGED <<answers, noted>>

(* One that was made and has no answer is given one, for good.             *)
Answer ==
  /\ \E a \in answers' : /\ a.request \in asked \ Answered
                         /\ answers' = answers \cup {a}
  /\ UNCHANGED <<asked, noted>>

Note ==
  /\ \E r \in Answered : noted' = noted \cup {r}
  /\ UNCHANGED <<asked, answers>>

Forget == noted' \subseteq noted /\ UNCHANGED <<asked, answers>>

Next == Ask \/ Answer \/ Note \/ Forget

Spec == Init /\ [][Next]_vars
=============================================================================
