----------------------------- MODULE MCDecisions ----------------------------
(* The parts of the bot that decide something on their own, each in its    *)
(* own behaviours: part says which one moves, the others are at rest.      *)
EXTENDS CollabCache, ReviewInput, Payload, CommentText, Startup

CONSTANTS alice, mallory, nobody, a, q, s, qs, tail, unknown, minus, junk

VARIABLE part

MCHandleChars == {"b", "B", "n"}
MCChars == MCHandleChars \cup {At, LineFeed, Quote, Backslash}
MCLower == [c \in MCChars |-> IF c = "B" THEN "b" ELSE c]
MCComments == BoundedSeq({"b", "B", "n", At, LineFeed}, 4)
MCHandles == {<<>>, <<"b">>, <<"B", "n">>, <<"b", "b", "b">>}
MCPosts == BoundedSeq({"n", Backslash, Quote, LineFeed, Control}, 3)
MCContents == BoundedSeq({"word", Newline, Stale}, 2)
MCContextFile == [path : {<<"word">>, <<"word", Newline, Stale>>},
                  content : {<<>>, <<"word">>, <<"word", Newline>>}]
MCContextCaps ==
  {[total |-> 2, files |-> 2], [total |-> 0, files |-> 2],
   [total |-> 2, files |-> 0]}
MCEntries == {<<"word">>, <<Newline, Stale>>}

CacheRest ==
  /\ clock = 1 /\ member = [u \in Users |-> FALSE]
  /\ since = [u \in Users |-> 0] /\ changes = 0
  /\ cache = [u \in Users |-> [collab |-> FALSE, expires |-> 0]]
  /\ asking = Nobody /\ begun = 0 /\ seen = "nothing" /\ answer = NoAnswer

InputRest ==
  /\ pc = "done" /\ files = <<>> /\ budget = 0 /\ diff = <<>>
  /\ caps = [total |-> 0, files |-> 0]
  /\ next = 1 /\ used = 0 /\ kept = <<>> /\ omitted = <<>> /\ request = <<>>
  /\ attempts = 0 /\ total = 0 /\ context = <<>>

PayloadRest ==
  /\ review = [title |-> <<>>, body |-> <<>>, diff |-> <<>>,
               omitted |-> <<>>, files |-> <<>>]
  /\ payload = <<>>

CommentRest ==
  wrote = <<>> /\ comment = <<>> /\ handle = <<>> /\ from = 1 /\ heard = "no"

JsonRest == raw = <<>> /\ means = <<>> /\ place = 1 /\ text = <<>>

StartupRest ==
  /\ program = "tool" /\ env = WithNumbers(Unset, Unset, Unset)
  /\ config = [timeout |-> Refused, diff |-> Refused, fetch |-> Refused]
  /\ step = "reviewer" /\ exit = NotYet

PartsInit ==
  /\ part \in {"cache", "input", "payload", "comment", "json", "startup"}
  /\ IF part = "cache" THEN CacheInit ELSE CacheRest
  /\ IF part = "input" THEN InputInit ELSE InputRest
  /\ IF part = "payload" THEN PayloadInit ELSE PayloadRest
  /\ IF part = "comment" THEN CommentInit ELSE CommentRest
  /\ IF part = "json" THEN JsonInit ELSE JsonRest
  /\ IF part = "startup" THEN StartInit ELSE StartupRest

OthersRest ==
  /\ UNCHANGED part
  /\ part # "cache" => UNCHANGED cacheVars
  /\ part # "input" => UNCHANGED reviewInputVars
  /\ part # "payload" => UNCHANGED payloadVars
  /\ part # "comment" => UNCHANGED commentVars
  /\ part # "json" => UNCHANGED jsonVars
  /\ part # "startup" => UNCHANGED startVars

PartsNext ==
  \/ part = "cache" /\ CacheNext /\ OthersRest
  \/ part = "input" /\ InputNext /\ OthersRest
  \/ part = "payload" /\ Assemble /\ OthersRest
  \/ part = "comment" /\ CommentNext /\ OthersRest
  \/ part = "json" /\ JsonNext /\ OthersRest
  \/ part = "startup" /\ StartNext /\ OthersRest

partsVars == <<part, cacheVars, reviewInputVars, payloadVars, commentVars,
               jsonVars, startVars>>

PartsSpec == PartsInit /\ [][PartsNext]_partsVars

(* Comments only.                                                          *)
CommentsSpec == part = "comment" /\ PartsSpec
=============================================================================
