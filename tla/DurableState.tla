---------------------------- MODULE DurableState ----------------------------
(***************************************************************************)
(* What the rest of the bot takes the StateStore for: a file that one      *)
(* process at a time reads once, when it starts, and then replaces as a    *)
(* whole.  A replacement is visible at once; until it is synced a power    *)
(* loss may bring back a file that was replaced.  StateStore implements    *)
(* this with a lock file, a temporary file and rename().                   *)
(***************************************************************************)
CONSTANTS Procs,   \* the processes started on this state file
          NoProc,  \* nobody
          Marks    \* what a process records: reviewed PRs, handled comments

VARIABLES owner,     \* the process that has the state
          view,      \* view[p]: what p has in memory
          file,      \* what the file says
          survivors  \* what the file may say after a power loss

vars == <<owner, view, file, survivors>>

Init ==
  /\ owner = NoProc
  /\ view = [p \in Procs |-> {}]
  /\ file = {} /\ survivors = {{}}

Open(p) ==
  /\ owner = NoProc
  /\ owner' = p
  /\ view' = [view EXCEPT ![p] = file]
  /\ UNCHANGED <<file, survivors>>

Mark(p) ==
  /\ owner = p
  /\ \E m \in Marks : view' = [view EXCEPT ![p] = @ \cup {m}]
  /\ UNCHANGED <<owner, file, survivors>>

Replace(p) ==
  /\ owner = p
  /\ file' = view[p]
  /\ survivors' = survivors \cup {view[p]}
  /\ UNCHANGED <<owner, view>>

Sync(p) ==
  /\ owner = p
  /\ survivors' = {file}
  /\ UNCHANGED <<owner, view, file>>

(* The process ends, in whatever way.                                      *)
Leave(p) ==
  /\ owner = p
  /\ owner' = NoProc
  /\ view' = [view EXCEPT ![p] = {}]
  /\ UNCHANGED <<file, survivors>>

PowerLoss ==
  /\ owner' = NoProc
  /\ view' = [p \in Procs |-> {}]
  /\ file' \in survivors
  /\ survivors' = {file'}

Next ==
  \/ \E p \in Procs : Open(p) \/ Mark(p) \/ Replace(p) \/ Sync(p) \/ Leave(p)
  \/ PowerLoss

Spec == Init /\ [][Next]_vars
=============================================================================
