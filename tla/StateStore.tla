----------------------------- MODULE StateStore -----------------------------
(***************************************************************************)
(* state_store.cpp: the state file, its lock file and save(), at the level *)
(* of system calls.  A file is an inode and a name for it; what rename()   *)
(* and open() do to names is visible to every process at once, but after a *)
(* power loss the state file may be any inode it was since the directory   *)
(* was last synced, the temporary file may be any other, and of an inode   *)
(* that was not synced any prefix may be left.                             *)
(*                                                                         *)
(* Only the holder of the lock has the temporary file open, so its file    *)
(* descriptor is the name tmp.                                             *)
(***************************************************************************)
EXTENDS Naturals, FiniteSets

CONSTANTS Procs,    \* the processes started on this state file
          NoProc,   \* nobody
          Marks,    \* reviewed PRs, handled comments, cursor positions
          Inodes,   \* bound: the inodes of the file system
          NoInode,  \* a name that does not exist
          Chunks,   \* the write() calls that one save() needs
          PowerCuts \* TRUE: the power may fail

ASSUME NoneAssumption == NoProc \notin Procs /\ NoInode \notin Inodes
ASSUME ChunksAssumption == Chunks \in Nat \ {0}

VARIABLES lock,    \* the process that holds the flock
          pc,      \* pc[p]
          mem,     \* mem[p]: the sets in memory
          state,   \* the inode that path_ names
          tmp,     \* the inode that path_ + ".tmp" names
          inode,   \* the content of each inode
          platter, \* the inodes path_ may name after a power loss
          promised \* history: what the last save() that synced the
                   \* directory wrote

vars == <<lock, pc, mem, state, tmp, inode, platter, promised>>

Locations == {"off", "load", "idle", "write", "rename", "syncdir"}
Contents == [store : SUBSET Marks, written : 0 .. Chunks, synced : BOOLEAN]
Empty == [store |-> {}, written |-> 0, synced |-> TRUE]

(* No file, or an empty one, is a first run.                               *)
Read(i) ==
  IF i = NoInode THEN {}
  ELSE IF inode[i].written = 0 THEN {} ELSE inode[i].store

Whole(i) == i # NoInode => inode[i].written = Chunks

(* A proper prefix of the JSON: load() throws.                             *)
Torn(i) == i # NoInode /\ inode[i].written \in 1 .. Chunks - 1

Init ==
  /\ lock = NoProc
  /\ pc = [p \in Procs |-> "off"]
  /\ mem = [p \in Procs |-> {}]
  /\ state = NoInode /\ tmp = NoInode
  /\ inode = [i \in Inodes |-> Empty]
  /\ platter = {NoInode}
  /\ promised = {}

-----------------------------------------------------------------------------
(***************************************************************************)
(* The constructor.                                                        *)
(***************************************************************************)
LockIgnored(p) ==   \* mutant of Lock: the result of flock() is not looked at
  /\ pc[p] = "off"
  /\ lock' = p
  /\ pc' = [pc EXCEPT ![p] = "load"]
  /\ UNCHANGED <<mem, state, tmp, inode, platter, promised>>

(* A process that finds the lock taken exits and changes nothing.          *)
Lock(p) ==
  /\ pc[p] = "off" /\ lock = NoProc
  /\ lock' = p
  /\ pc' = [pc EXCEPT ![p] = "load"]
  /\ UNCHANGED <<mem, state, tmp, inode, platter, promised>>

Load(p) ==
  /\ pc[p] = "load" /\ ~Torn(state)
  /\ mem' = [mem EXCEPT ![p] = Read(state)]
  /\ pc' = [pc EXCEPT ![p] = "idle"]
  /\ UNCHANGED <<lock, state, tmp, inode, platter, promised>>

(* The process ends and gives up the lock: the destructor, a constructor   *)
(* that throws because the file cannot be read, or a crash at any point.   *)
Exit(p) ==
  /\ pc[p] # "off"
  /\ pc' = [pc EXCEPT ![p] = "off"]
  /\ mem' = [mem EXCEPT ![p] = {}]
  /\ lock' = NoProc
  /\ UNCHANGED <<state, tmp, inode, platter, promised>>

(* mark_reviewed(), mark_handled(), advance_cursor().                      *)
Mark(p, m) ==
  /\ pc[p] = "idle" /\ m \notin mem[p]
  /\ mem' = [mem EXCEPT ![p] = @ \cup {m}]
  /\ UNCHANGED <<lock, pc, state, tmp, inode, platter, promised>>

-----------------------------------------------------------------------------
(***************************************************************************)
(* save().                                                                 *)
(***************************************************************************)
Unused(i) == i # tmp /\ i # state /\ i \notin platter

(* O_CREAT | O_TRUNC: a temporary file that a crash left behind is reused. *)
OpenTmp(p) ==
  /\ pc[p] = "idle"
  /\ \E i \in Inodes :
       /\ i = tmp \/ (tmp = NoInode /\ Unused(i))
       /\ inode' = [inode EXCEPT ![i] =
                      [store |-> mem[p], written |-> 0, synced |-> FALSE]]
       /\ tmp' = i
  /\ pc' = [pc EXCEPT ![p] = "write"]
  /\ UNCHANGED <<lock, mem, state, platter, promised>>

Write(p) ==
  /\ pc[p] = "write" /\ inode[tmp].written < Chunks
  /\ inode' = [inode EXCEPT ![tmp].written = @ + 1]
  /\ UNCHANGED <<lock, pc, mem, state, tmp, platter, promised>>

FsyncSkipped(p) ==   \* mutant of Fsync: close() without fsync()
  /\ pc[p] = "write" /\ inode[tmp].written = Chunks
  /\ inode' = inode
  /\ pc' = [pc EXCEPT ![p] = "rename"]
  /\ UNCHANGED <<lock, mem, state, tmp, platter, promised>>

Fsync(p) ==
  /\ pc[p] = "write" /\ inode[tmp].written = Chunks
  /\ inode' = [inode EXCEPT ![tmp].synced = TRUE]
  /\ pc' = [pc EXCEPT ![p] = "rename"]
  /\ UNCHANGED <<lock, mem, state, tmp, platter, promised>>

(* write(), fsync() or rename() fails: unlink the temporary file, throw.   *)
SaveFails(p) ==
  /\ pc[p] \in {"write", "rename"}
  /\ tmp' = NoInode
  /\ pc' = [pc EXCEPT ![p] = "idle"]
  /\ UNCHANGED <<lock, mem, state, inode, platter, promised>>

Rename(p) ==
  /\ pc[p] = "rename"
  /\ state' = tmp /\ tmp' = NoInode
  /\ platter' = platter \cup {tmp}
  /\ pc' = [pc EXCEPT ![p] = "syncdir"]
  /\ UNCHANGED <<lock, mem, inode, promised>>

SyncDir(p) ==
  /\ pc[p] = "syncdir"
  /\ platter' = {state}
  /\ promised' = mem[p]
  /\ pc' = [pc EXCEPT ![p] = "idle"]
  /\ UNCHANGED <<lock, mem, state, tmp, inode>>

(* fsync_dir() is best effort: save() returns as if it had succeeded.      *)
SyncDirFails(p) ==
  /\ pc[p] = "syncdir"
  /\ pc' = [pc EXCEPT ![p] = "idle"]
  /\ UNCHANGED <<lock, mem, state, tmp, inode, platter, promised>>

-----------------------------------------------------------------------------
PowerLoss ==
  /\ PowerCuts
  /\ lock' = NoProc
  /\ pc' = [p \in Procs |-> "off"]
  /\ mem' = [p \in Procs |-> {}]
  /\ \E left \in [Inodes -> 0 .. Chunks] :
       inode' = [i \in Inodes |->
                   IF inode[i].synced \/ inode[i].written <= left[i]
                   THEN inode[i] ELSE [inode[i] EXCEPT !.written = left[i]]]
  /\ state' \in platter /\ platter' = {state'}
  /\ tmp' \in {NoInode} \cup (Inodes \ {state'})
  /\ UNCHANGED promised

Next ==
  \/ \E p \in Procs :
       \/ Lock(p) \/ Load(p) \/ Exit(p)
       \/ \E m \in Marks : Mark(p, m)
       \/ OpenTmp(p) \/ Write(p) \/ Fsync(p) \/ SaveFails(p)
       \/ Rename(p) \/ SyncDir(p) \/ SyncDirFails(p)
  \/ PowerLoss

Spec == Init /\ [][Next]_vars

-----------------------------------------------------------------------------
TypeOK ==
  /\ lock \in Procs \cup {NoProc}
  /\ pc \in [Procs -> Locations]
  /\ mem \in [Procs -> SUBSET Marks]
  /\ state \in Inodes \cup {NoInode}
  /\ tmp \in Inodes \cup {NoInode}
  /\ inode \in [Inodes -> Contents]
  /\ platter \subseteq Inodes \cup {NoInode}
  /\ promised \subseteq Marks

(* Whatever path_ names, now or after a power loss at this very moment, is *)
(* a whole file and holds at least what the last completed save() wrote:   *)
(* no crash, failed system call or second process loses or tears it        *)
(* (state_store.cpp:79-118, 208-258).                                      *)
SavedSurvives ==
  \A i \in platter \cup {state} :
    Whole(i) /\ (i # NoInode => inode[i].synced) /\ promised \subseteq Read(i)

(* The promise made to the rest of the bot.  A process has the state once  *)
(* it has loaded it.                                                       *)
Owner == IF \E p \in Procs : pc[p] \notin {"off", "load"}
         THEN CHOOSE p \in Procs : pc[p] \notin {"off", "load"}
         ELSE NoProc

Durable == INSTANCE DurableState WITH
  owner <- Owner, view <- mem, file <- Read(state),
  survivors <- {Read(i) : i \in platter}

(* save() under the lock is an atomic replacement of the file, and load()  *)
(* reads what was last put there (state_store.cpp:129-158, 208-258;        *)
(* README.md:297-300).                                                     *)
ImplementsDurableState == Durable!Spec
=============================================================================
