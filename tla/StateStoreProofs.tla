-------------------------- MODULE StateStoreProofs --------------------------
(***************************************************************************)
(* save() under the lock is atomic and durable, for every number of        *)
(* processes, marks, inodes and write() calls.                             *)
(***************************************************************************)
EXTENDS StateStore, TLAPS

(* A process that runs holds the lock, and has an empty memory until it    *)
(* has loaded the file.                                                    *)
LockInv ==
  \A p \in Procs : /\ pc[p] # "off" => lock = p
                   /\ pc[p] \in {"off", "load"} => mem[p] = {}

(* Nothing the state file may be after a power loss is still written to.   *)
FileInv ==
  /\ state \in platter
  /\ tmp # NoInode => tmp \notin platter
  /\ \A i \in platter \ {NoInode} :
       inode[i].written = Chunks /\ inode[i].synced

(* How far save() has got.                                                 *)
SaveInv ==
  \A p \in Procs :
    /\ pc[p] \in {"write", "rename"} =>
         tmp # NoInode /\ inode[tmp].store = mem[p]
    /\ pc[p] = "rename" => inode[tmp].written = Chunks /\ inode[tmp].synced
    /\ pc[p] = "syncdir" => Read(state) = mem[p]

(* A completed save() is in every such file, and in the memory of whoever  *)
(* may replace it.                                                         *)
PromiseInv ==
  /\ \A i \in platter : promised \subseteq Read(i)
  /\ \A p \in Procs : pc[p] \notin {"off", "load"} => promised \subseteq mem[p]

IInv == TypeOK /\ LockInv /\ FileInv /\ SaveInv /\ PromiseInv

LEMMA InitIInv == Init => IInv
  BY NoneAssumption, ChunksAssumption
     DEF Init, IInv, TypeOK, LockInv, FileInv, SaveInv, PromiseInv, Read,
         Contents, Empty, Locations

(* Each operation keeps the invariant.                                     *)
LEMMA LockKeeps == ASSUME IInv, NEW p \in Procs, Lock(p) PROVE IInv'
  BY NoneAssumption DEF IInv, Lock, TypeOK, LockInv, FileInv, SaveInv,
     PromiseInv, Read, Locations

LEMMA LoadKeeps == ASSUME IInv, NEW p \in Procs, Load(p) PROVE IInv'
<1>1. Read(state) \subseteq Marks
  BY NoneAssumption DEF IInv, TypeOK, Read, Contents
<1>2. promised \subseteq Read(state)
  BY DEF IInv, FileInv, PromiseInv
<1>3. TypeOK'
  BY <1>1 DEF IInv, Load, TypeOK, Locations
<1>4. LockInv' /\ FileInv'
  BY DEF IInv, Load, TypeOK, LockInv, FileInv
<1>5. SaveInv'
  BY DEF IInv, Load, TypeOK, LockInv, SaveInv, Read
<1>6. PromiseInv'
  BY <1>2 DEF IInv, Load, TypeOK, PromiseInv, Read
<1> QED BY <1>3, <1>4, <1>5, <1>6 DEF IInv

LEMMA ExitKeeps == ASSUME IInv, NEW p \in Procs, Exit(p) PROVE IInv'
  BY DEF IInv, Exit, TypeOK, LockInv, FileInv, SaveInv, PromiseInv, Read,
     Locations

LEMMA MarkKeeps ==
  ASSUME IInv, NEW p \in Procs, NEW m \in Marks, Mark(p, m) PROVE IInv'
  BY DEF IInv, Mark, TypeOK, LockInv, FileInv, SaveInv, PromiseInv, Read,
     Locations

LEMMA OpenTmpKeeps == ASSUME IInv, NEW p \in Procs, OpenTmp(p) PROVE IInv'
<1> USE DEF IInv, OpenTmp
<1>1. PICK i \in Inodes :
        /\ i = tmp \/ (tmp = NoInode /\ Unused(i))
        /\ inode' = [inode EXCEPT ![i] =
                       [store |-> mem[p], written |-> 0, synced |-> FALSE]]
        /\ tmp' = i
  OBVIOUS
<1>2. i # NoInode /\ i \notin platter
  BY <1>1, NoneAssumption DEF Unused, FileInv
<1>3. \A j \in platter : Read(j)' = Read(j)
  BY <1>1, <1>2 DEF TypeOK, Read
<1>4. TypeOK'
  BY <1>1, ChunksAssumption DEF TypeOK, Contents, Locations
<1>5. LockInv' /\ FileInv'
  BY <1>1, <1>2 DEF TypeOK, LockInv, FileInv
<1>6. SaveInv'
  <2> SUFFICES ASSUME NEW q \in Procs
               PROVE /\ pc'[q] \in {"write", "rename"} =>
                          tmp' # NoInode /\ inode'[tmp'].store = mem'[q]
                     /\ pc'[q] = "rename" => /\ inode'[tmp'].written = Chunks
                                             /\ inode'[tmp'].synced
                     /\ pc'[q] = "syncdir" => Read(state)' = mem'[q]
    BY DEF SaveInv
  <2>1. CASE q = p
    BY <2>1, <1>1, <1>2 DEF TypeOK
  <2>2. CASE q # p
    BY <2>2 DEF TypeOK, LockInv
  <2> QED BY <2>1, <2>2
<1>7. PromiseInv'
  BY <1>3 DEF TypeOK, PromiseInv
<1> QED BY <1>4, <1>5, <1>6, <1>7

LEMMA WriteKeeps ==
  ASSUME IInv, NEW p \in Procs, Write(p) \/ Fsync(p) PROVE IInv'
<1> USE DEF IInv
<1>1. /\ pc[p] = "write" /\ lock = p
      /\ tmp \in Inodes /\ tmp \notin platter
      /\ UNCHANGED <<lock, mem, state, tmp, platter, promised>>
  BY DEF Write, Fsync, TypeOK, LockInv, FileInv, SaveInv
<1>2. /\ inode' \in [Inodes -> Contents]
      /\ inode'[tmp].store = inode[tmp].store
      /\ \A j \in Inodes \ {tmp} : inode'[j] = inode[j]
  <2>1. inode \in [Inodes -> Contents]
    BY DEF TypeOK
  <2>2. CASE Write(p)
    <3>1. inode[tmp].written + 1 \in 0 .. Chunks
      BY <1>1, <2>1, <2>2, ChunksAssumption DEF Write, Contents
    <3> QED BY <1>1, <2>1, <2>2, <3>1 DEF Write, Contents
  <2>3. CASE Fsync(p)
    BY <1>1, <2>1, <2>3 DEF Fsync, Contents
  <2> QED BY <2>2, <2>3 DEF Write, Fsync
<1>3. /\ pc' \in [Procs -> Locations]
      /\ pc'[p] \in {"write", "rename"}
      /\ \A q \in Procs \ {p} : pc'[q] = pc[q]
  BY DEF Write, Fsync, TypeOK, Locations
<1>4. pc'[p] = "rename" => inode'[tmp].written = Chunks /\ inode'[tmp].synced
  BY <1>1 DEF Write, Fsync, TypeOK, Contents
<1>5. \A j \in platter : Read(j)' = Read(j)
  BY <1>1, <1>2 DEF Read, TypeOK
<1>6. TypeOK'
  BY <1>1, <1>2, <1>3 DEF TypeOK
<1>7. LockInv' /\ FileInv'
  BY <1>1, <1>2, <1>3 DEF TypeOK, LockInv, FileInv
<1>8. SaveInv'
  <2> SUFFICES ASSUME NEW q \in Procs
               PROVE /\ pc'[q] \in {"write", "rename"} =>
                          tmp # NoInode /\ inode'[tmp].store = mem[q]
                     /\ pc'[q] = "rename" => /\ inode'[tmp].written = Chunks
                                             /\ inode'[tmp].synced
                     /\ pc'[q] = "syncdir" => Read(state)' = mem[q]
    BY <1>1 DEF SaveInv
  <2>1. CASE q = p
    BY <2>1, <1>1, <1>2, <1>3, <1>4, NoneAssumption DEF SaveInv
  <2>2. CASE q # p
    BY <2>2, <1>1, <1>3 DEF LockInv
  <2> QED BY <2>1, <2>2
<1>9. PromiseInv'
  BY <1>1, <1>3, <1>5 DEF PromiseInv
<1> QED BY <1>6, <1>7, <1>8, <1>9

LEMMA SaveFailsKeeps ==
  ASSUME IInv, NEW p \in Procs, SaveFails(p) PROVE IInv'
  BY DEF IInv, SaveFails, TypeOK, LockInv, FileInv, SaveInv, PromiseInv, Read,
     Locations

(* The file that becomes the state file is whole, synced and holds what    *)
(* the process has in memory.                                              *)
LEMMA RenamedFile ==
  ASSUME IInv, NEW p \in Procs, Rename(p)
  PROVE /\ tmp \in Inodes /\ tmp # NoInode
        /\ inode[tmp].written = Chunks /\ inode[tmp].synced
        /\ Read(tmp) = mem[p]
        /\ promised \subseteq mem[p]
<1>1. /\ tmp \in Inodes /\ tmp # NoInode
      /\ inode[tmp].written = Chunks /\ inode[tmp].synced
      /\ inode[tmp].store = mem[p]
      /\ promised \subseteq mem[p]
  BY DEF IInv, Rename, TypeOK, SaveInv, PromiseInv
<1> QED BY <1>1, ChunksAssumption DEF Read

LEMMA RenameKeeps == ASSUME IInv, NEW p \in Procs, Rename(p) PROVE IInv'
<1> USE DEF IInv, Rename
<1>1. /\ tmp \in Inodes /\ tmp # NoInode
      /\ inode[tmp].written = Chunks /\ inode[tmp].synced
      /\ Read(tmp) = mem[p]
      /\ promised \subseteq mem[p]
  BY RenamedFile
<1>2. \A j \in Inodes \cup {NoInode} : Read(j)' = Read(j)
  BY DEF Read
<1>3. TypeOK'
  BY <1>1 DEF TypeOK, Locations
<1>4. LockInv' /\ FileInv'
  BY <1>1 DEF TypeOK, LockInv, FileInv
<1>5. SaveInv'
  <2> SUFFICES ASSUME NEW q \in Procs
               PROVE /\ pc'[q] \notin {"write", "rename"}
                     /\ pc'[q] = "syncdir" => Read(state)' = mem'[q]
    BY DEF SaveInv
  <2>1. CASE q = p
    BY <2>1, <1>1 DEF TypeOK, Read
  <2>2. CASE q # p
    BY <2>2 DEF TypeOK, LockInv
  <2> QED BY <2>1, <2>2
<1>6. PromiseInv'
  BY <1>1, <1>2 DEF TypeOK, PromiseInv
<1> QED BY <1>3, <1>4, <1>5, <1>6

LEMMA SyncDirKeeps ==
  ASSUME IInv, NEW p \in Procs, SyncDir(p) \/ SyncDirFails(p) PROVE IInv'
<1> USE DEF IInv
<1>1. CASE SyncDir(p)
  <2>1. Read(state) = mem[p]
    BY <1>1 DEF SyncDir, SaveInv
  <2>2. TypeOK' /\ LockInv' /\ FileInv'
    BY <1>1 DEF SyncDir, TypeOK, LockInv, FileInv, Locations
  <2>3. SaveInv'
    BY <1>1 DEF SyncDir, TypeOK, SaveInv, LockInv, Read
  <2>4. PromiseInv'
    BY <1>1, <2>1 DEF SyncDir, TypeOK, PromiseInv, LockInv, Read
  <2> QED BY <2>2, <2>3, <2>4
<1>2. CASE SyncDirFails(p)
  BY <1>2 DEF SyncDirFails, TypeOK, LockInv, FileInv, SaveInv, PromiseInv,
     Read, Locations
<1> QED BY <1>1, <1>2

LEMMA PowerLossKeeps == ASSUME IInv, PowerLoss PROVE IInv'
<1> USE DEF IInv
<1>1. PICK left \in [Inodes -> 0 .. Chunks] :
        inode' = [i \in Inodes |->
                    IF inode[i].synced \/ inode[i].written <= left[i]
                    THEN inode[i] ELSE [inode[i] EXCEPT !.written = left[i]]]
  BY DEF PowerLoss
<1>2. /\ \A p \in Procs : pc'[p] = "off" /\ mem'[p] = {}
      /\ pc' \in [Procs -> Locations] /\ mem' \in [Procs -> SUBSET Marks]
      /\ lock' = NoProc /\ promised' = promised
      /\ state' \in platter /\ platter' = {state'}
      /\ tmp' \in {NoInode} \cup (Inodes \ {state'})
  BY DEF PowerLoss, Locations
<1>3. inode' \in [Inodes -> Contents]
  BY <1>1, ChunksAssumption DEF TypeOK, Contents
<1>4. \A j \in platter \ {NoInode} : inode'[j] = inode[j]
  BY <1>1 DEF TypeOK, FileInv
<1>5. \A j \in platter : Read(j)' = Read(j)
  BY <1>4 DEF Read
<1>6. TypeOK'
  BY <1>2, <1>3 DEF TypeOK
<1>7. LockInv' /\ SaveInv'
  BY <1>2 DEF LockInv, SaveInv
<1>8. FileInv'
  BY <1>2, <1>4 DEF FileInv
<1>9. PromiseInv'
  BY <1>2, <1>5 DEF PromiseInv
<1> QED BY <1>6, <1>7, <1>8, <1>9

LEMMA IInvKept == IInv /\ [Next]_vars => IInv'
<1> SUFFICES ASSUME IInv, [Next]_vars PROVE IInv'
  OBVIOUS
<1>1. CASE UNCHANGED vars
  BY <1>1 DEF vars, IInv, TypeOK, LockInv, FileInv, SaveInv, PromiseInv, Read
<1>2. CASE PowerLoss
  BY <1>2, PowerLossKeeps
<1>3. ASSUME NEW p \in Procs,
             \/ Lock(p) \/ Load(p) \/ Exit(p)
             \/ \E m \in Marks : Mark(p, m)
             \/ OpenTmp(p) \/ Write(p) \/ Fsync(p) \/ SaveFails(p)
             \/ Rename(p) \/ SyncDir(p) \/ SyncDirFails(p)
      PROVE IInv'
  BY <1>3, LockKeeps, LoadKeeps, ExitKeeps, MarkKeeps, OpenTmpKeeps,
     WriteKeeps, SaveFailsKeeps, RenameKeeps, SyncDirKeeps
<1> QED BY <1>1, <1>2, <1>3 DEF Next

LEMMA Invariance == Spec => []IInv
<1> QED BY InitIInv, IInvKept, PTL DEF Spec

(* Every variable keeps its type.                                          *)
THEOREM StoreTypes == Spec => []TypeOK
<1>1. IInv => TypeOK
  BY DEF IInv
<1>2. QED
  BY <1>1, Invariance, PTL

(* No crash, power loss, failed system call or second process loses or     *)
(* tears what a completed save() wrote.                                    *)
THEOREM SavesSurvive == Spec => []SavedSurvives
<1>1. IInv => SavedSurvives
  BY DEF IInv, FileInv, PromiseInv, SavedSurvives, Whole
<1> QED BY <1>1, Invariance, PTL

-----------------------------------------------------------------------------
(* Who has the state, in the abstract store.                               *)
LEMMA OwnerIs ==
  ASSUME IInv
  PROVE /\ \A p \in Procs : pc[p] \notin {"off", "load"} => Owner = p
        /\ (\A p \in Procs : pc[p] \in {"off", "load"}) => Owner = NoProc
  BY DEF IInv, LockInv, Owner

(* Every step of the system calls is a step of the abstract store or       *)
(* leaves it as it is.                                                     *)
LEMMA StepImplements ==
  ASSUME IInv, IInv', [Next]_vars PROVE [Durable!Next]_(Durable!vars)
<1> USE DEF IInv, Durable!vars
<1>a. /\ \A p \in Procs : pc[p] \notin {"off", "load"} => Owner = p
      /\ (\A p \in Procs : pc[p] \in {"off", "load"}) => Owner = NoProc
  BY OwnerIs
<1>b. /\ \A p \in Procs : pc'[p] \notin {"off", "load"} => Owner' = p
      /\ (\A p \in Procs : pc'[p] \in {"off", "load"}) => Owner' = NoProc
  BY DEF LockInv, Owner
<1>1. CASE UNCHANGED vars
  BY <1>1 DEF vars, Owner, Read
<1>2. CASE PowerLoss
  <2>1. PICK left \in [Inodes -> 0 .. Chunks] :
          inode' = [i \in Inodes |->
                      IF inode[i].synced \/ inode[i].written <= left[i]
                      THEN inode[i] ELSE [inode[i] EXCEPT !.written = left[i]]]
    BY <1>2 DEF PowerLoss
  <2>2. \A j \in platter \ {NoInode} : inode'[j] = inode[j]
    BY <2>1 DEF TypeOK, FileInv
  <2>3. \A j \in platter : Read(j)' = Read(j)
    BY <2>2 DEF Read
  <2>4. Owner' = NoProc /\ mem' = [p \in Procs |-> {}]
    BY <1>2, <1>b DEF PowerLoss
  <2>5. /\ Read(state)' \in {Read(i) : i \in platter}
        /\ {Read(i) : i \in platter}' = {Read(state)'}
    BY <1>2, <2>3 DEF PowerLoss
  <2> QED BY <2>4, <2>5 DEF Durable!Next, Durable!PowerLoss
<1>3. ASSUME NEW p \in Procs, Lock(p) PROVE UNCHANGED Durable!vars
  BY <1>3, <1>a, <1>b DEF Lock, TypeOK, LockInv, Read
<1>4. ASSUME NEW p \in Procs, Load(p) PROVE Durable!Open(p)
  BY <1>4, <1>a, <1>b DEF Load, TypeOK, LockInv, Read, Durable!Open
<1>5. ASSUME NEW p \in Procs, Exit(p)
      PROVE Durable!Leave(p) \/ UNCHANGED Durable!vars
  BY <1>5, <1>a, <1>b DEF Exit, TypeOK, LockInv, Read, Durable!Leave
<1>6. ASSUME NEW p \in Procs, NEW m \in Marks, Mark(p, m) PROVE Durable!Mark(p)
  BY <1>6, <1>a, <1>b DEF Mark, TypeOK, Read, Durable!Mark
<1>7. ASSUME NEW p \in Procs, OpenTmp(p) \/ Write(p) \/ Fsync(p)
      PROVE UNCHANGED Durable!vars
  <2>1. /\ pc[p] \in {"idle", "write"} /\ pc'[p] \in {"write", "rename"}
        /\ UNCHANGED <<mem, state, platter>>
    BY <1>7 DEF OpenTmp, Write, Fsync, TypeOK
  <2>2. \A j \in platter \ {NoInode} : inode'[j] = inode[j]
    BY <1>7, NoneAssumption
       DEF OpenTmp, Write, Fsync, TypeOK, FileInv, SaveInv, Unused
  <2>3. \A j \in platter : Read(j)' = Read(j)
    BY <2>2 DEF Read
  <2>4. Owner = p /\ Owner' = p
    BY <2>1, <1>a, <1>b
  <2> QED BY <2>1, <2>3, <2>4 DEF FileInv
<1>8. ASSUME NEW p \in Procs, SaveFails(p) \/ SyncDirFails(p)
      PROVE UNCHANGED Durable!vars
  BY <1>8, <1>a, <1>b DEF SaveFails, SyncDirFails, TypeOK, Read
<1>9. ASSUME NEW p \in Procs, Rename(p) PROVE Durable!Replace(p)
  <2>1. Read(tmp) = mem[p]
    BY <1>9, RenamedFile
  <2>2. \A j \in Inodes \cup {NoInode} : Read(j)' = Read(j)
    BY <1>9 DEF Rename, Read
  <2>3. Owner = p /\ Owner' = p
    BY <1>9, <1>a, <1>b DEF Rename, TypeOK
  <2>4. state' = tmp /\ platter' = platter \cup {tmp} /\ mem' = mem
    BY <1>9 DEF Rename
  <2>5. Read(state)' = mem[p]
    BY <2>1, <2>2, <2>4 DEF TypeOK, Read
  <2>6. {Read(i) : i \in platter}' = {Read(i) : i \in platter} \cup {mem[p]}
    BY <2>1, <2>2, <2>4 DEF TypeOK
  <2> QED BY <2>3, <2>4, <2>5, <2>6 DEF Durable!Replace
<1>10. ASSUME NEW p \in Procs, SyncDir(p) PROVE Durable!Sync(p)
  BY <1>10, <1>a, <1>b DEF SyncDir, TypeOK, Read, Durable!Sync
<1> QED BY <1>1, <1>2, <1>3, <1>4, <1>5, <1>6, <1>7, <1>8, <1>9, <1>10
        DEF Next, Durable!Next

(* save() under the lock is an atomic replacement of the file, and load()  *)
(* reads what was last put there.                                          *)
THEOREM StoreImplements == Spec => ImplementsDurableState
<1>1. Init => Durable!Init
  <2> SUFFICES ASSUME Init PROVE Durable!Init
    OBVIOUS
  <2>1. Owner = NoProc
    BY DEF Init, Owner
  <2>2. Read(state) = {} /\ {Read(i) : i \in platter} = {{}}
    BY DEF Init, Read
  <2> QED BY <2>1, <2>2 DEF Init, Durable!Init
<1>2. IInv /\ IInv' /\ [Next]_vars => [Durable!Next]_(Durable!vars)
  BY StepImplements
<1> QED BY <1>1, <1>2, Invariance, PTL
        DEF Spec, ImplementsDurableState, Durable!Spec
=============================================================================
