------------------------------ MODULE WalProofs ------------------------------
(***************************************************************************)
(* Proofs about Wal, for any number of processes, writes, checkpoints and  *)
(* crashes, and whichever system calls fail.                               *)
(***************************************************************************)
EXTENDS Wal, TLAPS, SequenceTheorems, FiniteSetTheorems, WellFoundedInduction

\* A nonempty set of naturals has a least element.
LEMMA LeastOf ==
  ASSUME NEW S \in SUBSET Nat, S # {}
  PROVE  \E m \in S : \A n \in S : m <= n
<1>1. PICK m \in S : \A n \in S : <<n, m>> \notin OpToRel(<, Nat)
  BY NatLessThanWellFounded, WFMin, Zenon
<1>2. \A n \in S : ~(n < m)
  BY <1>1, Zenon DEF OpToRel
<1>3. QED
  BY <1>2

\* The frames that decode are the first ones (Replay).
LEMMA GoodIsPrefix ==
  ASSUME NEW frames \in Seq(Frames)
  PROVE  \E k \in 0..Len(frames) : good(frames) = 1..k /\ Cardinality(good(frames)) = k
<1> DEFINE bad == {i \in 1..Len(frames) : ~frames[i].ok}
<1>1. Len(frames) \in Nat
  OBVIOUS
<1>2. \A k \in Nat : Cardinality(1..k) = k
  <2>1. ASSUME NEW k \in Nat PROVE Cardinality(1..k) = k
    <3>1. Cardinality(1..k) = IF 1 > k THEN 0 ELSE k - 1 + 1
      BY FS_Interval
    <3>2. QED
      BY <3>1
  <2>2. QED
    BY <2>1
<1>3. CASE bad = {}
  <2>1. good(frames) = 1..Len(frames)
    BY <1>3 DEF good
  <2>2. QED
    BY <1>1, <1>2, <2>1
<1>4. CASE bad # {}
  <2>1. bad \in SUBSET Nat
    OBVIOUS
  <2>2. PICK m \in bad : \A n \in bad : m <= n
    <3> HIDE DEF bad
    <3> QED BY <1>4, <2>1, LeastOf
  <2>3. m \in 1..Len(frames) /\ ~frames[m].ok
    OBVIOUS
  <2>4. \A j \in 1..Len(frames) : j < m => frames[j].ok
    BY <2>2
  <2>5. good(frames) = 1..(m - 1)
    BY <1>1, <2>3, <2>4 DEF good
  <2>6. m - 1 \in 0..Len(frames) /\ m - 1 \in Nat
    BY <1>1, <2>3
  <2>7. QED
    BY <1>2, <2>5, <2>6
<1>5. QED
  BY <1>3, <1>4

(***************************************************************************)
(* The inductive invariant.                                                *)
(***************************************************************************)
Replayed == {"idle", "flush", "unlink", "link", "rename", "dirsync", "reopen"}
Opened   == Steps \ {"closed", "locked", "release"}

\* Whoever is between Open and the end of Close holds the lock.
LockInv == \A p \in Procs : pc[p] # "closed" => lock = p

\* A header, a replay and a flush have a file, and a flush a transaction.
HandleInv == \A p \in Procs :
  /\ pc[p] \in {"header", "replay", "flush"} => fd[p] # NoFile
  /\ pc[p] = "flush" => issued # 0

\* No directory and no handle knows an inode that has not been created.
InodesInv == /\ \A i \in 1..Len(dirs) : \A n \in Names : dirs[i][n] <= inodes
             /\ \A p \in Procs : fd[p] <= inodes

\* A log that process p appends to has no frame that does not decode.
Whole(p) == pc[p] \in Replayed /\ fd[p] # NoFile =>
              \A i \in 1..Len(file[fd[p]].frames) : file[fd[p]].frames[i].ok

\* The frame that p is about to flush is the last one and not on the platter.
AtEnd(p) == pc[p] = "flush" =>
              /\ file[fd[p]].synced < Len(file[fd[p]].frames)
              /\ file[fd[p]].frames[Len(file[fd[p]].frames)].txs = {issued}

Describes(n, txs) ==
  /\ n # NoFile
  /\ file[n].frames = <<Header, Frame(txs)>>
  /\ file[n].synced = 2

\* The checkpoint that p is writing describes what is live.
Described(p) ==
  /\ pc[p] \in {"unlink", "link", "rename"} => Describes(dir["wal.tmp"], live[p])
  /\ pc[p] \in {"dirsync", "reopen"} => Describes(dir["wal"], live[p])

\* The handle is on the file that has the log's name, but for the end of a
\* checkpoint.
Named(p) == ~unsynced =>
  (pc[p] \in Opened \ {"dirsync", "reopen"} /\ fd[p] # NoFile => fd[p] = dir["wal"])

\* What was acknowledged is live.
AckedLive(p) == FsyncNames /\ ~unsynced => (pc[p] \in Replayed => acked \subseteq live[p])

HolderInv == \A p \in Procs :
  Whole(p) /\ AtEnd(p) /\ Described(p) /\ Named(p) /\ AckedLive(p)

\* Transaction t is in a frame of inode n that is on the platter, behind frames
\* that decode.
Durable(t, n) ==
  /\ n # NoFile
  /\ \E i \in 1..file[n].synced : /\ t \in file[n].frames[i].txs
                                  /\ \A j \in 1..i : file[n].frames[j].ok

\* Whichever version of the directory a power failure leaves, the log in it has
\* all that was acknowledged.
DurableInv == FsyncNames /\ ~unsynced => \A i \in 1..Len(dirs) : \A t \in acked : Durable(t, dirs[i]["wal"])

\* Two processes are never past the lock (lockDir).
LEMMA OthersClosed ==
  ASSUME TypeOK, LockInv, NEW p \in Procs, pc[p] # "closed"
  PROVE  \A q \in Procs : q # p => pc[q] = "closed" /\ fd[q] = NoFile
BY DEF TypeOK, LockInv

\* There are one more inodes than checkpoints.
LEMMA InodeCount == Cardinality(Inodes) = MaxCheckpoints + 1 /\ MaxCheckpoints \in Nat
<1>1. MaxCheckpoints \in Nat /\ 1 \in Int /\ MaxCheckpoints + 1 \in Int
  BY WalAssumption
<1>2. Cardinality(1..(MaxCheckpoints + 1)) = IF 1 > MaxCheckpoints + 1 THEN 0 ELSE MaxCheckpoints + 1 - 1 + 1
  BY <1>1, FS_Interval
<1>3. QED
  BY <1>1, <1>2 DEF Inodes

\* The directory in use is the last of the versions there may be.
LEMMA DirType ==
  ASSUME TypeOK
  PROVE  /\ Len(dirs) \in 1..Len(dirs) /\ Len(dirs) \in Nat \ {0}
         /\ dir \in [Names -> Inodes \cup {NoFile}]
         /\ dirs \in Seq([Names -> Inodes \cup {NoFile}])
<1>1. dirs \in Seq([Names -> Inodes \cup {NoFile}]) /\ dirs # <<>>
  BY DEF TypeOK
<1>2. Len(dirs) \in Nat \ {0}
  BY <1>1, EmptySeq
<1>3. QED
  BY <1>1, <1>2, ElementOfSeq DEF dir

\* The directory as an operation leaves it, and how many versions there are.
LEMMA DirOpType ==
  ASSUME TypeOK, NEW d \in [Names -> Inodes \cup {NoFile}], dirOp(d)
  PROVE  /\ dirs' \in Seq([Names -> Inodes \cup {NoFile}]) /\ dirs' # <<>>
         /\ Len(dirs') = Len(dirs) + 1 /\ dir' = d
         /\ \A i \in 1..Len(dirs) : dirs'[i] = dirs[i]
<1>1. dirs \in Seq([Names -> Inodes \cup {NoFile}]) /\ dirs' = Append(dirs, d) /\ Len(dirs) \in Nat
  BY DirType DEF dirOp
<1>2. /\ dirs' \in Seq([Names -> Inodes \cup {NoFile}]) /\ dirs' # <<>>
      /\ Len(dirs') = Len(dirs) + 1 /\ dirs'[Len(dirs) + 1] = d
      /\ \A i \in 1..Len(dirs) : dirs'[i] = dirs[i]
  BY <1>1, AppendProperties
<1>3. QED
  BY <1>2 DEF dir

\* The file system as a flush leaves it.
LEMMA FlushType ==
  ASSUME TypeOK, NEW n \in Inodes, flush(n)
  PROVE  /\ file' \in [Inodes -> [frames : Seq(Frames), synced : Nat]]
         /\ \A m \in Inodes : /\ file'[m].frames = file[m].frames
                              /\ file'[m].synced = IF m = n THEN Len(file[m].frames) ELSE file[m].synced
         /\ dirs' = <<dir>> \/ dirs' = dirs
         /\ dirs' \in Seq([Names -> Inodes \cup {NoFile}]) /\ dirs' # <<>> /\ dir' = dir
<1>1. dir \in [Names -> Inodes \cup {NoFile}] /\ dirs \in Seq([Names -> Inodes \cup {NoFile}]) /\ dirs # <<>>
  BY DirType DEF TypeOK
<1>2. file \in [Inodes -> [frames : Seq(Frames), synced : Nat]]
  BY DEF TypeOK
<1>3. Len(file[n].frames) \in Nat
  BY <1>2, LenProperties
<1>4. file' = [file EXCEPT ![n].synced = Len(file[n].frames)] /\ dirs' = IF FsyncNames THEN <<dir>> ELSE dirs
  BY DEF flush
<1>5. /\ <<dir>> \in Seq([Names -> Inodes \cup {NoFile}]) /\ <<dir>> # <<>>
      /\ Len(<<dir>>) = 1 /\ <<dir>>[1] = dir
  BY <1>1
<1>6. dirs' \in Seq([Names -> Inodes \cup {NoFile}]) /\ dirs' # <<>> /\ dir' = dir
  BY <1>1, <1>4, <1>5 DEF dir
<1>7. QED
  BY <1>2, <1>3, <1>4, <1>6

\* The file system as an append leaves it.
LEMMA AppendType ==
  ASSUME TypeOK, NEW n \in Inodes, NEW fr \in Frames, append(n, fr)
  PROVE  /\ file' \in [Inodes -> [frames : Seq(Frames), synced : Nat]]
         /\ \A m \in Inodes : m # n => file'[m] = file[m]
         /\ file'[n].synced = file[n].synced
         /\ Len(file'[n].frames) = Len(file[n].frames) + 1
         /\ \A i \in 1..Len(file[n].frames) : file'[n].frames[i] = file[n].frames[i]
         /\ file'[n].frames[Len(file[n].frames) + 1] = fr
<1>1. file \in [Inodes -> [frames : Seq(Frames), synced : Nat]] /\ file[n].frames \in Seq(Frames)
  BY DEF TypeOK
<1>2. /\ Append(file[n].frames, fr) \in Seq(Frames)
      /\ Len(Append(file[n].frames, fr)) = Len(file[n].frames) + 1
      /\ \A i \in 1..Len(file[n].frames) : Append(file[n].frames, fr)[i] = file[n].frames[i]
      /\ Append(file[n].frames, fr)[Len(file[n].frames) + 1] = fr
  BY <1>1, AppendProperties
<1>3. /\ file'[n].frames = Append(file[n].frames, fr) /\ file'[n].synced = file[n].synced
      /\ \A m \in Inodes : m # n => file'[m] = file[m]
      /\ file' \in [Inodes -> [frames : Seq(Frames), synced : Nat]]
  BY <1>1, <1>2 DEF append
<1>4. QED
  BY <1>2, <1>3

(***************************************************************************)
(* The processes: types, the lock and the handles.                         *)
(***************************************************************************)
ProcOK ==
  /\ inodes \in 0..Cardinality(Inodes)
  /\ lock \in Procs \cup {NoProc}
  /\ pc \in [Procs -> Steps]
  /\ fd \in [Procs -> Inodes \cup {NoFile}]
  /\ \A p \in Procs : pc[p] \in {"closed", "locked", "release"} => fd[p] = NoFile
  /\ fsync \in [Procs -> BOOLEAN] /\ dirty \in [Procs -> BOOLEAN]
  /\ live \in [Procs -> SUBSET Txs]
  /\ issued \in 0..MaxWrites
  /\ acked \in SUBSET Txs
  /\ crashes \in 0..MaxCrashes
  /\ unsynced \in BOOLEAN

LogInv == ProcOK /\ LockInv /\ HandleInv

FilesOK ==
  /\ file \in [Inodes -> [frames : Seq(Frames), synced : Nat]]
  /\ \A n \in Inodes : file[n].synced <= Len(file[n].frames)
  /\ dirs \in Seq([Names -> Inodes \cup {NoFile}]) /\ dirs # <<>>

WalInv == FilesOK /\ LogInv /\ InodesInv /\ HolderInv /\ DurableInv

LEMMA TypeOfParts == TypeOK <=> FilesOK /\ ProcOK
BY DEF TypeOK, FilesOK, ProcOK

\* What recovery finds in a file are transactions.
LEMMA ReplayedType ==
  ASSUME TypeOK, NEW n \in Inodes \cup {NoFile}
  PROVE  replayed(n) \in SUBSET Txs
<1>1. CASE n = NoFile
  BY <1>1 DEF replayed
<1>2. CASE n # NoFile
  <2>1. file[n].frames \in Seq(Frames)
    BY <1>2 DEF TypeOK
  <2>2. \A i \in good(file[n].frames) : file[n].frames[i] \in Frames
    BY <2>1, ElementOfSeq DEF good
  <2>3. \A i \in good(file[n].frames) : file[n].frames[i].txs \in SUBSET Txs
    BY <2>2 DEF Frames
  <2>4. QED
    BY <1>2, <2>3 DEF replayed
<1>3. QED
  BY <1>1, <1>2

\* Processes that die leave the others, the lock and the clients in order.
LEMMA DeadKeeps ==
  ASSUME LogInv, NEW ps \in SUBSET Procs, dead(ps), UNCHANGED <<inodes, issued, acked, unsynced>>
  PROVE  LogInv'
<1>1. ProcOK /\ LockInv /\ HandleInv /\ NoProc \notin Procs /\ MaxCrashes \in Nat
  BY WalAssumption DEF LogInv
<1>2. \A p \in Procs : /\ pc'[p] = (IF p \in ps THEN "closed" ELSE pc[p])
                       /\ fd'[p] = (IF p \in ps THEN NoFile ELSE fd[p])
  BY DEF dead
<1>3. lock' = (IF lock \in ps THEN NoProc ELSE lock) /\ crashes < MaxCrashes /\ crashes' = crashes + 1
  BY DEF dead
<1>4. pc' \in [Procs -> Steps] /\ fd' \in [Procs -> Inodes \cup {NoFile}]
  BY <1>1 DEF dead, ProcOK, Steps
<1>5. fsync' \in [Procs -> BOOLEAN] /\ dirty' \in [Procs -> BOOLEAN]
  BY <1>1 DEF dead, ProcOK
<1>6. live' \in [Procs -> SUBSET Txs]
  BY <1>1 DEF dead, ProcOK
<1>7. ProcOK'
  BY <1>1, <1>2, <1>3, <1>4, <1>5, <1>6 DEF ProcOK
<1>8. LockInv' /\ HandleInv'
  BY <1>1, <1>2, <1>3 DEF LockInv, HandleInv
<1>9. QED
  BY <1>7, <1>8 DEF LogInv

\* Each step leaves the processes, the lock and the clients in order.
LEMMA LogStep ==
  ASSUME TypeOK, LogInv, Next
  PROVE  LogInv'
<1> USE DEF step
<1>0. /\ ProcOK /\ LockInv /\ HandleInv
      /\ NoProc \notin Procs /\ MaxWrites \in Nat /\ MaxCheckpoints \in Nat /\ MaxCrashes \in Nat
      /\ Fsyncs \subseteq BOOLEAN
      /\ Cardinality(Inodes) = MaxCheckpoints + 1 /\ Inodes = 1..(MaxCheckpoints + 1)
      /\ NoFile = 0 /\ Txs = 1..MaxWrites
  BY InodeCount, WalAssumption DEF LogInv, Inodes, NoFile, Txs
<1>d. dir["wal"] \in Inodes \cup {NoFile}
  BY DirType DEF Names
<1>1. ASSUME NEW p \in Procs, LockDir(p) PROVE LogInv'
  BY <1>0, <1>1 DEF LockDir, LogInv, ProcOK, LockInv, HandleInv, Steps
<1>2. ASSUME NEW p \in Procs, OpenFile(p) PROVE LogInv'
  BY <1>0, <1>d, <1>2 DEF OpenFile, LogInv, ProcOK, LockInv, HandleInv, Steps
<1>3. ASSUME NEW p \in Procs, WriteHeader(p) PROVE LogInv'
  BY <1>0, <1>3 DEF WriteHeader, LogInv, ProcOK, LockInv, HandleInv, Steps
<1>4. ASSUME NEW p \in Procs, WriteHeaderFails(p) PROVE LogInv'
  BY <1>0, <1>4 DEF WriteHeaderFails, LogInv, ProcOK, LockInv, HandleInv, Steps, fsVars
<1>5. ASSUME NEW p \in Procs, Replay(p) PROVE LogInv'
  <2>1. fd[p] \in Inodes \cup {NoFile}
    BY <1>0 DEF ProcOK
  <2>2. replayed(fd[p]) \in SUBSET Txs
    BY <2>1, ReplayedType
  <2>3. QED
    BY <1>0, <1>5, <2>2 DEF Replay, LogInv, ProcOK, LockInv, HandleInv, Steps
<1>6. ASSUME NEW p \in Procs, WriteAppend(p) PROVE LogInv'
  BY <1>0, <1>6 DEF WriteAppend, LogInv, ProcOK, LockInv, HandleInv, Steps
<1>7. ASSUME NEW p \in Procs, WriteAppendFails(p) PROVE LogInv'
  BY <1>0, <1>7 DEF WriteAppendFails, LogInv, ProcOK, LockInv, HandleInv, Steps
<1>8. ASSUME NEW p \in Procs, WriteReturns(p) PROVE LogInv'
  <2>1. issued \in Txs
    <3>1. pc[p] = "flush"
      BY <1>8 DEF WriteReturns
    <3>2. issued # 0 /\ issued \in 0..MaxWrites
      BY <1>0, <3>1 DEF ProcOK, HandleInv
    <3>3. QED
      BY <1>0, <3>2
  <2>2. acked' \in SUBSET Txs /\ live' \in [Procs -> SUBSET Txs]
    <3>1. acked \in SUBSET Txs /\ live \in [Procs -> SUBSET Txs]
      BY <1>0 DEF ProcOK
    <3>2. acked' = acked \cup {issued} \/ acked' = acked
      BY <1>8 DEF WriteReturns
    <3>3. live' = [live EXCEPT ![p] = live[p] \cup {issued}]
      BY <1>8 DEF WriteReturns
    <3> HIDE DEF Txs
    <3>4. QED
      BY <2>1, <3>1, <3>2, <3>3
  <2>3. pc' \in [Procs -> Steps] /\ \A q \in Procs : pc'[q] = IF q = p THEN "idle" ELSE pc[q]
    BY <1>0, <1>8 DEF WriteReturns, ProcOK, Steps
  <2>4. UNCHANGED <<inodes, lock, fd, fsync, dirty, issued, crashes, unsynced>> /\ pc[p] = "flush"
    BY <1>8 DEF WriteReturns
  <2>5. QED
    BY <1>0, <2>2, <2>3, <2>4 DEF LogInv, ProcOK, LockInv, HandleInv
<1>9. ASSUME NEW p \in Procs, WriteSyncFails(p) PROVE LogInv'
  BY <1>0, <1>9 DEF WriteSyncFails, LogInv, ProcOK, LockInv, HandleInv, Steps, fsVars
<1>10. ASSUME NEW p \in Procs, CheckpointWrite(p) PROVE LogInv'
  BY <1>0, <1>10 DEF CheckpointWrite, LogInv, ProcOK, LockInv, HandleInv, Steps
<1>11. ASSUME NEW p \in Procs, CheckpointUnlink(p) \/ CheckpointLink(p) \/ CheckpointRename(p) \/ CheckpointSyncDir(p)
       PROVE LogInv'
  BY <1>0, <1>11 DEF CheckpointUnlink, CheckpointLink, CheckpointRename, CheckpointSyncDir,
       LogInv, ProcOK, LockInv, HandleInv, Steps
<1>12. ASSUME NEW p \in Procs, CheckpointAbandon(p) \/ CheckpointRenameFails(p) \/ CheckpointSyncDirFails(p)
       PROVE LogInv'
  BY <1>0, <1>12 DEF CheckpointAbandon, CheckpointRenameFails, CheckpointSyncDirFails,
       LogInv, ProcOK, LockInv, HandleInv, Steps, fsVars
<1>13. ASSUME NEW p \in Procs, CheckpointReopen(p) PROVE LogInv'
  BY <1>0, <1>d, <1>13 DEF CheckpointReopen, LogInv, ProcOK, LockInv, HandleInv, Steps, fsVars
<1>14. ASSUME NEW p \in Procs, CheckpointReopenFails(p) PROVE LogInv'
  BY <1>0, <1>14 DEF CheckpointReopenFails, LogInv, ProcOK, LockInv, HandleInv, Steps, fsVars
<1>15. ASSUME NEW p \in Procs, CloseFile(p) PROVE LogInv'
  BY <1>0, <1>15 DEF CloseFile, LogInv, ProcOK, LockInv, HandleInv, Steps
<1>16. ASSUME NEW p \in Procs, Unlock(p) PROVE LogInv'
  BY <1>0, <1>16 DEF Unlock, LogInv, ProcOK, LockInv, HandleInv, Steps
<1>17. ASSUME NEW p \in Procs, CollectLock(p) PROVE LogInv'
  BY <1>0, <1>17 DEF CollectLock, LogInv, ProcOK, LockInv, HandleInv, Steps, procVars
<1>18. ASSUME NEW p \in Procs, Kill(p) PROVE LogInv'
  <2>1. dead({p}) /\ UNCHANGED <<inodes, issued, acked, unsynced>>
    BY <1>18 DEF Kill
  <2>2. QED
    BY <2>1, DeadKeeps
<1>19. ASSUME PowerFailure PROVE LogInv'
  BY <1>19, DeadKeeps DEF PowerFailure
<1>20. QED
  BY <1>1, <1>2, <1>3, <1>4, <1>5, <1>6, <1>7, <1>8, <1>9, <1>10, <1>11, <1>12, <1>13, <1>14,
     <1>15, <1>16, <1>17, <1>18, <1>19 DEF Next

(***************************************************************************)
(* The file system: types, and what a step keeps on the platter.           *)
(***************************************************************************)

\* The frames of inode n that are on the platter behind frames that decode stay
\* where they are.
Keeps(n) ==
  \A i \in 1..file[n].synced : (\A j \in 1..i : file[n].frames[j].ok) =>
     /\ i <= file'[n].synced
     /\ \A j \in 1..i : file'[n].frames[j] = file[n].frames[j]

LEMMA KeepsDurable ==
  ASSUME FilesOK, FilesOK', NEW n \in Inodes \cup {NoFile}, n # NoFile => Keeps(n), NEW t, Durable(t, n)
  PROVE  Durable(t, n)'
<1>1. n \in Inodes /\ n # NoFile /\ Keeps(n)
  BY DEF Durable
<1>2. file[n].synced \in Nat /\ file'[n].synced \in Nat
  BY <1>1 DEF FilesOK
<1>3. PICK i \in 1..file[n].synced : t \in file[n].frames[i].txs /\ \A j \in 1..i : file[n].frames[j].ok
  BY DEF Durable
<1>4. i <= file'[n].synced /\ \A j \in 1..i : file'[n].frames[j] = file[n].frames[j]
  BY <1>1, <1>3 DEF Keeps
<1>5. i \in 1..file'[n].synced /\ i \in 1..i
  BY <1>2, <1>3, <1>4
<1>6. t \in file'[n].frames[i].txs /\ \A j \in 1..i : file'[n].frames[j].ok
  BY <1>3, <1>4, <1>5
<1>7. QED
  BY <1>1, <1>5, <1>6 DEF Durable

\* Replay cuts the log after its last frame that decodes.
LEMMA ReplayType ==
  ASSUME FilesOK, NEW p \in Procs, fd[p] \in Inodes, Replay(p)
  PROVE  /\ FilesOK' /\ \A m \in Inodes : Keeps(m)
         /\ \A m \in Inodes : m # fd[p] => file'[m] = file[m]
         /\ \A i \in 1..Len(file'[fd[p]].frames) : file'[fd[p]].frames[i].ok
<1> DEFINE n == fd[p]
           k == Cardinality(good(file[n].frames))
<1>1. /\ file \in [Inodes -> [frames : Seq(Frames), synced : Nat]] /\ n \in Inodes
      /\ file[n].frames \in Seq(Frames) /\ file[n].synced \in Nat /\ Len(file[n].frames) \in Nat
  BY LenProperties DEF FilesOK
<1>2. k \in 0..Len(file[n].frames) /\ good(file[n].frames) = 1..k
  BY <1>1, GoodIsPrefix
<1>3. /\ file' = [file EXCEPT ![n].frames = SubSeq(@, 1, k),
                              ![n].synced = IF @ > k THEN k ELSE @]
      /\ dirs' = dirs
  BY DEF Replay
<1> HIDE DEF k, n
<1>4. /\ SubSeq(file[n].frames, 1, k) \in Seq(Frames) /\ Len(SubSeq(file[n].frames, 1, k)) = k
      /\ \A i \in 1..k : SubSeq(file[n].frames, 1, k)[i] = file[n].frames[i]
  BY <1>1, <1>2, SubSeqProperties
<1>5. /\ file'[n].frames = SubSeq(file[n].frames, 1, k)
      /\ file'[n].synced = IF file[n].synced > k THEN k ELSE file[n].synced
      /\ \A m \in Inodes : m # n => file'[m] = file[m]
      /\ file' \in [Inodes -> [frames : Seq(Frames), synced : Nat]]
  <2> DEFINE cut == [file[n] EXCEPT !.frames = SubSeq(file[n].frames, 1, k),
                                    !.synced = IF file[n].synced > k THEN k ELSE file[n].synced]
  <2>1. file[n] \in [frames : Seq(Frames), synced : Nat] /\ k \in Nat
    BY <1>1, <1>2
  <2>2. /\ cut.frames = SubSeq(file[n].frames, 1, k)
        /\ cut.synced = IF file[n].synced > k THEN k ELSE file[n].synced
        /\ cut \in [frames : Seq(Frames), synced : Nat]
    BY <1>4, <2>1
  <2>3. file'[n] = cut /\ file' \in [Inodes -> {file[m] : m \in Inodes} \cup {cut}]
    BY <1>1, <1>3
  <2>4. \A m \in Inodes : m # n => file'[m] = file[m]
    BY <1>1, <1>3
  <2> HIDE DEF cut
  <2>5. file' \in [Inodes -> [frames : Seq(Frames), synced : Nat]]
    BY <1>1, <2>2, <2>3
  <2>6. QED
    BY <2>2, <2>3, <2>4, <2>5
<1>6. \A i \in 1..k : file[n].frames[i].ok
  BY <1>1, <1>2 DEF good
<1>7. \A i \in 1..file[n].synced : (\A j \in 1..i : file[n].frames[j].ok) => i \in 1..k
  <2>1. SUFFICES ASSUME NEW i \in 1..file[n].synced, \A j \in 1..i : file[n].frames[j].ok PROVE i \in 1..k
    OBVIOUS
  <2>2. i \in 1..Len(file[n].frames)
    BY <1>1 DEF FilesOK
  <2>3. i \in good(file[n].frames)
    BY <2>1, <2>2 DEF good
  <2>4. QED
    BY <1>2, <2>3
<1>8. Keeps(n)
  BY <1>1, <1>2, <1>4, <1>5, <1>7 DEF Keeps
<1>9. \A m \in Inodes : m # n => Keeps(m)
  BY <1>1, <1>5 DEF Keeps
<1>10. FilesOK'
  BY <1>1, <1>2, <1>3, <1>4, <1>5 DEF FilesOK
<1>11. QED
  BY <1>1, <1>4, <1>5, <1>6, <1>8, <1>9, <1>10 DEF n

\* A kill tears the frame that is not on the platter yet.
LEMMA TearType ==
  ASSUME FilesOK, NEW n \in Inodes, file[n].synced < Len(file[n].frames), UNCHANGED dirs,
         file' = [file EXCEPT ![n].frames[Len(file[n].frames)].ok = FALSE]
  PROVE  FilesOK' /\ \A m \in Inodes : Keeps(m)
<1> DEFINE len == Len(file[n].frames)
           torn == [file[n].frames EXCEPT ![len] = [file[n].frames[len] EXCEPT !.ok = FALSE]]
<1>1. /\ file \in [Inodes -> [frames : Seq(Frames), synced : Nat]] /\ n \in Inodes
      /\ file[n].frames \in Seq(Frames) /\ file[n].synced \in Nat /\ len \in Nat
  BY LenProperties DEF FilesOK
<1>2. len \in 1..len /\ file[n].frames[len] \in Frames
  BY <1>1, ElementOfSeq
<1>3. [file[n].frames[len] EXCEPT !.ok = FALSE] \in Frames
  BY <1>2 DEF Frames
<1>4. torn \in Seq(Frames) /\ Len(torn) = len /\ \A i \in 1..len : i # len => torn[i] = file[n].frames[i]
  <2>1. file[n].frames \in [1..len -> Frames]
    BY <1>1, LenProperties
  <2>2. torn \in [1..len -> Frames] /\ \A i \in 1..len : i # len => torn[i] = file[n].frames[i]
    BY <1>3, <2>1
  <2>3. QED
    BY <1>1, <2>2
<1>5. /\ file'[n].frames = torn /\ file'[n].synced = file[n].synced
      /\ \A m \in Inodes : m # n => file'[m] = file[m]
  BY <1>1
<1>6. file' \in [Inodes -> [frames : Seq(Frames), synced : Nat]]
  <2>1. file' = [file EXCEPT ![n] = [file[n] EXCEPT !.frames = torn]]
    BY <1>1
  <2>2. [file[n] EXCEPT !.frames = torn] \in [frames : Seq(Frames), synced : Nat]
    BY <1>1, <1>4
  <2> HIDE DEF torn
  <2>3. QED
    BY <1>1, <2>1, <2>2
<1> HIDE DEF torn
<1>7. Keeps(n)
  <2>1. file[n].synced < len /\ \A i \in 1..file[n].synced : i <= file'[n].synced
    BY <1>1, <1>5
  <2> HIDE DEF len
  <2>2. \A i \in 1..file[n].synced : \A j \in 1..i : j \in 1..len /\ j # len
    BY <1>1, <2>1
  <2>3. QED
    BY <1>4, <1>5, <2>1, <2>2 DEF Keeps
<1>8. \A m \in Inodes : m # n => Keeps(m)
  BY <1>1, <1>5 DEF Keeps
<1>9. FilesOK'
  BY <1>1, <1>4, <1>5, <1>6 DEF FilesOK
<1>10. QED
  BY <1>7, <1>8, <1>9

\* What an inode may hold after the power failed begins with its flushed frames.
LEMMA SurvivesType ==
  ASSUME FilesOK, NEW n \in Inodes, NEW f \in survives(n)
  PROVE  /\ f \in [frames : Seq(Frames), synced : Nat] /\ f.synced <= Len(f.frames)
         /\ file[n].synced <= f.synced
         /\ \A j \in 1..file[n].synced : f.frames[j] = file[n].frames[j]
<1> DEFINE frames == file[n].frames
           k == f.synced
<1>1. /\ file[n] \in [frames : Seq(Frames), synced : Nat] /\ frames \in Seq(Frames)
      /\ file[n].synced \in Nat /\ Len(frames) \in Nat
  BY LenProperties DEF FilesOK
<1>2. ASSUME NEW i \in 0..Len(frames)
      PROVE  /\ SubSeq(frames, 1, i) \in Seq(Frames) /\ Len(SubSeq(frames, 1, i)) = i
             /\ \A j \in 1..i : SubSeq(frames, 1, i)[j] = frames[j]
  <2> HIDE DEF frames
  <2> QED BY <1>1, <1>2, SubSeqProperties
<1>3. CASE \E i \in file[n].synced..Len(frames) : f = [frames |-> SubSeq(frames, 1, i), synced |-> i]
  <2>1. PICK i \in file[n].synced..Len(frames) : f = [frames |-> SubSeq(frames, 1, i), synced |-> i]
    BY <1>3
  <2>2. i \in 0..Len(frames) /\ i \in Nat /\ file[n].synced <= i
    BY <1>1
  <2> HIDE DEF frames
  <2>3. f = [frames |-> SubSeq(frames, 1, i), synced |-> i] /\ f.frames = SubSeq(frames, 1, i) /\ f.synced = i
    BY <2>1
  <2>4. /\ SubSeq(frames, 1, i) \in Seq(Frames) /\ Len(SubSeq(frames, 1, i)) = i
        /\ \A j \in 1..i : SubSeq(frames, 1, i)[j] = frames[j]
    BY <1>2, <2>2
  <2>5. \A j \in 1..file[n].synced : j \in 1..i
    BY <1>1, <2>2
  <2>6. \A j \in 1..file[n].synced : f.frames[j] = frames[j]
    BY <2>3, <2>4, <2>5
  <2>7. f \in [frames : Seq(Frames), synced : Nat]
    BY <2>2, <2>3, <2>4
  <2>8. f.synced <= Len(f.frames) /\ file[n].synced <= f.synced
    BY <2>2, <2>3, <2>4
  <2>9. QED
    BY <2>6, <2>7, <2>8 DEF frames
<1>4. CASE \E i \in (file[n].synced + 1)..Len(frames) :
             i > 1 /\ f = [frames |-> [SubSeq(frames, 1, i) EXCEPT ![i].ok = FALSE], synced |-> i]
  <2>1. PICK i \in (file[n].synced + 1)..Len(frames) :
           i > 1 /\ f = [frames |-> [SubSeq(frames, 1, i) EXCEPT ![i].ok = FALSE], synced |-> i]
    BY <1>4
  <2>2. i \in 1..Len(frames) /\ i \in 0..Len(frames) /\ i \in Nat /\ file[n].synced < i
    BY <1>1
  <2> DEFINE sub == SubSeq(frames, 1, i)
             last == [sub[i] EXCEPT !.ok = FALSE]
             torn == [sub EXCEPT ![i] = last]
  <2>3. sub \in Seq(Frames) /\ Len(sub) = i /\ \A j \in 1..i : sub[j] = frames[j]
    BY <1>2, <2>2
  <2>4. f.frames = torn /\ f.synced = i /\ f = [frames |-> torn, synced |-> i]
    BY <2>1
  <2> HIDE DEF sub, frames
  <2>5. last \in Frames
    <3>1. sub[i] \in Frames
      BY <2>2, <2>3, ElementOfSeq
    <3>2. QED
      BY <3>1 DEF Frames
  <2> HIDE DEF last
  <2>6. sub \in [1..i -> Frames]
    BY <2>3, LenProperties
  <2>7. torn \in [1..i -> Frames] /\ \A j \in 1..i : j # i => torn[j] = sub[j]
    BY <2>5, <2>6
  <2> HIDE DEF torn
  <2>8. torn \in Seq(Frames) /\ Len(torn) = i
    BY <2>2, <2>7
  <2>9. \A j \in 1..file[n].synced : j \in 1..i /\ j # i
    BY <1>1, <2>2
  <2>10. f \in [frames : Seq(Frames), synced : Nat] /\ f.synced <= Len(f.frames)
    BY <2>2, <2>4, <2>8
  <2>11. \A j \in 1..file[n].synced : f.frames[j] = frames[j]
    BY <2>3, <2>4, <2>7, <2>9
  <2>12. QED
    BY <1>1, <2>2, <2>4, <2>10, <2>11 DEF frames
<1>5. QED
  BY <1>3, <1>4 DEF survives

\* A power failure keeps every frame that is on the platter.
LEMMA PowerType ==
  ASSUME FilesOK, PowerFailure
  PROVE  /\ FilesOK' /\ \A m \in Inodes : Keeps(m)
         /\ \E i \in 1..Len(dirs) : dirs' = <<dirs[i]>>
<1> DEFINE loose == {n \in Inodes : file[n].synced < Len(file[n].frames)}
<1>1. file \in [Inodes -> [frames : Seq(Frames), synced : Nat]] /\ dirs \in Seq([Names -> Inodes \cup {NoFile}])
  BY DEF FilesOK
<1>2. PICK left \in [loose -> UNION {survives(n) : n \in loose}] :
        /\ \A n \in loose : left[n] \in survives(n)
        /\ file' = [n \in Inodes |-> IF n \in loose THEN left[n] ELSE file[n]]
  BY DEF PowerFailure
<1> HIDE DEF loose
<1>3. PICK i \in 1..Len(dirs) : dirs' = <<dirs[i]>>
  BY DEF PowerFailure
<1>4. dirs[i] \in [Names -> Inodes \cup {NoFile}]
  BY <1>1, ElementOfSeq
<1>5. dirs' \in Seq([Names -> Inodes \cup {NoFile}]) /\ dirs' # <<>>
  BY <1>3, <1>4
<1>6. ASSUME NEW m \in Inodes
      PROVE  /\ file'[m] \in [frames : Seq(Frames), synced : Nat]
             /\ file'[m].synced <= Len(file'[m].frames)
             /\ file[m].synced <= file'[m].synced
             /\ \A j \in 1..file[m].synced : file'[m].frames[j] = file[m].frames[j]
  <2>1. CASE m \in loose
    <3>1. file'[m] \in survives(m)
      BY <1>2, <2>1
    <3>2. QED
      BY <3>1, SurvivesType
  <2>2. CASE m \notin loose
    <3>1. file'[m] = file[m]
      BY <1>2, <2>2
    <3>2. file[m] \in [frames : Seq(Frames), synced : Nat] /\ file[m].synced <= Len(file[m].frames)
      BY <1>1 DEF FilesOK
    <3>3. QED
      BY <3>1, <3>2
  <2>3. QED
    BY <2>1, <2>2
<1>7. file' \in [Inodes -> [frames : Seq(Frames), synced : Nat]]
  BY <1>2, <1>6
<1>8. ASSUME NEW m \in Inodes PROVE Keeps(m)
  <2>1. file[m].synced \in Nat /\ file'[m].synced \in Nat /\ file[m].synced <= file'[m].synced
    BY <1>1, <1>6, <1>7
  <2>2. \A k \in 1..file[m].synced : k <= file'[m].synced /\ 1..k \subseteq 1..file[m].synced
    BY <2>1
  <2>3. QED
    BY <1>6, <2>2 DEF Keeps
<1>9. QED
  BY <1>3, <1>5, <1>6, <1>7, <1>8 DEF FilesOK

(***************************************************************************)
(* What is acknowledged stays on the platter.                              *)
(***************************************************************************)
StepOf(p) ==
  \/ LockDir(p) \/ OpenFile(p) \/ WriteHeader(p) \/ WriteHeaderFails(p) \/ Replay(p)
  \/ WriteAppend(p) \/ WriteAppendFails(p) \/ WriteReturns(p) \/ WriteSyncFails(p)
  \/ CheckpointWrite(p) \/ CheckpointUnlink(p) \/ CheckpointLink(p)
  \/ CheckpointAbandon(p) \/ CheckpointRename(p) \/ CheckpointRenameFails(p)
  \/ CheckpointSyncDir(p) \/ CheckpointSyncDirFails(p) \/ CheckpointReopen(p)
  \/ CheckpointReopenFails(p) \/ CloseFile(p) \/ Unlock(p) \/ CollectLock(p) \/ Kill(p)

\* When one process takes a step the others are closed, before it and after.
LEMMA StepAlone ==
  ASSUME LogInv, NEW p \in Procs, StepOf(p)
  PROVE  \A q \in Procs : q # p => /\ pc[q] = "closed" /\ pc'[q] = "closed"
                                  /\ fd[q] = NoFile /\ fd'[q] = NoFile
<1>1. ProcOK /\ LockInv /\ NoProc \notin Procs
  BY WalAssumption DEF LogInv
<1>2. pc[p] # "closed" \/ lock \in {p, NoProc}
  BY DEF StepOf, LockDir, OpenFile, WriteHeader, WriteHeaderFails, Replay, WriteAppend, WriteAppendFails,
         WriteReturns, WriteSyncFails, CheckpointWrite, CheckpointUnlink, CheckpointLink, CheckpointAbandon,
         CheckpointRename, CheckpointRenameFails, CheckpointSyncDir, CheckpointSyncDirFails, CheckpointReopen,
         CheckpointReopenFails, CloseFile, Unlock, CollectLock, Kill, step
<1>3. \A q \in Procs : q # p => pc[q] = "closed" /\ fd[q] = NoFile
  BY <1>1, <1>2 DEF ProcOK, LockInv
<1>4. \A q \in Procs : q # p => pc'[q] = pc[q] /\ fd'[q] = fd[q]
  <2>1. CASE Kill(p)
    BY <2>1 DEF Kill, dead
  <2>2. CASE ~Kill(p)
    BY <1>1, <2>2 DEF StepOf, LockDir, OpenFile, WriteHeader, WriteHeaderFails, Replay, WriteAppend, WriteAppendFails,
         WriteReturns, WriteSyncFails, CheckpointWrite, CheckpointUnlink, CheckpointLink, CheckpointAbandon,
         CheckpointRename, CheckpointRenameFails, CheckpointSyncDir, CheckpointSyncDirFails, CheckpointReopen,
         CheckpointReopenFails, CloseFile, Unlock, CollectLock, step, ProcOK, procVars
  <2>3. QED
    BY <2>1, <2>2
<1>5. QED
  BY <1>3, <1>4

\* So the others' share of the invariant is the part that holds of whoever is closed.
LEMMA HolderOnly ==
  ASSUME LogInv, NEW p \in Procs, StepOf(p),
         (pc[p] # "closed" => Whole(p) /\ AtEnd(p) /\ Described(p) /\ Named(p) /\ AckedLive(p))'
  PROVE  HolderInv'
<1>1. ASSUME NEW q \in Procs, pc'[q] = "closed"
      PROVE  (Whole(q) /\ AtEnd(q) /\ Described(q) /\ Named(q) /\ AckedLive(q))'
  BY <1>1 DEF Whole, AtEnd, Described, Named, AckedLive, Replayed, Opened
<1>2. ASSUME NEW q \in Procs, pc'[q] # "closed" PROVE q = p
  BY <1>2, StepAlone
<1>3. QED
  BY <1>1, <1>2 DEF HolderInv

\* Nothing that is acknowledged is lost when the flushed frames stay and every
\* log that a version of the directory names was named before.
LEMMA DurableKept ==
  ASSUME FilesOK, FilesOK', DurableInv, \A n \in Inodes : Keeps(n), acked' = acked, unsynced => unsynced',
         \A i \in 1..Len(dirs') : \E j \in 1..Len(dirs) : dirs'[i]["wal"] = dirs[j]["wal"]
  PROVE  DurableInv'
<1>1. \A n \in Inodes \cup {NoFile}, t \in acked : Durable(t, n) => Durable(t, n)'
  BY KeepsDurable DEF NoFile
<1>2. ASSUME FsyncNames, ~unsynced', NEW i \in 1..Len(dirs'), NEW t \in acked' PROVE Durable(t, dirs[i]["wal"])'
  <2>1. PICK j \in 1..Len(dirs) : dirs'[i]["wal"] = dirs[j]["wal"]
    BY <1>2
  <2>2. dirs[j] \in [Names -> Inodes \cup {NoFile}]
    BY ElementOfSeq DEF FilesOK
  <2>3. PICK n \in Inodes \cup {NoFile} : n = dirs[j]["wal"]
    BY <2>2 DEF Names
  <2>4. Durable(t, n)
    BY <1>2, <2>3 DEF DurableInv
  <2>5. Durable(t, n)'
    BY <1>1, <1>2, <2>4
  <2>6. QED
    BY <2>1, <2>3, <2>5 DEF Durable
<1>3. QED
  BY <1>2 DEF DurableInv

\* The names in the directory are of inodes that exist.
LEMMA DirKnown ==
  ASSUME FilesOK, LogInv, InodesInv
  PROVE  /\ TypeOK /\ inodes \in Nat /\ inodes <= MaxCheckpoints + 1 /\ NoFile <= inodes
         /\ dir \in [Names -> Inodes \cup {NoFile}]
         /\ \A n \in Names : dir[n] \in Inodes \cup {NoFile} /\ dir[n] <= inodes
<1>1. TypeOK
  BY TypeOfParts DEF LogInv
<1>2. inodes \in Nat /\ inodes <= MaxCheckpoints + 1 /\ NoFile <= inodes
  BY InodeCount DEF LogInv, ProcOK, NoFile
<1>3. dir \in [Names -> Inodes \cup {NoFile}] /\ Len(dirs) \in 1..Len(dirs)
  BY <1>1, DirType
<1>4. \A n \in Names : dir[n] <= inodes
  BY <1>3 DEF InodesInv, dir
<1>5. QED
  BY <1>1, <1>2, <1>3, <1>4

\* A step that leaves the disk alone.
LEMMA DiskUntouched ==
  ASSUME WalInv, NEW p \in Procs, UNCHANGED <<fsVars, acked>> \/ UNCHANGED <<file, dirs, inodes, acked>>,
         unsynced' = unsynced \/ unsynced', \A q \in Procs : fd'[q] \in {fd[q], NoFile, dir["wal"]}
  PROVE  FilesOK' /\ InodesInv' /\ DurableInv'
<1>1. FilesOK /\ InodesInv /\ DurableInv /\ LogInv /\ UNCHANGED <<file, dirs, inodes, acked>>
  BY DEF WalInv, fsVars
<1>3. dir["wal"] <= inodes /\ NoFile <= inodes
  BY <1>1, DirKnown DEF Names
<1>4. FilesOK'
  BY <1>1 DEF FilesOK
<1>5. InodesInv'
  BY <1>1, <1>3 DEF InodesInv
<1>6. DurableInv'
  BY <1>1 DEF DurableInv, Durable
<1>7. QED
  BY <1>4, <1>5, <1>6

\* Opening the directory, and what fails without touching the disk.
LEMMA UntouchingStep ==
  ASSUME WalInv, NEW p \in Procs,
         \/ LockDir(p) \/ WriteHeaderFails(p) \/ WriteSyncFails(p) \/ CheckpointSyncDirFails(p)
         \/ CheckpointReopen(p) \/ CheckpointReopenFails(p) \/ Unlock(p) \/ CollectLock(p)
  PROVE  FilesOK' /\ InodesInv' /\ HolderInv' /\ DurableInv'
<1>1. FilesOK /\ LogInv /\ ProcOK /\ HolderInv /\ StepOf(p)
  BY DEF WalInv, LogInv, StepOf
<1>2. /\ UNCHANGED <<file, dirs, inodes, acked>> /\ (unsynced' = unsynced \/ unsynced')
      /\ \A q \in Procs : fd'[q] \in {fd[q], NoFile, dir["wal"]}
  BY <1>1 DEF LockDir, WriteHeaderFails, WriteSyncFails, CheckpointSyncDirFails, CheckpointReopen,
     CheckpointReopenFails, Unlock, CollectLock, fsVars, procVars, ProcOK
<1>3. FilesOK' /\ InodesInv' /\ DurableInv'
  BY <1>2, DiskUntouched
<1>4. pc[p] \in Steps /\ Whole(p) /\ AtEnd(p) /\ Described(p) /\ Named(p) /\ AckedLive(p)
  BY <1>1 DEF HolderInv, ProcOK
<1>5. pc'[p] # "closed" => (Whole(p) /\ AtEnd(p) /\ Described(p) /\ Named(p) /\ AckedLive(p))'
  <2>1. CASE LockDir(p)
    BY <1>1, <1>2, <2>1 DEF LockDir, step, Whole, AtEnd, Described, Named, AckedLive, Replayed, Opened, Steps, ProcOK
  <2>2. CASE WriteHeaderFails(p) \/ Unlock(p) \/ CollectLock(p)
    BY <1>1, <2>2 DEF WriteHeaderFails, Unlock, CollectLock, step, ProcOK, procVars
  <2>3. CASE WriteSyncFails(p) \/ CheckpointReopenFails(p)
    BY <1>1, <1>4, <2>3 DEF WriteSyncFails, CheckpointReopenFails, step, fsVars, dir, ProcOK,
       Whole, AtEnd, Described, Named, AckedLive, Replayed, Opened
  <2>4. CASE CheckpointSyncDirFails(p)
    BY <1>1, <1>4, <2>4 DEF CheckpointSyncDirFails, step, fsVars, ProcOK,
       Whole, AtEnd, Described, Named, AckedLive, Replayed, Opened
  <2>5. CASE CheckpointReopen(p)
    <3>1. pc[p] = "reopen" /\ pc'[p] = "idle" /\ UNCHANGED <<file, dir, live, acked, unsynced>>
      BY <1>1, <2>5 DEF CheckpointReopen, step, ProcOK, fsVars, dir
    <3>2. fd'[p] = NoFile \/ fd'[p] = dir["wal"]
      BY <1>1, <2>5 DEF CheckpointReopen, ProcOK
    <3>3. Describes(dir["wal"], live[p])
      BY <1>4, <3>1 DEF Described
    <3>4. \A i \in 1..Len(file[dir["wal"]].frames) : file[dir["wal"]].frames[i].ok
      BY <3>3 DEF Describes, Header, Frame
    <3>5. QED
      BY <1>4, <3>1, <3>2, <3>4 DEF Whole, AtEnd, Described, Named, AckedLive, Replayed, Opened
  <2>6. QED
    BY <2>1, <2>2, <2>3, <2>4, <2>5
<1>6. HolderInv'
  BY <1>1, <1>5, HolderOnly
<1>7. QED
  BY <1>3, <1>6

\* Changing the directory.
LEMMA NewDir ==
  ASSUME FilesOK, LogInv, InodesInv, UNCHANGED fd, NEW d \in [Names -> Inodes \cup {NoFile}], dirOp(d),
         inodes' \in Nat, inodes <= inodes', \A n \in Names : d[n] <= inodes'
  PROVE  /\ InodesInv' /\ dir' = d
         /\ dirs' \in Seq([Names -> Inodes \cup {NoFile}]) /\ dirs' # <<>>
         /\ \A i \in 1..Len(dirs') : dirs'[i] = d \/ \E j \in 1..Len(dirs) : dirs'[i] = dirs[j]
<1>1. TypeOK /\ inodes \in Nat
  BY DirKnown
<1>2. /\ dirs' \in Seq([Names -> Inodes \cup {NoFile}]) /\ dirs' # <<>> /\ dir' = d
      /\ Len(dirs') = Len(dirs) + 1 /\ \A i \in 1..Len(dirs) : dirs'[i] = dirs[i]
  BY <1>1, DirOpType
<1>3. Len(dirs) \in Nat /\ dirs'[Len(dirs) + 1] = d
  BY <1>1, <1>2, DirType DEF dir
<1>4. \A i \in 1..Len(dirs') : i = Len(dirs) + 1 \/ i \in 1..Len(dirs)
  BY <1>2, <1>3
<1>5. \A i \in 1..Len(dirs') : dirs'[i] = d \/ \E j \in 1..Len(dirs) : dirs'[i] = dirs[j]
  BY <1>2, <1>3, <1>4
<1>6. ASSUME NEW i \in 1..Len(dirs'), NEW n \in Names PROVE dirs'[i][n] <= inodes'
  <2>1. CASE dirs'[i] = d
    BY <2>1
  <2>2. CASE \E j \in 1..Len(dirs) : dirs'[i] = dirs[j]
    <3>1. PICK j \in 1..Len(dirs) : dirs'[i] = dirs[j]
      BY <2>2
    <3>2. dirs[j] \in [Names -> Inodes \cup {NoFile}] /\ dirs[j][n] <= inodes
      BY ElementOfSeq DEF FilesOK, InodesInv
    <3>3. dirs[j][n] \in Int
      BY <3>2 DEF Inodes, NoFile
    <3>4. QED
      BY <1>1, <3>1, <3>2, <3>3
  <2>3. QED
    BY <1>5, <2>1, <2>2
<1>7. \A p \in Procs : fd'[p] <= inodes'
  BY <1>1 DEF InodesInv, LogInv, ProcOK, Inodes, NoFile
<1>8. QED
  BY <1>2, <1>5, <1>6, <1>7 DEF InodesInv

\* The steps of a checkpoint on the directory, before the rename.
LEMMA DirectoryStep ==
  ASSUME WalInv, NEW p \in Procs,
         \/ CheckpointUnlink(p) \/ CheckpointLink(p) \/ CheckpointAbandon(p) \/ CheckpointRenameFails(p)
  PROVE  FilesOK' /\ InodesInv' /\ HolderInv' /\ DurableInv'
<1>1. FilesOK /\ LogInv /\ ProcOK /\ InodesInv /\ HolderInv /\ DurableInv /\ StepOf(p)
  BY DEF WalInv, LogInv, StepOf
<1>2. UNCHANGED <<file, inodes, fd, live, issued, acked, unsynced>>
  BY DEF CheckpointUnlink, CheckpointLink, CheckpointAbandon, CheckpointRenameFails
<1>3. /\ dir \in [Names -> Inodes \cup {NoFile}] /\ inodes \in Nat /\ NoFile <= inodes
      /\ \A n \in Names : dir[n] \in Inodes \cup {NoFile} /\ dir[n] <= inodes
  BY <1>1, DirKnown
<1>4. PICK n \in Names, m \in Names : \/ dirOp([dir EXCEPT ![n] = NoFile]) /\ n # "wal"
                                      \/ dirOp([dir EXCEPT ![n] = dir[m]]) /\ n = "wal.old"
  BY DEF CheckpointUnlink, CheckpointLink, CheckpointAbandon, CheckpointRenameFails, Names
<1>5. PICK d \in [Names -> Inodes \cup {NoFile}] : dirOp(d) /\ d["wal"] = dir["wal"] /\ \A k \in Names : d[k] <= inodes
  <2>1. PICK v \in Inodes \cup {NoFile} : v <= inodes /\ n # "wal" /\ dirOp([dir EXCEPT ![n] = v])
    BY <1>3, <1>4
  <2> DEFINE d == [dir EXCEPT ![n] = v]
  <2>2. d \in [Names -> Inodes \cup {NoFile}] /\ d["wal"] = dir["wal"] /\ \A k \in Names : d[k] <= inodes
    BY <1>3, <2>1 DEF Names
  <2>3. dirOp(d)
    BY <2>1
  <2> HIDE DEF d
  <2>4. QED
    BY <2>2, <2>3
<1>6. /\ InodesInv' /\ dir' = d
      /\ dirs' \in Seq([Names -> Inodes \cup {NoFile}]) /\ dirs' # <<>>
      /\ \A i \in 1..Len(dirs') : dirs'[i] = d \/ \E j \in 1..Len(dirs) : dirs'[i] = dirs[j]
  BY <1>1, <1>2, <1>3, <1>5, NewDir
<1>7. FilesOK'
  BY <1>1, <1>2, <1>6 DEF FilesOK
<1>8. DurableInv'
  <2>1. \A i \in Inodes : Keeps(i)
    BY <1>1, <1>2 DEF Keeps, FilesOK
  <2>2. Len(dirs) \in 1..Len(dirs)
    BY <1>1, DirKnown, DirType
  <2>3. \A i \in 1..Len(dirs') : \E j \in 1..Len(dirs) : dirs'[i]["wal"] = dirs[j]["wal"]
    BY <1>5, <1>6, <2>2 DEF dir
  <2>4. QED
    BY <1>1, <1>2, <1>7, <2>1, <2>3, DurableKept
<1>9. (Whole(p) /\ AtEnd(p) /\ Described(p) /\ Named(p) /\ AckedLive(p))'
  <2>1. Whole(p) /\ AtEnd(p) /\ Described(p) /\ Named(p) /\ AckedLive(p)
    BY <1>1 DEF HolderInv
  <2>2. dir'["wal"] = dir["wal"]
    BY <1>5, <1>6
  <2>3. CASE CheckpointUnlink(p) \/ CheckpointLink(p)
    <3>1. dir'["wal.tmp"] = dir["wal.tmp"]
      <4>1. Len(dirs') = Len(dirs) + 1
        BY <1>1, <1>5, DirKnown, DirOpType
      <4>2. QED
        BY <1>3, <2>3, <4>1, DirKnown DEF CheckpointUnlink, CheckpointLink, dirOp, dir, Names
    <3>2. pc[p] \in {"unlink", "link"} /\ pc'[p] \in {"link", "rename"}
      BY <1>1, <2>3 DEF CheckpointUnlink, CheckpointLink, step, ProcOK
    <3>3. QED
      BY <1>2, <2>1, <2>2, <3>1, <3>2 DEF Whole, AtEnd, Described, Describes, Named, AckedLive, Replayed, Opened, Steps
  <2>4. CASE CheckpointAbandon(p) \/ CheckpointRenameFails(p)
    <3>1. pc[p] \in {"link", "rename"} /\ pc'[p] = "idle"
      BY <1>1, <2>4 DEF CheckpointAbandon, CheckpointRenameFails, step, ProcOK
    <3>2. QED
      BY <1>2, <2>1, <2>2, <3>1 DEF Whole, AtEnd, Described, Named, AckedLive, Replayed, Opened, Steps
  <2>5. QED
    BY <2>3, <2>4
<1>10. HolderInv'
  BY <1>1, <1>9, HolderOnly
<1>11. QED
  BY <1>6, <1>7, <1>8, <1>10

\* The rename puts a file under the log's name that describes what is live.
LEMMA RenameStep ==
  ASSUME WalInv, NEW p \in Procs, CheckpointRename(p)
  PROVE  FilesOK' /\ InodesInv' /\ HolderInv' /\ DurableInv'
<1>1. FilesOK /\ LogInv /\ ProcOK /\ InodesInv /\ HolderInv /\ DurableInv /\ StepOf(p)
  BY DEF WalInv, LogInv, StepOf
<1>2. /\ UNCHANGED <<file, inodes, fd, live, issued, acked, unsynced>>
      /\ pc[p] = "rename" /\ pc'[p] = "dirsync"
      /\ dirOp([dir EXCEPT !["wal"] = dir["wal.tmp"], !["wal.tmp"] = NoFile])
  BY <1>1 DEF CheckpointRename, step, ProcOK
<1>3. /\ dir \in [Names -> Inodes \cup {NoFile}] /\ inodes \in Nat /\ NoFile <= inodes
      /\ \A n \in Names : dir[n] \in Inodes \cup {NoFile} /\ dir[n] <= inodes
  BY <1>1, DirKnown
<1>4. Whole(p) /\ Described(p) /\ AckedLive(p)
  BY <1>1 DEF HolderInv
<1>5. PICK n \in Inodes \cup {NoFile} : n = dir["wal.tmp"]
  BY <1>3 DEF Names
<1> DEFINE d == [dir EXCEPT !["wal"] = dir["wal.tmp"], !["wal.tmp"] = NoFile]
<1>6. d \in [Names -> Inodes \cup {NoFile}] /\ d["wal"] = n /\ \A k \in Names : d[k] <= inodes
  BY <1>3, <1>5 DEF Names
<1>7. dirOp(d)
  BY <1>2
<1> HIDE DEF d
<1>8. /\ InodesInv' /\ dir' = d
      /\ dirs' \in Seq([Names -> Inodes \cup {NoFile}]) /\ dirs' # <<>>
      /\ \A i \in 1..Len(dirs') : dirs'[i] = d \/ \E j \in 1..Len(dirs) : dirs'[i] = dirs[j]
  BY <1>1, <1>2, <1>3, <1>6, <1>7, NewDir
<1>9. FilesOK'
  BY <1>1, <1>2, <1>8 DEF FilesOK
<1>10. Describes(n, live[p])
  BY <1>2, <1>4, <1>5 DEF Described
<1>11. HolderInv'
  <2>1. (Whole(p) /\ AtEnd(p) /\ Described(p) /\ Named(p) /\ AckedLive(p))'
    BY <1>2, <1>4, <1>6, <1>8, <1>10 DEF Whole, AtEnd, Described, Describes, Named, AckedLive, Replayed, Opened, Steps
  <2>2. QED
    BY <1>1, <2>1, HolderOnly
<1>12. DurableInv'
  <2>1. SUFFICES ASSUME FsyncNames, ~unsynced, NEW i \in 1..Len(dirs'), NEW t \in acked PROVE Durable(t, dirs[i]["wal"])'
    BY <1>2 DEF DurableInv
  <2>2. CASE dirs'[i] = d
    <3>1. t \in live[p]
      BY <1>2, <1>4, <2>1 DEF AckedLive, Replayed
    <3>2. /\ file[n].synced = 2 /\ n # NoFile /\ t \in file[n].frames[2].txs
          /\ file[n].frames[1].ok /\ file[n].frames[2].ok
      BY <1>10, <3>1 DEF Describes, Header, Frame
    <3>3. 2 \in 1..file[n].synced /\ \A j \in 1..2 : file[n].frames[j].ok
      BY <3>2
    <3>4. Durable(t, n)
      BY <3>2, <3>3 DEF Durable
    <3>5. QED
      BY <1>2, <1>6, <2>2, <3>4 DEF Durable
  <2>3. CASE \E j \in 1..Len(dirs) : dirs'[i] = dirs[j]
    <3>1. PICK j \in 1..Len(dirs) : dirs'[i] = dirs[j]
      BY <2>3
    <3>2. Durable(t, dirs[j]["wal"])
      BY <1>1, <2>1 DEF DurableInv
    <3>3. QED
      BY <1>2, <3>1, <3>2 DEF Durable
  <2>4. QED
    BY <1>8, <2>2, <2>3
<1>13. QED
  BY <1>8, <1>9, <1>11, <1>12

\* Flushing the directory leaves the version in use.
LEMMA SyncDirStep ==
  ASSUME WalInv, NEW p \in Procs, CheckpointSyncDir(p)
  PROVE  FilesOK' /\ InodesInv' /\ HolderInv' /\ DurableInv'
<1>1. FilesOK /\ LogInv /\ ProcOK /\ InodesInv /\ HolderInv /\ DurableInv /\ StepOf(p)
  BY DEF WalInv, LogInv, StepOf
<1>2. /\ UNCHANGED <<file, inodes, fd, live, issued, acked, unsynced>>
      /\ pc[p] = "dirsync" /\ pc'[p] = "reopen" /\ dirs' = <<dir>>
  BY <1>1 DEF CheckpointSyncDir, step, ProcOK
<1>3. /\ dir \in [Names -> Inodes \cup {NoFile}] /\ TypeOK
      /\ \A n \in Names : dir[n] \in Inodes \cup {NoFile} /\ dir[n] <= inodes
  BY <1>1, DirKnown
<1>4. Len(dirs) \in 1..Len(dirs)
  BY <1>3, DirType
<1>5. dirs' \in Seq([Names -> Inodes \cup {NoFile}]) /\ dirs' # <<>> /\ dir' = dir
  BY <1>2, <1>3 DEF dir
<1>6. \A i \in 1..Len(dirs') : dirs'[i] = dir
  BY <1>2
<1>7. FilesOK'
  BY <1>1, <1>2, <1>5 DEF FilesOK
<1>8. InodesInv'
  BY <1>1, <1>2, <1>3, <1>6 DEF InodesInv
<1>9. DurableInv'
  <2>1. \A i \in 1..Len(dirs') : dirs'[i]["wal"] = dirs[Len(dirs)]["wal"]
    BY <1>6 DEF dir
  <2>2. \A n \in Inodes : Keeps(n)
    BY <1>1, <1>2 DEF Keeps, FilesOK
  <2>3. QED
    BY <1>1, <1>2, <1>4, <1>7, <2>1, <2>2, DurableKept
<1>10. Whole(p) /\ Described(p) /\ AckedLive(p)
  BY <1>1 DEF HolderInv
<1>11. (Whole(p) /\ AtEnd(p) /\ Described(p) /\ Named(p) /\ AckedLive(p))'
  BY <1>2, <1>5, <1>10 DEF Whole, AtEnd, Described, Describes, Named, AckedLive, Replayed, Opened, Steps
<1>12. HolderInv'
  BY <1>1, <1>11, HolderOnly
<1>13. QED
  BY <1>7, <1>8, <1>9, <1>12

\* A checkpoint is written to an inode that no name and no handle knows.
LEMMA CheckpointWriteStep ==
  ASSUME WalInv, NEW p \in Procs, CheckpointWrite(p)
  PROVE  FilesOK' /\ InodesInv' /\ HolderInv' /\ DurableInv'
<1>1. FilesOK /\ LogInv /\ ProcOK /\ InodesInv /\ HolderInv /\ DurableInv /\ StepOf(p)
  BY DEF WalInv, LogInv, StepOf
<1> DEFINE new == [frames |-> <<Header, Frame(live[p])>>, synced |-> 2]
           m == inodes + 1
           d == [dir EXCEPT !["wal.tmp"] = m]
<1>2. /\ UNCHANGED <<fd, live, issued, acked, unsynced>> /\ pc[p] = "idle" /\ pc'[p] = "unlink"
      /\ inodes < MaxCheckpoints + 1 /\ inodes' = m /\ dirOp(d)
      /\ file' = [file EXCEPT ![m] = new]
  BY <1>1, InodeCount DEF CheckpointWrite, step, ProcOK
<1>3. /\ dir \in [Names -> Inodes \cup {NoFile}] /\ inodes \in Nat /\ MaxCheckpoints \in Nat
      /\ \A n \in Names : dir[n] \in Inodes \cup {NoFile} /\ dir[n] <= inodes
  BY <1>1, DirKnown, InodeCount
<1>4. m \in Inodes /\ m \in Nat /\ inodes <= m /\ m # NoFile /\ \A n \in Int : n <= inodes => n # m
  BY <1>2, <1>3 DEF Inodes, NoFile
<1>5. d \in [Names -> Inodes \cup {NoFile}] /\ d["wal"] = dir["wal"] /\ d["wal.tmp"] = m /\ \A k \in Names : d[k] <= m
  <2>1. \A n \in Names : dir[n] \in Nat
    BY <1>3 DEF Inodes, NoFile
  <2>2. \A n \in Names : dir[n] <= m
    BY <1>3, <2>1
  <2> HIDE DEF m
  <2>3. QED
    BY <1>3, <1>4, <2>2 DEF Names
<1>6. new \in [frames : Seq(Frames), synced : Nat] /\ new.synced <= Len(new.frames)
  BY <1>1 DEF ProcOK, Header, Frame, Frames
<1> HIDE DEF d, m
<1>7. /\ InodesInv' /\ dir' = d
      /\ dirs' \in Seq([Names -> Inodes \cup {NoFile}]) /\ dirs' # <<>>
      /\ \A i \in 1..Len(dirs') : dirs'[i] = d \/ \E j \in 1..Len(dirs) : dirs'[i] = dirs[j]
  BY <1>1, <1>2, <1>4, <1>5, NewDir
<1>8. file'[m] = new /\ \A n \in Inodes : n # m => file'[n] = file[n]
  BY <1>1, <1>2, <1>4 DEF FilesOK
<1>9. FilesOK'
  <2> HIDE DEF new
  <2>1. file' \in [Inodes -> [frames : Seq(Frames), synced : Nat]]
    BY <1>1, <1>2, <1>4, <1>6 DEF FilesOK
  <2>2. QED
    BY <1>1, <1>6, <1>7, <1>8, <2>1 DEF FilesOK
<1>10. DurableInv'
  <2>1. SUFFICES ASSUME FsyncNames, ~unsynced, NEW i \in 1..Len(dirs'), NEW t \in acked PROVE Durable(t, dirs[i]["wal"])'
    BY <1>2 DEF DurableInv
  <2>2. PICK j \in 1..Len(dirs) : dirs'[i]["wal"] = dirs[j]["wal"]
    <3>1. Len(dirs) \in 1..Len(dirs)
      BY <1>1, DirKnown, DirType
    <3>2. QED
      BY <1>5, <1>7, <3>1 DEF dir
  <2>3. Durable(t, dirs[j]["wal"])
    BY <1>1, <2>1 DEF DurableInv
  <2>4. dirs[j] \in [Names -> Inodes \cup {NoFile}]
    BY <1>1, ElementOfSeq DEF FilesOK
  <2>5. dirs[j]["wal"] \in Inodes /\ dirs[j]["wal"] <= inodes
    BY <1>1, <2>3, <2>4 DEF Durable, Names, InodesInv
  <2>6. file'[dirs[j]["wal"]] = file[dirs[j]["wal"]]
    BY <1>4, <1>8, <2>5 DEF Inodes
  <2>7. QED
    BY <2>2, <2>3, <2>6 DEF Durable
<1>11. HolderInv'
  <2>1. Whole(p) /\ Named(p) /\ AckedLive(p)
    BY <1>1 DEF HolderInv
  <2>2. fd[p] # NoFile => file'[fd[p]] = file[fd[p]]
    <3>1. fd[p] # NoFile => fd[p] \in Inodes /\ fd[p] <= inodes
      BY <1>1 DEF InodesInv, ProcOK
    <3>2. QED
      BY <1>4, <1>8, <3>1 DEF Inodes
  <2>3. Whole(p)'
    BY <1>2, <2>1, <2>2 DEF Whole, Replayed
  <2>4. Described(p)'
    BY <1>2, <1>4, <1>5, <1>7, <1>8 DEF Described, Describes
  <2>5. AtEnd(p)' /\ Named(p)' /\ AckedLive(p)'
    BY <1>2, <1>5, <1>7, <2>1 DEF AtEnd, Named, AckedLive, Replayed, Opened, Steps
  <2>6. QED
    BY <1>1, <2>3, <2>4, <2>5, HolderOnly
<1>12. QED
  BY <1>7, <1>9, <1>10, <1>11

\* Opening the log creates it only when nothing has been acknowledged.
LEMMA OpenFileStep ==
  ASSUME WalInv, NEW p \in Procs, OpenFile(p)
  PROVE  FilesOK' /\ InodesInv' /\ HolderInv' /\ DurableInv'
<1>1. FilesOK /\ LogInv /\ ProcOK /\ InodesInv /\ HolderInv /\ DurableInv /\ StepOf(p)
  BY DEF WalInv, LogInv, StepOf
<1>2. /\ dir \in [Names -> Inodes \cup {NoFile}] /\ inodes \in Nat /\ MaxCheckpoints \in Nat
      /\ \A n \in Names : dir[n] \in Inodes \cup {NoFile} /\ dir[n] <= inodes
      /\ Len(dirs) \in 1..Len(dirs) /\ TypeOK
  BY <1>1, DirKnown, InodeCount, DirType
<1>3. UNCHANGED <<file, lock, fsync, dirty, live, issued, acked, crashes, unsynced>>
  BY DEF OpenFile
<1>4. (Whole(p) /\ AtEnd(p) /\ Described(p) /\ AckedLive(p))'
  <2>1. pc'[p] \in {"header", "replay"}
    BY <1>1 DEF OpenFile, step, ProcOK
  <2>2. QED
    BY <2>1 DEF Whole, AtEnd, Described, AckedLive, Replayed
<1>5. CASE dir["wal"] = NoFile
  <2> DEFINE m == inodes + 1
             d == [dir EXCEPT !["wal"] = m]
  <2>1. inodes < MaxCheckpoints + 1 /\ inodes' = m /\ dirOp(d) /\ fd' = [fd EXCEPT ![p] = m]
    BY <1>5, InodeCount DEF OpenFile
  <2>2. m \in Inodes /\ m \in Nat /\ inodes <= m
    BY <1>2, <2>1 DEF Inodes
  <2>3. d \in [Names -> Inodes \cup {NoFile}] /\ d["wal"] = m /\ \A k \in Names : d[k] <= m
    <3>1. \A n \in Names : dir[n] \in Nat
      BY <1>2 DEF Inodes, NoFile
    <3>2. \A n \in Names : dir[n] <= m
      BY <1>2, <3>1
    <3> HIDE DEF m
    <3>3. QED
      BY <1>2, <2>2, <3>2 DEF Names
  <2> HIDE DEF m, d
  <2>4. dirs' \in Seq([Names -> Inodes \cup {NoFile}]) /\ dirs' # <<>> /\ dir' = d
        /\ Len(dirs') = Len(dirs) + 1 /\ \A i \in 1..Len(dirs) : dirs'[i] = dirs[i]
    BY <1>2, <2>1, <2>3, DirOpType
  <2>5. dirs'[Len(dirs) + 1] = d /\ Len(dirs) \in Nat
    BY <1>2, <2>4 DEF dir
  <2>6. FilesOK'
    BY <1>1, <1>3, <2>4 DEF FilesOK
  <2>7. \A i \in 1..Len(dirs'), n \in Names : dirs'[i][n] <= inodes'
    <3>1. SUFFICES ASSUME NEW i \in 1..Len(dirs'), NEW n \in Names PROVE dirs'[i][n] <= inodes'
      OBVIOUS
    <3>2. CASE i = Len(dirs) + 1
      BY <2>1, <2>3, <2>5, <3>2
    <3>3. CASE i \in 1..Len(dirs)
      <4>1. dirs[i] \in [Names -> Inodes \cup {NoFile}] /\ dirs[i][n] <= inodes
        BY <1>1, <3>3, ElementOfSeq DEF FilesOK, InodesInv
      <4>2. dirs[i][n] \in Nat
        BY <4>1 DEF Inodes, NoFile
      <4>3. QED
        BY <1>2, <2>1, <2>2, <2>4, <3>3, <4>1, <4>2
    <3>4. QED
      BY <2>4, <2>5, <3>2, <3>3
  <2>8. \A q \in Procs : fd'[q] <= inodes'
    <3>1. \A q \in Procs : fd[q] \in Nat /\ fd[q] <= inodes
      BY <1>1 DEF ProcOK, InodesInv, Inodes, NoFile
    <3>2. QED
      BY <1>1, <1>2, <2>1, <2>2, <3>1 DEF ProcOK
  <2>9. FsyncNames /\ ~unsynced => acked = {}
    <3>1. FsyncNames /\ ~unsynced => \A t \in acked : Durable(t, dirs[Len(dirs)]["wal"])
      BY <1>1, <1>2 DEF DurableInv
    <3>2. QED
      BY <1>5, <3>1 DEF dir, Durable
  <2>10. DurableInv'
    BY <1>3, <2>9 DEF DurableInv
  <2>11. fd'[p] = dir'["wal"]
    BY <1>1, <2>1, <2>3, <2>4 DEF ProcOK
  <2>12. HolderInv'
    BY <1>1, <1>4, <2>11, HolderOnly DEF Named
  <2>13. QED
    BY <2>6, <2>7, <2>8, <2>10, <2>12 DEF InodesInv
<1>6. CASE dir["wal"] # NoFile
  <2>1. UNCHANGED <<inodes, dirs>> /\ fd' = [fd EXCEPT ![p] = dir["wal"]]
    BY <1>6 DEF OpenFile
  <2>2. \A q \in Procs : fd'[q] \in {fd[q], NoFile, dir["wal"]}
    BY <1>1, <2>1 DEF ProcOK
  <2>3. FilesOK' /\ InodesInv' /\ DurableInv'
    BY <1>3, <2>1, <2>2, DiskUntouched
  <2>4. fd'[p] = dir'["wal"]
    BY <1>1, <2>1 DEF ProcOK, dir
  <2>5. HolderInv'
    BY <1>1, <1>4, <2>4, HolderOnly DEF Named
  <2>6. QED
    BY <2>3, <2>5
<1>7. QED
  BY <1>5, <1>6

\* An append keeps what is on the platter.
LEMMA AppendKeeps ==
  ASSUME FilesOK, LogInv, InodesInv, DurableInv, NEW n \in Inodes, NEW fr \in Frames, append(n, fr),
         UNCHANGED <<dirs, inodes, acked, unsynced>>
  PROVE  /\ FilesOK' /\ DurableInv'
         /\ file'[n].synced = file[n].synced /\ Len(file'[n].frames) = Len(file[n].frames) + 1
         /\ Len(file[n].frames) \in Nat
         /\ \A i \in 1..Len(file[n].frames) : file'[n].frames[i] = file[n].frames[i]
         /\ file'[n].frames[Len(file[n].frames) + 1] = fr
<1>1. /\ file' \in [Inodes -> [frames : Seq(Frames), synced : Nat]]
      /\ \A m \in Inodes : m # n => file'[m] = file[m]
      /\ file'[n].synced = file[n].synced
      /\ Len(file'[n].frames) = Len(file[n].frames) + 1
      /\ \A i \in 1..Len(file[n].frames) : file'[n].frames[i] = file[n].frames[i]
      /\ file'[n].frames[Len(file[n].frames) + 1] = fr
  BY DirKnown, AppendType
<1>2. \A m \in Inodes : file[m].synced \in Nat /\ Len(file[m].frames) \in Nat /\ file[m].synced <= Len(file[m].frames)
  BY LenProperties DEF FilesOK
<1>3. FilesOK'
  BY <1>1, <1>2 DEF FilesOK
<1>4. ASSUME NEW m \in Inodes PROVE Keeps(m)
  <2>1. CASE m = n
    <3>1. \A i \in 1..file[m].synced : \A j \in 1..i : j \in 1..Len(file[m].frames)
      BY <1>2
    <3>2. QED
      BY <1>1, <1>2, <2>1, <3>1 DEF Keeps
  <2>2. CASE m # n
    BY <1>1, <1>2, <2>2 DEF Keeps
  <2>3. QED
    BY <2>1, <2>2
<1>5. DurableInv'
  BY <1>3, <1>4, DurableKept
<1>6. QED
  BY <1>1, <1>2, <1>3, <1>5

\* Appending a header, a transaction or a torn frame.
LEMMA AppendStep ==
  ASSUME WalInv, NEW p \in Procs, WriteHeader(p) \/ WriteAppend(p) \/ WriteAppendFails(p)
  PROVE  FilesOK' /\ InodesInv' /\ HolderInv' /\ DurableInv'
<1>1. FilesOK /\ LogInv /\ ProcOK /\ HandleInv /\ InodesInv /\ HolderInv /\ DurableInv /\ StepOf(p)
  BY DEF WalInv, LogInv, StepOf
<1>2. Whole(p) /\ Named(p) /\ AckedLive(p)
  BY <1>1 DEF HolderInv
<1>3. UNCHANGED <<dirs, inodes, acked, unsynced, live>> /\ dir' = dir
  BY DEF WriteHeader, WriteAppend, WriteAppendFails, dir
<1>4. InodesInv'
  BY <1>1, <1>3, DirKnown DEF InodesInv, WriteHeader, WriteAppend, WriteAppendFails, ProcOK
<1>5. fd[p] \in Inodes
  BY <1>1 DEF WriteHeader, WriteAppend, WriteAppendFails, step, ProcOK, HandleInv
<1>6. CASE WriteHeader(p)
  <2>1. append(fd[p], Header) /\ UNCHANGED fd /\ pc[p] = "header" /\ pc'[p] = "replay"
    BY <1>1, <1>6 DEF WriteHeader, step, ProcOK
  <2>2. Header \in Frames
    BY DEF Header, Frame, Frames
  <2>3. FilesOK' /\ DurableInv'
    BY <1>1, <1>3, <1>5, <2>1, <2>2, AppendKeeps
  <2>4. (Whole(p) /\ AtEnd(p) /\ Described(p) /\ Named(p) /\ AckedLive(p))'
    BY <1>2, <1>3, <2>1 DEF Whole, AtEnd, Described, Named, AckedLive, Replayed, Opened, Steps
  <2>5. QED
    BY <1>1, <1>4, <2>3, <2>4, HolderOnly
<1>7. CASE WriteAppend(p)
  <2>1. /\ append(fd[p], Frame({issued + 1})) /\ UNCHANGED fd /\ pc[p] = "idle" /\ pc'[p] = "flush"
        /\ issued < MaxWrites /\ issued' = issued + 1 /\ issued \in Nat
    BY <1>1, <1>7, WalAssumption DEF WriteAppend, step, ProcOK
  <2>2. PICK fr \in Frames : fr = Frame({issued + 1})
    <3>1. {issued + 1} \in SUBSET Txs
      BY <2>1, WalAssumption DEF Txs
    <3> HIDE DEF Txs
    <3>2. Frame({issued + 1}) \in Frames
      BY <3>1 DEF Frame, Frames
    <3>3. QED
      BY <3>2
  <2>3. /\ FilesOK' /\ DurableInv'
        /\ file'[fd[p]].synced = file[fd[p]].synced
        /\ Len(file'[fd[p]].frames) = Len(file[fd[p]].frames) + 1
        /\ Len(file[fd[p]].frames) \in Nat
        /\ \A i \in 1..Len(file[fd[p]].frames) : file'[fd[p]].frames[i] = file[fd[p]].frames[i]
        /\ file'[fd[p]].frames[Len(file[fd[p]].frames) + 1] = fr
    BY <1>1, <1>3, <1>5, <2>1, <2>2, AppendKeeps
  <2>4. fr.ok /\ fr.txs = {issued'}
    BY <2>1, <2>2 DEF Frame
  <2>5. Whole(p)'
    <3>1. \A i \in 1..Len(file[fd[p]].frames) : file[fd[p]].frames[i].ok
      BY <1>2, <1>5, <2>1 DEF Whole, Replayed, Inodes, NoFile
    <3>2. \A i \in 1..Len(file'[fd[p]].frames) : i \in 1..Len(file[fd[p]].frames) \/ i = Len(file[fd[p]].frames) + 1
      BY <2>3
    <3>3. QED
      BY <2>1, <2>3, <2>4, <3>1, <3>2 DEF Whole
  <2>6. AtEnd(p)'
    <3>1. file[fd[p]].synced < Len(file[fd[p]].frames) + 1
      BY <1>1, <1>5, <2>3 DEF FilesOK
    <3>2. QED
      BY <2>1, <2>3, <2>4, <3>1 DEF AtEnd
  <2>7. Described(p)' /\ Named(p)' /\ AckedLive(p)'
    BY <1>2, <1>3, <2>1 DEF Described, Named, AckedLive, Replayed, Opened, Steps
  <2>8. QED
    BY <1>1, <1>4, <2>3, <2>5, <2>6, <2>7, HolderOnly
<1>8. CASE WriteAppendFails(p)
  <2>1. /\ append(fd[p], [Frame({issued + 1}) EXCEPT !.ok = FALSE]) /\ fd'[p] = NoFile
        /\ pc[p] = "idle" /\ pc'[p] = "idle" /\ issued < MaxWrites /\ issued \in Nat
    BY <1>1, <1>8, WalAssumption DEF WriteAppendFails, ProcOK
  <2>2. PICK fr \in Frames : fr = [Frame({issued + 1}) EXCEPT !.ok = FALSE]
    <3>1. {issued + 1} \in SUBSET Txs
      BY <2>1, WalAssumption DEF Txs
    <3> HIDE DEF Txs
    <3>2. [Frame({issued + 1}) EXCEPT !.ok = FALSE] \in Frames
      BY <3>1 DEF Frame, Frames
    <3>3. QED
      BY <3>2
  <2>3. FilesOK' /\ DurableInv'
    BY <1>1, <1>3, <1>5, <2>1, <2>2, AppendKeeps
  <2>4. (Whole(p) /\ AtEnd(p) /\ Described(p) /\ Named(p) /\ AckedLive(p))'
    BY <1>2, <1>3, <2>1 DEF Whole, AtEnd, Described, Named, AckedLive, Replayed
  <2>5. QED
    BY <1>1, <1>4, <2>3, <2>4, HolderOnly
<1>9. QED
  BY <1>6, <1>7, <1>8

\* The transactions that are on the platter are replayed.
LEMMA DurableReplayed ==
  ASSUME FilesOK, NEW n \in Inodes \cup {NoFile}, NEW t, Durable(t, n)
  PROVE  t \in replayed(n)
<1>1. n \in Inodes /\ n # NoFile
  BY DEF Durable
<1>2. PICK i \in 1..file[n].synced : t \in file[n].frames[i].txs /\ \A j \in 1..i : file[n].frames[j].ok
  BY DEF Durable
<1>3. /\ file[n].synced \in Nat /\ Len(file[n].frames) \in Nat /\ file[n].synced <= Len(file[n].frames)
  BY <1>1, LenProperties DEF FilesOK
<1>4. i \in good(file[n].frames)
  BY <1>2, <1>3 DEF good
<1>5. QED
  BY <1>1, <1>2, <1>4 DEF replayed

\* After a replay the log is whole, and what it holds is live.
LEMMA ReplayStep ==
  ASSUME WalInv, NEW p \in Procs, Replay(p)
  PROVE  FilesOK' /\ InodesInv' /\ HolderInv' /\ DurableInv'
<1>1. FilesOK /\ LogInv /\ ProcOK /\ HandleInv /\ InodesInv /\ HolderInv /\ DurableInv /\ StepOf(p)
  BY DEF WalInv, LogInv, StepOf
<1>2. /\ UNCHANGED <<dirs, dir, inodes, fd, issued, acked, unsynced>> /\ pc[p] = "replay" /\ pc'[p] = "idle"
      /\ live'[p] = replayed(fd[p])
  BY <1>1 DEF Replay, step, ProcOK, dir
<1>3. fd[p] \in Inodes /\ fd[p] # NoFile
  BY <1>1, <1>2 DEF ProcOK, HandleInv
<1>4. /\ FilesOK' /\ \A m \in Inodes : Keeps(m)
      /\ \A i \in 1..Len(file'[fd[p]].frames) : file'[fd[p]].frames[i].ok
  BY <1>1, <1>3, ReplayType
<1>5. InodesInv'
  BY <1>1, <1>2 DEF InodesInv
<1>6. DurableInv'
  BY <1>1, <1>2, <1>4, DurableKept
<1>7. Named(p)
  BY <1>1 DEF HolderInv
<1>8. FsyncNames /\ ~unsynced => acked \subseteq replayed(fd[p])
  <2>1. SUFFICES ASSUME FsyncNames, ~unsynced, NEW t \in acked PROVE t \in replayed(fd[p])
    OBVIOUS
  <2>2. fd[p] = dirs[Len(dirs)]["wal"] /\ Len(dirs) \in 1..Len(dirs)
    BY <1>1, <1>2, <1>3, <1>7, <2>1, DirKnown, DirType DEF Named, Opened, Steps, dir
  <2>3. Durable(t, fd[p])
    BY <1>1, <2>1, <2>2 DEF DurableInv
  <2>4. QED
    BY <1>1, <1>3, <2>3, DurableReplayed
<1>9. (Whole(p) /\ AtEnd(p) /\ Described(p) /\ Named(p) /\ AckedLive(p))'
  BY <1>2, <1>4, <1>7, <1>8 DEF Whole, AtEnd, Described, Named, AckedLive, Replayed, Opened, Steps
<1>10. QED
  BY <1>1, <1>4, <1>5, <1>6, <1>9, HolderOnly

\* Flushing a log keeps it and the version of the directory in use.
LEMMA FlushFiles ==
  ASSUME WalInv, NEW n \in Inodes, flush(n), UNCHANGED inodes, \A q \in Procs : fd'[q] \in {fd[q], NoFile}
  PROVE  /\ FilesOK' /\ InodesInv' /\ dir' = dir
         /\ file'[n].frames = file[n].frames /\ file'[n].synced = Len(file[n].frames)
         /\ \A m \in Inodes : Keeps(m)
         /\ \A i \in 1..Len(dirs') : \E j \in 1..Len(dirs) : dirs'[i] = dirs[j]
<1>1. FilesOK /\ LogInv /\ ProcOK /\ InodesInv
  BY DEF WalInv, LogInv
<1>2. /\ TypeOK /\ Len(dirs) \in 1..Len(dirs) /\ inodes \in Nat /\ NoFile <= inodes
      /\ \A k \in Names : dir[k] <= inodes
  BY <1>1, DirKnown, DirType
<1>3. /\ file' \in [Inodes -> [frames : Seq(Frames), synced : Nat]]
      /\ \A m \in Inodes : /\ file'[m].frames = file[m].frames
                           /\ file'[m].synced = IF m = n THEN Len(file[m].frames) ELSE file[m].synced
      /\ dirs' = <<dir>> \/ dirs' = dirs
      /\ dirs' \in Seq([Names -> Inodes \cup {NoFile}]) /\ dirs' # <<>> /\ dir' = dir
  BY <1>2, FlushType
<1>4. \A m \in Inodes : file[m].synced \in Nat /\ Len(file[m].frames) \in Nat /\ file[m].synced <= Len(file[m].frames)
  BY <1>1, LenProperties DEF FilesOK
<1>5. FilesOK'
  <2>1. \A m \in Inodes : file'[m].synced <= Len(file'[m].frames)
    BY <1>3, <1>4
  <2>2. QED
    BY <1>3, <2>1 DEF FilesOK
<1>6. ASSUME NEW m \in Inodes PROVE Keeps(m)
  <2>1. /\ file'[m].frames = file[m].frames
        /\ file'[m].synced = IF m = n THEN Len(file[m].frames) ELSE file[m].synced
    BY <1>3
  <2>2. file[m].synced \in Nat /\ Len(file[m].frames) \in Nat /\ file[m].synced <= Len(file[m].frames)
    BY <1>4
  <2>3. file'[m].synced \in Nat /\ file[m].synced <= file'[m].synced
    BY <2>1, <2>2
  <2>4. QED
    BY <2>1, <2>2, <2>3 DEF Keeps
<1>7. \A i \in 1..Len(dirs') : \E j \in 1..Len(dirs) : dirs'[i] = dirs[j]
  <2>1. CASE dirs' = dirs
    BY <2>1
  <2>2. CASE dirs' = <<dir>>
    <3>1. \A i \in 1..Len(dirs') : dirs'[i] = dirs[Len(dirs)]
      BY <2>2 DEF dir
    <3>2. QED
      BY <1>2, <3>1
  <2>3. QED
    BY <1>3, <2>1, <2>2
<1>8. InodesInv'
  BY <1>1, <1>2, <1>7 DEF InodesInv
<1>9. QED
  BY <1>3, <1>5, <1>6, <1>7, <1>8

\* Write returns when what it wrote is on the platter, or asks for no flush.
LEMMA WriteReturnsStep ==
  ASSUME WalInv, NEW p \in Procs, WriteReturns(p)
  PROVE  FilesOK' /\ InodesInv' /\ HolderInv' /\ DurableInv'
<1>1. FilesOK /\ LogInv /\ ProcOK /\ HandleInv /\ InodesInv /\ HolderInv /\ DurableInv /\ StepOf(p)
  BY DEF WalInv, LogInv, StepOf
<1>2. /\ UNCHANGED <<inodes, lock, fd, fsync, dirty, issued, crashes, unsynced>>
      /\ pc[p] = "flush" /\ pc'[p] = "idle" /\ live'[p] = live[p] \cup {issued}
  BY <1>1 DEF WriteReturns, step, ProcOK
<1>3. fd[p] \in Inodes /\ fd[p] # NoFile
  BY <1>1, <1>2 DEF ProcOK, HandleInv
<1>4. Whole(p) /\ AtEnd(p) /\ Named(p) /\ AckedLive(p)
  BY <1>1 DEF HolderInv
<1> DEFINE n == fd[p]
           len == Len(file[n].frames)
<1>5. /\ \A i \in 1..len : file[n].frames[i].ok
      /\ file[n].frames[len].txs = {issued} /\ file[n].synced < len /\ file[n].synced \in Nat /\ len \in Nat
      /\ ~unsynced => n = dir["wal"]
      /\ FsyncNames /\ ~unsynced => acked \subseteq live[p]
  BY <1>1, <1>2, <1>3, <1>4, LenProperties DEF Whole, AtEnd, Named, AckedLive, Replayed, Opened, Steps, FilesOK
<1>6. CASE ~fsync[p]
  <2>1. UNCHANGED <<file, dirs, acked>> /\ dir' = dir
    BY <1>6 DEF WriteReturns, dir
  <2>2. \A q \in Procs : fd'[q] \in {fd[q], NoFile, dir["wal"]}
    BY <1>2
  <2>3. FilesOK' /\ InodesInv' /\ DurableInv'
    BY <1>2, <2>1, <2>2, DiskUntouched
  <2>4. (Whole(p) /\ AtEnd(p) /\ Described(p) /\ Named(p) /\ AckedLive(p))'
    BY <1>2, <1>5, <2>1 DEF Whole, AtEnd, Described, Named, AckedLive
  <2>5. QED
    BY <1>1, <2>3, <2>4, HolderOnly
<1>7. CASE fsync[p]
  <2>1. flush(n) /\ acked' = acked \cup {issued}
    BY <1>7 DEF WriteReturns
  <2>2. FilesOK' /\ InodesInv' /\ dir' = dir /\ file'[n].frames = file[n].frames /\ file'[n].synced = len
        /\ \A m \in Inodes : Keeps(m)
    <3>1. \A q \in Procs : fd'[q] \in {fd[q], NoFile}
      BY <1>2
    <3>2. QED
      BY <1>2, <1>3, <2>1, <3>1, FlushFiles
  <2>3. (Whole(p) /\ AtEnd(p) /\ Described(p) /\ Named(p) /\ AckedLive(p))'
    BY <1>2, <1>5, <2>1, <2>2 DEF Whole, AtEnd, Described, Named, AckedLive
  <2>4. FsyncNames => dirs' = <<dir>>
    BY <2>1 DEF flush
  <2>5. DurableInv'
    <3>1. SUFFICES ASSUME FsyncNames, ~unsynced, NEW i \in 1..Len(dirs'), NEW t \in acked' PROVE Durable(t, dirs[i]["wal"])'
      BY <1>2 DEF DurableInv
    <3>2. dirs'[i]["wal"] = n
      <4>1. dirs' = <<dir>> /\ dir["wal"] = n
        BY <1>5, <2>4, <3>1
      <4>2. dirs'[i] = dir
        BY <4>1
      <4>3. QED
        BY <4>1, <4>2
    <3>3. Durable(t, n)'
      <4>1. CASE t = issued
        <5>1. len \in 1..file'[n].synced
          BY <1>5, <2>2
        <5>2. t \in file'[n].frames[len].txs /\ \A j \in 1..len : file'[n].frames[j].ok
          BY <1>5, <2>2, <4>1
        <5> HIDE DEF len
        <5>3. QED
          BY <1>2, <1>3, <5>1, <5>2 DEF Durable
      <4>2. CASE t \in acked
        <5>1. PICK m \in Inodes \cup {NoFile} : m = fd[p]
          BY <1>3
        <5>2. fd[p] = dirs[Len(dirs)]["wal"] /\ Len(dirs) \in 1..Len(dirs)
          BY <1>1, <1>5, <3>1, DirKnown, DirType DEF dir
        <5>3. Durable(t, m)
          BY <1>1, <3>1, <4>2, <5>1, <5>2 DEF DurableInv
        <5>4. Durable(t, m)'
          BY <1>1, <1>3, <2>2, <5>1, <5>3, KeepsDurable
        <5>5. QED
          BY <1>2, <5>1, <5>4 DEF Durable
      <4>3. QED
        BY <2>1, <4>1, <4>2
    <3>4. QED
      BY <1>2, <3>2, <3>3 DEF Durable
  <2>6. QED
    BY <1>1, <2>2, <2>3, <2>5, HolderOnly
<1>8. QED
  BY <1>6, <1>7

\* Closing the log, flushed or not.
LEMMA CloseFileStep ==
  ASSUME WalInv, NEW p \in Procs, CloseFile(p)
  PROVE  FilesOK' /\ InodesInv' /\ HolderInv' /\ DurableInv'
<1>1. FilesOK /\ LogInv /\ ProcOK /\ HolderInv /\ StepOf(p)
  BY DEF WalInv, LogInv, StepOf
<1>2. /\ UNCHANGED <<inodes, issued, acked, unsynced>> /\ fd' = [fd EXCEPT ![p] = NoFile]
      /\ pc'[p] = "release"
  BY <1>1 DEF CloseFile, step, ProcOK
<1>3. \A q \in Procs : fd'[q] \in {fd[q], NoFile}
  BY <1>1, <1>2 DEF ProcOK
<1>4. (Whole(p) /\ AtEnd(p) /\ Described(p) /\ Named(p) /\ AckedLive(p))'
  BY <1>2 DEF Whole, AtEnd, Described, Named, AckedLive, Replayed, Opened
<1>5. CASE fd[p] # NoFile /\ flush(fd[p])
  <2>1. fd[p] \in Inodes
    BY <1>1, <1>5 DEF ProcOK
  <2>2. FilesOK' /\ InodesInv' /\ DurableInv'
    <3>1. FilesOK' /\ InodesInv' /\ \A m \in Inodes : Keeps(m)
      BY <1>2, <1>3, <1>5, <2>1, FlushFiles
    <3>2. \A i \in 1..Len(dirs') : \E j \in 1..Len(dirs) : dirs'[i] = dirs[j]
      BY <1>2, <1>3, <1>5, <2>1, FlushFiles
    <3>3. DurableInv'
      BY <1>1, <1>2, <3>1, <3>2, DurableKept DEF WalInv
    <3>4. QED
      BY <3>1, <3>3
  <2>3. QED
    BY <1>1, <1>4, <2>2, HolderOnly
<1>6. CASE UNCHANGED <<file, dirs>>
  <2>1. FilesOK' /\ InodesInv' /\ DurableInv'
    BY <1>2, <1>3, <1>6, DiskUntouched
  <2>2. QED
    BY <1>1, <1>4, <2>1, HolderOnly
<1>7. QED
  BY <1>5, <1>6 DEF CloseFile

\* A killed process keeps its files but for the frame it was writing.
LEMMA KillStep ==
  ASSUME WalInv, NEW p \in Procs, Kill(p)
  PROVE  FilesOK' /\ InodesInv' /\ HolderInv' /\ DurableInv'
<1>1. FilesOK /\ LogInv /\ ProcOK /\ HandleInv /\ InodesInv /\ DurableInv /\ HolderInv /\ StepOf(p)
  BY DEF WalInv, LogInv, StepOf
<1>2. /\ UNCHANGED <<dirs, inodes, acked, unsynced>> /\ pc'[p] = "closed"
      /\ \A q \in Procs : fd'[q] \in {fd[q], NoFile}
  BY DEF Kill, dead
<1>3. HolderInv'
  BY <1>1, <1>2, HolderOnly
<1>4. CASE UNCHANGED file
  <2>1. FilesOK' /\ InodesInv' /\ DurableInv'
    BY <1>2, <1>4, DiskUntouched
  <2>2. QED
    BY <1>3, <2>1
<1>5. CASE /\ pc[p] = "flush"
           /\ file' = [file EXCEPT ![fd[p]].frames[Len(file[fd[p]].frames)].ok = FALSE]
  <2>1. fd[p] \in Inodes /\ AtEnd(p)
    BY <1>1, <1>5 DEF ProcOK, HandleInv, HolderInv
  <2>2. file[fd[p]].synced < Len(file[fd[p]].frames)
    BY <1>5, <2>1 DEF AtEnd
  <2>3. FilesOK' /\ \A m \in Inodes : Keeps(m)
    BY <1>1, <1>2, <1>5, <2>1, <2>2, TearType
  <2>4. DurableInv'
    BY <1>1, <1>2, <2>3, DurableKept
  <2>5. InodesInv'
    BY <1>1, <1>2, DirKnown DEF InodesInv
  <2>6. QED
    BY <1>3, <2>3, <2>4, <2>5
<1>6. QED
  BY <1>4, <1>5 DEF Kill

\* A power failure leaves nobody and what was flushed.
LEMMA PowerStep ==
  ASSUME WalInv, PowerFailure
  PROVE  FilesOK' /\ InodesInv' /\ HolderInv' /\ DurableInv'
<1>1. FilesOK /\ LogInv /\ InodesInv /\ DurableInv
  BY DEF WalInv
<1>2. /\ UNCHANGED <<inodes, acked, unsynced>>
      /\ \A q \in Procs : fd'[q] = NoFile /\ pc'[q] = "closed"
  BY DEF PowerFailure, dead
<1>3. FilesOK' /\ \A m \in Inodes : Keeps(m)
  BY <1>1, PowerType
<1>4. PICK i \in 1..Len(dirs) : dirs' = <<dirs[i]>>
  BY <1>1, PowerType
<1>5. \A k \in 1..Len(dirs') : dirs'[k] = dirs[i]
  BY <1>4
<1>6. DurableInv'
  BY <1>1, <1>2, <1>3, <1>5, DurableKept
<1>7. InodesInv'
  BY <1>1, <1>2, <1>5, DirKnown DEF InodesInv
<1>8. HolderInv'
  BY <1>2 DEF HolderInv, Whole, AtEnd, Described, Named, AckedLive, Replayed, Opened
<1>9. QED
  BY <1>3, <1>6, <1>7, <1>8

(***************************************************************************)
(* The theorems.                                                           *)
(***************************************************************************)
LEMMA WalStep == WalInv /\ [Next]_vars => WalInv'
<1>1. ASSUME WalInv, Next PROVE WalInv'
  <2>1. FilesOK /\ LogInv /\ TypeOK
    BY <1>1, TypeOfParts DEF WalInv, LogInv
  <2>2. LogInv'
    BY <1>1, <2>1, LogStep
  <2>3. ASSUME NEW p \in Procs, StepOf(p) PROVE FilesOK' /\ InodesInv' /\ HolderInv' /\ DurableInv'
    BY <1>1, <2>3, UntouchingStep, DirectoryStep, RenameStep, SyncDirStep, CheckpointWriteStep, OpenFileStep,
       AppendStep, ReplayStep, WriteReturnsStep, CloseFileStep, KillStep DEF StepOf
  <2>4. ASSUME PowerFailure PROVE FilesOK' /\ InodesInv' /\ HolderInv' /\ DurableInv'
    BY <1>1, <2>4, PowerStep
  <2>5. PowerFailure \/ \E p \in Procs : StepOf(p)
    BY <1>1 DEF Next, StepOf
  <2>6. QED
    BY <2>2, <2>3, <2>4, <2>5 DEF WalInv
<1>2. ASSUME WalInv, UNCHANGED vars PROVE WalInv'
  <2>1. UNCHANGED <<file, dirs, inodes, lock, pc, fd, fsync, dirty, live, issued, acked, crashes, unsynced>>
    BY <1>2 DEF vars, fsVars, procVars
  <2>2. FilesOK' /\ LogInv' /\ InodesInv'
    BY <1>2, <2>1 DEF WalInv, FilesOK, LogInv, ProcOK, LockInv, HandleInv, InodesInv
  <2>3. HolderInv'
    BY <1>2, <2>1 DEF WalInv, HolderInv, Whole, AtEnd, Described, Describes, Named, AckedLive, dir
  <2>4. DurableInv'
    BY <1>2, <2>1 DEF WalInv, DurableInv, Durable
  <2>5. QED
    BY <2>2, <2>3, <2>4 DEF WalInv
<1>3. QED
  BY <1>1, <1>2

LEMMA WalInit == Init => WalInv
<1>1. SUFFICES ASSUME Init PROVE WalInv
  OBVIOUS
<1>2. 1 \in Inodes /\ MaxCheckpoints \in Nat /\ Cardinality(Inodes) = MaxCheckpoints + 1 /\ NoFile = 0
  BY InodeCount DEF Inodes, NoFile
<1>3. /\ [frames |-> <<Header>>, synced |-> 1] \in [frames : Seq(Frames), synced : Nat]
      /\ EmptyFile \in [frames : Seq(Frames), synced : Nat]
  BY DEF Header, Frame, Frames, EmptyFile
<1>4. \A n \in Inodes : file[n] \in {[frames |-> <<Header>>, synced |-> 1], EmptyFile}
  BY <1>1 DEF Init
<1>5. file \in [Inodes -> [frames : Seq(Frames), synced : Nat]]
  <2>1. file = [n \in Inodes |-> file[n]]
    BY <1>1 DEF Init
  <2>2. QED
    BY <1>3, <1>4, <2>1
<1>6. \A n \in Inodes : file[n].synced <= Len(file[n].frames)
  <2>1. ASSUME NEW n \in Inodes, file[n] = EmptyFile PROVE file[n].synced <= Len(file[n].frames)
    BY <2>1 DEF EmptyFile
  <2>2. ASSUME NEW n \in Inodes, file[n] = [frames |-> <<Header>>, synced |-> 1]
        PROVE  file[n].synced <= Len(file[n].frames)
    BY <2>2
  <2>3. QED
    BY <1>4, <2>1, <2>2
<1>7. PICK d \in [Names -> {NoFile, 1}] : dirs = <<d>> /\ \A n \in Names : d[n] <= inodes
  <2>1. CASE Fresh
    BY <1>1, <1>2, <2>1 DEF Init, NoDir, Names
  <2>2. CASE ~Fresh
    BY <1>1, <1>2, <2>2 DEF Init, NoDir, Names
  <2>3. QED
    BY <2>1, <2>2
<1>8. FilesOK
  BY <1>2, <1>5, <1>6, <1>7 DEF FilesOK
<1>9. ProcOK
  <2>1. inodes \in 0..Cardinality(Inodes) /\ issued \in 0..MaxWrites /\ crashes \in 0..MaxCrashes
    BY <1>1, <1>2, WalAssumption DEF Init
  <2>2. pc \in [Procs -> Steps] /\ fd \in [Procs -> Inodes \cup {NoFile}] /\ \A p \in Procs : fd[p] = NoFile
    BY <1>1 DEF Init, Steps
  <2>3. fsync \in [Procs -> BOOLEAN] /\ dirty \in [Procs -> BOOLEAN] /\ live \in [Procs -> SUBSET Txs]
    BY <1>1 DEF Init
  <2>4. lock \in Procs \cup {NoProc} /\ acked \in SUBSET Txs /\ unsynced \in BOOLEAN
    BY <1>1 DEF Init
  <2>5. QED
    BY <2>1, <2>2, <2>3, <2>4 DEF ProcOK
<1>10. LockInv /\ HandleInv /\ HolderInv
  BY <1>1 DEF Init, LockInv, HandleInv, HolderInv, Whole, AtEnd, Described, Named, AckedLive, Replayed, Opened
<1>11. InodesInv
  BY <1>1, <1>2, <1>7 DEF Init, InodesInv
<1>12. DurableInv
  BY <1>1 DEF Init, DurableInv
<1>13. QED
  BY <1>8, <1>9, <1>10, <1>11, <1>12 DEF WalInv, LogInv

LEMMA WalInvariant == Spec => []WalInv
BY WalInit, WalStep, PTL DEF Spec

\* Type correctness: the file system, the processes and the clients keep their
\* types, and no inode has more on the platter than it holds (Wal).
THEOREM TypeCorrect == Spec => []TypeOK
<1>1. WalInv => TypeOK
  BY TypeOfParts DEF WalInv, LogInv
<1>2. QED
  BY <1>1, WalInvariant, PTL

\* However many processes open the directory, fail and die, at most one has the
\* log open (lockDir, and Close releasing the lock last).
THEOREM OneOpenerAlways == Spec => []OneOpener
<1>1. WalInv => OneOpener
  BY DEF WalInv, LogInv, ProcOK, LockInv, OneOpener
<1>2. QED
  BY <1>1, WalInvariant, PTL

\* Between two calls a process appends to the log that the next recovery reads
\* (the reopen at the end of Checkpoint), as long as the directory was flushed.
THEOREM WritesNamedLogAlways == Spec => []WritesNamedLog
<1>1. WalInv => WritesNamedLog
  BY DEF WalInv, HolderInv, Named, WritesNamedLog, Opened, Steps
<1>2. QED
  BY <1>1, WalInvariant, PTL

\* Where flushing a file flushes its name, what Write acknowledged is found by
\* every later recovery, through any kills, power failures, failing system calls
\* and checkpoints, as long as the directory could be flushed.
THEOREM AckedRecoverableAlways == ASSUME FsyncNames PROVE Spec => []AckedRecoverable
<1>1. WalInv => AckedRecoverable
  <2>1. SUFFICES ASSUME WalInv, ~unsynced, NEW t \in acked PROVE t \in Recoverable
    BY DEF AckedRecoverable, AckedAllRecoverable
  <2>2. FilesOK /\ LogInv /\ InodesInv /\ DurableInv
    BY <2>1 DEF WalInv
  <2>3. Len(dirs) \in 1..Len(dirs) /\ dir["wal"] \in Inodes \cup {NoFile}
    BY <2>2, DirKnown, DirType DEF Names
  <2>4. PICK n \in Inodes \cup {NoFile} : n = dir["wal"]
    BY <2>3
  <2>5. Durable(t, n)
    BY <2>1, <2>2, <2>3, <2>4 DEF DurableInv, dir
  <2>6. t \in replayed(n)
    BY <2>2, <2>5, DurableReplayed
  <2>7. QED
    BY <2>4, <2>6 DEF Recoverable
<1>2. QED
  BY <1>1, WalInvariant, PTL
=============================================================================
