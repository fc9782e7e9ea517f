-------------------------------- MODULE Wal --------------------------------
(***************************************************************************)
(* internal/wal: the log file of one database directory, the processes     *)
(* that open the directory, and what a kill, a power failure or an I/O     *)
(* error leaves on disk.                                                   *)
(*                                                                         *)
(* A directory maps names to inodes and an inode holds frames.  A frame is *)
(* modelled by the transactions whose effect it carries: one for a commit, *)
(* all that were live for a checkpoint (the caller must describe the       *)
(* current state, as Checkpoint's comment asks).  A frame that does not    *)
(* decode is one whose ok is FALSE.  The file's header is written like a   *)
(* frame and carries nothing; its eight bytes are never torn.              *)
(*                                                                         *)
(* Log.mu makes Write, Checkpoint, Replay and Close exclude one another    *)
(* within a process; their system calls are separate actions, because a    *)
(* crash or another process can come between any two of them.              *)
(***************************************************************************)
EXTENDS Naturals, Sequences, FiniteSets

CONSTANTS
  Procs,           \* processes that open the directory
  NoProc,          \* the lock's holder when it is free
  MaxWrites,       \* bound: transactions written in a behaviour
  MaxCheckpoints,  \* bound: checkpoint files created in a behaviour
  MaxCrashes,      \* bound: kills and power failures in a behaviour
  Fsyncs,          \* values openers pass for the fsync argument of Open
  FsyncNames,      \* whether flushing a file flushes the directory entry that
                   \* names it: journaling file systems do, POSIX does not say
  Fresh,           \* whether the first Open creates the directory
  Faults           \* system calls that may fail: see FaultNames

FaultNames == {"header", "append", "sync", "link", "rename", "dirsync", "reopen"}

ASSUME WalAssumption ==
  /\ NoProc \notin Procs
  /\ MaxWrites \in Nat /\ MaxCheckpoints \in Nat /\ MaxCrashes \in Nat
  /\ Fsyncs \subseteq BOOLEAN /\ FsyncNames \in BOOLEAN /\ Fresh \in BOOLEAN
  /\ Faults \subseteq FaultNames

Txs    == 1..MaxWrites
Inodes == 1..(MaxCheckpoints + 1)     \* the log first created, then the checkpoints
NoFile == 0
Names  == {"wal", "wal.old", "wal.tmp"}

VARIABLES
  \* the file system
  file,      \* inode -> its frames and how many of them are on the platter
  dirs,      \* the directory: the durable version first, the current one last
  inodes,    \* inodes created so far
  lock,      \* the process whose descriptor holds the flock on LOCK
  \* each process
  pc,        \* the system call its Log comes to next
  fd,        \* Log.f: the inode it appends to, NoFile when nil or closed
  fsync,     \* Log.fsync
  dirty,     \* Log.dirty
  live,      \* the transactions the engine above holds as committed
  \* the clients
  issued,    \* transactions written so far; the last one is the one in flight
  acked,     \* transactions whose Write returned nil with fsync on
  crashes,
  \* history, read by properties only
  unsynced   \* whether flushing the directory has failed

fsVars   == <<file, dirs, inodes, lock>>
procVars == <<pc, fd, fsync, dirty, live>>
vars     == <<fsVars, procVars, issued, acked, crashes, unsynced>>

\* "closed"; "locked", "header", "replay": inside Open; "idle": between calls;
\* "append", "flush": inside Write; "unlink" .. "reopen": inside Checkpoint;
\* "release": inside Close, the file closed and the lock still held.
Steps == {"closed", "locked", "header", "replay", "idle", "flush",
          "unlink", "link", "rename", "dirsync", "reopen", "release"}

Frame(txs)  == [txs |-> txs, ok |-> TRUE]
Header      == Frame({})
EmptyFile   == [frames |-> <<>>, synced |-> 0]
NoDir       == [n \in Names |-> NoFile]

dir == dirs[Len(dirs)]

\* A directory operation reaches the platter no earlier than syncDir, or a
\* flush of the file it names.
dirOp(d) == dirs' = Append(dirs, d)
flush(n) == /\ file' = [file EXCEPT ![n].synced = Len(file[n].frames)]
            /\ dirs' = IF FsyncNames THEN <<dir>> ELSE dirs

\* Frames before the first one that does not decode.
good(frames) == {i \in 1..Len(frames) : \A j \in 1..i : frames[j].ok}

\* The transactions a replay of inode n recovers.
replayed(n) ==
  IF n = NoFile THEN {}
  ELSE UNION {file[n].frames[i].txs : i \in good(file[n].frames)}

\* What the next recovery of the directory would find.
Recoverable == replayed(dir["wal"])

Init ==
  /\ file = [n \in Inodes |-> IF n = 1 /\ ~Fresh THEN [frames |-> <<Header>>, synced |-> 1]
                                                   ELSE EmptyFile]
  /\ dirs = <<[NoDir EXCEPT !["wal"] = IF Fresh THEN NoFile ELSE 1]>>
  /\ inodes = IF Fresh THEN 0 ELSE 1
  /\ lock = NoProc
  /\ pc = [p \in Procs |-> "closed"]
  /\ fd = [p \in Procs |-> NoFile]
  /\ fsync = [p \in Procs |-> FALSE]
  /\ dirty = [p \in Procs |-> FALSE]
  /\ live = [p \in Procs |-> {}]
  /\ issued = 0
  /\ acked = {}
  /\ crashes = 0
  /\ unsynced = FALSE

step(p, from, to) == pc[p] = from /\ pc' = [pc EXCEPT ![p] = to]

(***************************************************************************)
(* Open and Replay.                                                        *)
(***************************************************************************)

\* A second opener is refused at once and changes nothing.
LockDir(p) ==
  /\ lock = NoProc
  /\ step(p, "closed", "locked")
  /\ lock' = p
  /\ \E b \in Fsyncs : fsync' = [fsync EXCEPT ![p] = b]
  /\ UNCHANGED <<file, dirs, inodes, fd, dirty, live, issued, acked, crashes, unsynced>>

OpenFile(p) ==
  /\ IF dir["wal"] = NoFile
       THEN /\ step(p, "locked", "header")
            /\ inodes < Cardinality(Inodes)      \* bound
            /\ inodes' = inodes + 1
            /\ dirOp([dir EXCEPT !["wal"] = inodes + 1])
            /\ fd' = [fd EXCEPT ![p] = inodes + 1]
       ELSE /\ step(p, "locked", IF file[dir["wal"]].frames = <<>> THEN "header" ELSE "replay")
            /\ fd' = [fd EXCEPT ![p] = dir["wal"]]
            /\ UNCHANGED <<inodes, dirs>>
  /\ UNCHANGED <<file, lock, fsync, dirty, live, issued, acked, crashes, unsynced>>

append(n, fr) == file' = [file EXCEPT ![n].frames = Append(@, fr)]

\* A file of size zero gets its header, and nothing flushes it.
WriteHeader(p) ==
  /\ step(p, "header", "replay")
  /\ append(fd[p], Header)
  /\ UNCHANGED <<dirs, inodes, lock, fd, fsync, dirty, live, issued, acked, crashes, unsynced>>

\* fail closes the file and forgets the lock's descriptor.
WriteHeaderFails(p) ==
  /\ "header" \in Faults
  /\ step(p, "header", "closed")
  /\ fd' = [fd EXCEPT ![p] = NoFile]
  /\ fsync' = [fsync EXCEPT ![p] = FALSE]
  /\ UNCHANGED <<fsVars, dirty, live, issued, acked, crashes, unsynced>>

\* (variant) the partial frame at the end is skipped and stays in the file
ReplayKeepsTail(p) ==
  /\ step(p, "replay", "idle")
  /\ live' = [live EXCEPT ![p] = replayed(fd[p])]
  /\ dirty' = [dirty EXCEPT ![p] = FALSE]
  /\ UNCHANGED <<fsVars, fd, fsync, issued, acked, crashes, unsynced>>

Replay(p) ==
  LET n == fd[p]
      k == Cardinality(good(file[n].frames))
  IN /\ step(p, "replay", "idle")
     /\ file' = [file EXCEPT ![n].frames = SubSeq(@, 1, k),
                             ![n].synced = IF @ > k THEN k ELSE @]
     /\ live' = [live EXCEPT ![p] = replayed(n)]
     /\ dirty' = [dirty EXCEPT ![p] = FALSE]
     /\ UNCHANGED <<dirs, inodes, lock, fd, fsync, issued, acked, crashes, unsynced>>

(***************************************************************************)
(* Write: append one frame, flush it, return.                              *)
(***************************************************************************)
WriteAppend(p) ==
  /\ step(p, "idle", "flush")
  /\ fd[p] # NoFile
  /\ issued < MaxWrites      \* bound
  /\ issued' = issued + 1
  /\ append(fd[p], Frame({issued + 1}))
  /\ dirty' = [dirty EXCEPT ![p] = TRUE]
  /\ UNCHANGED <<dirs, inodes, lock, fd, fsync, live, acked, crashes, unsynced>>

\* A short write: the frame is torn and the log accepts nothing more.
WriteAppendFails(p) ==
  /\ "append" \in Faults
  /\ pc[p] = "idle"
  /\ fd[p] # NoFile
  /\ issued < MaxWrites      \* bound
  /\ issued' = issued + 1
  /\ append(fd[p], [Frame({issued + 1}) EXCEPT !.ok = FALSE])
  /\ fd' = [fd EXCEPT ![p] = NoFile]
  /\ UNCHANGED <<dirs, inodes, lock, pc, fsync, dirty, live, acked, crashes, unsynced>>

\* (variant) the caller is told before the frame has been flushed
WriteReturnsUnsynced(p) ==
  /\ step(p, "flush", "idle")
  /\ acked' = IF fsync[p] THEN acked \cup {issued} ELSE acked
  /\ live' = [live EXCEPT ![p] = @ \cup {issued}]
  /\ UNCHANGED <<fsVars, fd, fsync, dirty, issued, crashes, unsynced>>

WriteReturns(p) ==
  /\ step(p, "flush", "idle")
  /\ IF fsync[p] THEN flush(fd[p]) ELSE UNCHANGED <<file, dirs>>
  /\ acked' = IF fsync[p] THEN acked \cup {issued} ELSE acked
  /\ live' = [live EXCEPT ![p] = @ \cup {issued}]
  /\ UNCHANGED <<inodes, lock, fd, fsync, dirty, issued, crashes, unsynced>>

\* The frame is in the file whole, and the caller is told that it is not.
WriteSyncFails(p) ==
  /\ fsync[p] /\ "sync" \in Faults
  /\ step(p, "flush", "idle")
  /\ fd' = [fd EXCEPT ![p] = NoFile]
  /\ UNCHANGED <<fsVars, fsync, dirty, live, issued, acked, crashes, unsynced>>

(***************************************************************************)
(* Checkpoint.                                                             *)
(***************************************************************************)

\* (variant) the file describes what was acknowledged, not what is live
CheckpointWriteAcked(p) ==
  /\ dirty[p]
  /\ inodes < Cardinality(Inodes)
  /\ step(p, "idle", "unlink")
  /\ inodes' = inodes + 1
  /\ file' = [file EXCEPT ![inodes + 1] =
                [frames |-> <<Header, Frame(live[p] \cap acked)>>, synced |-> 2]]
  /\ dirOp([dir EXCEPT !["wal.tmp"] = inodes + 1])
  /\ UNCHANGED <<lock, fd, fsync, dirty, live, issued, acked, crashes, unsynced>>

\* Creating, filling and flushing wal.tmp.  Until the rename no reader looks at
\* it, so an error in between leaves nothing behind and is no action; nor does
\* it matter whether a crash left a wal.tmp to be truncated.
CheckpointWrite(p) ==
  /\ dirty[p]
  /\ inodes < Cardinality(Inodes)      \* bound
  /\ step(p, "idle", "unlink")
  /\ inodes' = inodes + 1
  /\ file' = [file EXCEPT ![inodes + 1] =
                [frames |-> <<Header, Frame(live[p])>>, synced |-> 2]]
  /\ dirOp([dir EXCEPT !["wal.tmp"] = inodes + 1])
  /\ UNCHANGED <<lock, fd, fsync, dirty, live, issued, acked, crashes, unsynced>>

CheckpointUnlink(p) ==
  /\ step(p, "unlink", "link")
  /\ dirOp([dir EXCEPT !["wal.old"] = NoFile])
  /\ UNCHANGED <<file, inodes, lock, fd, fsync, dirty, live, issued, acked, crashes, unsynced>>

CheckpointLink(p) ==
  /\ step(p, "link", "rename")
  /\ dirOp([dir EXCEPT !["wal.old"] = dir["wal"]])
  /\ UNCHANGED <<file, inodes, lock, fd, fsync, dirty, live, issued, acked, crashes, unsynced>>

\* No hard links: the checkpoint is given up and reported as done.
CheckpointAbandon(p) ==
  /\ "link" \in Faults
  /\ step(p, "link", "idle")
  /\ dirOp([dir EXCEPT !["wal.tmp"] = NoFile])
  /\ UNCHANGED <<file, inodes, lock, fd, fsync, dirty, live, issued, acked, crashes, unsynced>>

CheckpointRename(p) ==
  /\ step(p, "rename", "dirsync")
  /\ dirOp([dir EXCEPT !["wal"] = dir["wal.tmp"], !["wal.tmp"] = NoFile])
  /\ UNCHANGED <<file, inodes, lock, fd, fsync, dirty, live, issued, acked, crashes, unsynced>>

CheckpointRenameFails(p) ==
  /\ "rename" \in Faults
  /\ step(p, "rename", "idle")
  /\ dirOp([dir EXCEPT !["wal.tmp"] = NoFile])
  /\ UNCHANGED <<file, inodes, lock, fd, fsync, dirty, live, issued, acked, crashes, unsynced>>

CheckpointSyncDir(p) ==
  /\ step(p, "dirsync", "reopen")
  /\ dirs' = <<dir>>
  /\ UNCHANGED <<file, inodes, lock, fd, fsync, dirty, live, issued, acked, crashes, unsynced>>

\* The error is returned at once: the handle still names the old log.
CheckpointSyncDirFails(p) ==
  /\ "dirsync" \in Faults
  /\ step(p, "dirsync", "idle")
  /\ unsynced' = TRUE
  /\ UNCHANGED <<fsVars, fd, fsync, dirty, live, issued, acked, crashes>>

\* (variant) the handle stays on the log that was replaced
CheckpointKeepsHandle(p) ==
  /\ step(p, "reopen", "idle")
  /\ dirty' = [dirty EXCEPT ![p] = FALSE]
  /\ UNCHANGED <<fsVars, fd, fsync, live, issued, acked, crashes, unsynced>>

\* After a failed write there is no handle, and closing it is an error.
CheckpointReopen(p) ==
  /\ step(p, "reopen", "idle")
  /\ IF fd[p] = NoFile
       THEN UNCHANGED <<fd, dirty>>
       ELSE /\ fd' = [fd EXCEPT ![p] = dir["wal"]]
            /\ dirty' = [dirty EXCEPT ![p] = FALSE]
  /\ UNCHANGED <<fsVars, live, fsync, issued, acked, crashes, unsynced>>

\* The old handle is closed by then, and there is no other.
CheckpointReopenFails(p) ==
  /\ "reopen" \in Faults
  /\ step(p, "reopen", "idle")
  /\ fd' = [fd EXCEPT ![p] = NoFile]
  /\ UNCHANGED <<fsVars, fsync, dirty, live, issued, acked, crashes, unsynced>>

(***************************************************************************)
(* Close.  The lock goes last.                                             *)
(***************************************************************************)

\* (variant) the lock goes first
CloseFileUnlocked(p) ==
  /\ step(p, "idle", "release")
  /\ lock' = NoProc
  /\ UNCHANGED <<file, dirs, inodes, fd, fsync, dirty, live, issued, acked, crashes, unsynced>>

CloseFile(p) ==
  /\ step(p, "idle", "release")
  /\ \/ /\ fd[p] # NoFile
        /\ flush(fd[p])
     \/ /\ fd[p] = NoFile \/ "sync" \in Faults
        /\ UNCHANGED <<file, dirs>>
  /\ fd' = [fd EXCEPT ![p] = NoFile]
  /\ live' = [live EXCEPT ![p] = {}]
  /\ UNCHANGED <<inodes, lock, dirty, fsync, issued, acked, crashes, unsynced>>

Unlock(p) ==
  /\ step(p, "release", "closed")
  /\ lock' = NoProc
  /\ fsync' = [fsync EXCEPT ![p] = FALSE]
  /\ dirty' = [dirty EXCEPT ![p] = FALSE]
  /\ UNCHANGED <<file, dirs, inodes, fd, live, issued, acked, crashes, unsynced>>

\* Nobody refers to the descriptor that a failed Open left behind; the garbage
\* collector closes it some time.
CollectLock(p) ==
  /\ pc[p] = "closed"
  /\ lock = p
  /\ lock' = NoProc
  /\ UNCHANGED <<file, dirs, inodes, procVars, issued, acked, crashes, unsynced>>

(***************************************************************************)
(* Crashes.  A kill loses no page the kernel holds; it may tear the frame  *)
(* being written.  A power failure keeps what was flushed, any part of     *)
(* what was not, and any directory version since the durable one.          *)
(***************************************************************************)
dead(ps) ==
  /\ pc' = [p \in Procs |-> IF p \in ps THEN "closed" ELSE pc[p]]
  /\ fd' = [p \in Procs |-> IF p \in ps THEN NoFile ELSE fd[p]]
  /\ fsync' = [p \in Procs |-> IF p \in ps THEN FALSE ELSE fsync[p]]
  /\ dirty' = [p \in Procs |-> IF p \in ps THEN FALSE ELSE dirty[p]]
  /\ live' = [p \in Procs |-> IF p \in ps THEN {} ELSE live[p]]
  /\ lock' = IF lock \in ps THEN NoProc ELSE lock
  /\ crashes < MaxCrashes      \* bound
  /\ crashes' = crashes + 1

Kill(p) ==
  /\ pc[p] # "closed"
  /\ dead({p})
  /\ \/ UNCHANGED file
     \/ /\ pc[p] = "flush"
        /\ file' = [file EXCEPT ![fd[p]].frames[Len(file[fd[p]].frames)].ok = FALSE]
  /\ UNCHANGED <<dirs, inodes, issued, acked, unsynced>>

\* What inode n may hold after the power failed: k frames, the last one torn
\* when it is not among the flushed ones.
survives(n) ==
  {[frames |-> SubSeq(file[n].frames, 1, k), synced |-> k] :
     k \in file[n].synced..Len(file[n].frames)}
  \cup
  {[frames |-> [SubSeq(file[n].frames, 1, k) EXCEPT ![k].ok = FALSE], synced |-> k] :
     k \in {i \in (file[n].synced + 1)..Len(file[n].frames) : i > 1}}

PowerFailure ==
  LET loose == {n \in Inodes : file[n].synced < Len(file[n].frames)}
  IN /\ dead(Procs)
     /\ \E i \in 1..Len(dirs) : dirs' = <<dirs[i]>>
     /\ \E left \in [loose -> UNION {survives(n) : n \in loose}] :
          /\ \A n \in loose : left[n] \in survives(n)
          /\ file' = [n \in Inodes |-> IF n \in loose THEN left[n] ELSE file[n]]
     /\ UNCHANGED <<inodes, issued, acked, unsynced>>

Next ==
  \/ \E p \in Procs :
       \/ LockDir(p) \/ OpenFile(p) \/ WriteHeader(p) \/ WriteHeaderFails(p) \/ Replay(p)
       \/ WriteAppend(p) \/ WriteAppendFails(p) \/ WriteReturns(p) \/ WriteSyncFails(p)
       \/ CheckpointWrite(p) \/ CheckpointUnlink(p) \/ CheckpointLink(p)
       \/ CheckpointAbandon(p) \/ CheckpointRename(p) \/ CheckpointRenameFails(p)
       \/ CheckpointSyncDir(p) \/ CheckpointSyncDirFails(p) \/ CheckpointReopen(p)
       \/ CheckpointReopenFails(p) \/ CloseFile(p) \/ Unlock(p) \/ CollectLock(p) \/ Kill(p)
  \/ PowerFailure

Spec == Init /\ [][Next]_vars

(***************************************************************************)
(* Properties.                                                             *)
(***************************************************************************)

Frames == [txs : SUBSET Txs, ok : BOOLEAN]

\* The type invariant of the file system, the processes and the clients.
TypeOK ==
  /\ file \in [Inodes -> [frames : Seq(Frames), synced : Nat]]
  /\ \A n \in Inodes : file[n].synced <= Len(file[n].frames)
  /\ dirs \in Seq([Names -> Inodes \cup {NoFile}]) /\ dirs # <<>>
  /\ inodes \in 0..Cardinality(Inodes)
  /\ lock \in Procs \cup {NoProc}
  /\ pc \in [Procs -> Steps]
  /\ fd \in [Procs -> Inodes \cup {NoFile}]
  /\ \A p \in Procs : pc[p] \in {"closed", "locked", "release"} => fd[p] = NoFile
  /\ fsync \in [Procs -> BOOLEAN] /\ dirty \in [Procs -> BOOLEAN]
  /\ live \in [Procs -> SUBSET Txs]
  /\ issued \in 0..MaxWrites
  /\ acked \in SUBSET Txs
  /\ crashes \in 0..MaxCrashes
  /\ unsynced \in BOOLEAN

\* Every transaction whose Write returned nil is found by the next recovery,
\* whatever was killed, powered off or half done (Write, Checkpoint, Replay).
AckedAllRecoverable == acked \subseteq Recoverable

\* The same as long as the directory could be flushed.
AckedRecoverable == unsynced \/ AckedAllRecoverable

\* Whatever is lost, it is a suffix of the log: no transaction disappears from
\* under a later one that stays (Replay's truncation, the order of Write).
LosesSuffix ==
  [][\A m \in Recoverable \ Recoverable' : \A n \in Recoverable' : n < m]_vars

\* The previous generation is a whole log: it holds every acknowledged
\* transaction that the checkpoint which replaced it described, as long as the
\* directory could be flushed.
GenerationComplete ==
  LET old == dir["wal.old"]
      new == dir["wal"]
  IN (~unsynced /\ old # NoFile /\ new # NoFile /\ old # new) =>
       (file[new].frames[2].txs \cap acked) \subseteq replayed(old)

\* Two processes never have the log open at once, whatever fails or crashes
\* (lockDir, and Close releasing the lock last).
OneOpener == \A p, q \in Procs : (fd[p] # NoFile /\ fd[q] # NoFile) => p = q

\* A process between two calls appends to the inode that has the log's name
\* (the reopen at the end of Checkpoint), as long as the directory could be
\* flushed.
WritesNamedLog ==
  unsynced \/ \A p \in Procs : (pc[p] = "idle" /\ fd[p] # NoFile) => fd[p] = dir["wal"]
=============================================================================
