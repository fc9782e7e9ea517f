-------------------------- MODULE DurabilityProofs --------------------------
(***************************************************************************)
(* Proofs about what is left when something is lost.  First the files a    *)
(* checkpoint leaves: the previous generation under wal.old is a whole     *)
(* log, whatever fails and whoever dies.  Then what a crash takes away: it *)
(* is a suffix of the log, and nothing disappears from under a transaction *)
(* that was written later and stays.                                       *)
(***************************************************************************)
EXTENDS WalProofs


(***************************************************************************)
(* What a step may do to a file that it does not append to.                *)
(***************************************************************************)

\* The frames of inode n that stay are the first ones, with what they carry; one
\* of them may be torn, and none of them leaves the platter.
Shrinks(n) ==
  /\ Len(file'[n].frames) <= Len(file[n].frames)
  /\ \A i \in 1..Len(file'[n].frames) :
       /\ file'[n].frames[i].txs = file[n].frames[i].txs
       /\ file'[n].frames[i].ok => file[n].frames[i].ok
       /\ i <= file[n].synced => i <= file'[n].synced

\* A file has as many frames as it has, and no more of them on the platter.
LEMMA FileType ==
  ASSUME FilesOK, NEW n \in Inodes
  PROVE  /\ file[n].frames \in Seq(Frames) /\ file[n].synced \in Nat /\ Len(file[n].frames) \in Nat
         /\ file[n].synced <= Len(file[n].frames)
         /\ \A i \in 1..Len(file[n].frames) : file[n].frames[i] \in Frames
<1>1. /\ file[n].frames \in Seq(Frames) /\ file[n].synced \in Nat
      /\ file[n].synced <= Len(file[n].frames)
  BY DEF FilesOK
<1>2. QED
  BY <1>1, LenProperties, ElementOfSeq

\* A step that touches no file.
LEMMA SameShrinks ==
  ASSUME FilesOK, UNCHANGED file, NEW n \in Inodes
  PROVE  Shrinks(n) /\ Keeps(n)
BY FileType DEF Shrinks, Keeps

\* Replay.
LEMMA ReplayShrinks ==
  ASSUME FilesOK, NEW p \in Procs, fd[p] \in Inodes, Replay(p), NEW m \in Inodes
  PROVE  Shrinks(m)
<1> DEFINE n == fd[p]
           k == Cardinality(good(file[n].frames))
<1>1. /\ file[n].frames \in Seq(Frames) /\ file[n].synced \in Nat /\ Len(file[n].frames) \in Nat
      /\ file \in [Inodes -> [frames : Seq(Frames), synced : Nat]] /\ n \in Inodes
  BY FileType DEF FilesOK
<1>2. k \in 0..Len(file[n].frames)
  BY <1>1, GoodIsPrefix
<1>3. file' = [file EXCEPT ![n].frames = SubSeq(@, 1, k),
                           ![n].synced = IF @ > k THEN k ELSE @]
  BY DEF Replay
<1>4. CASE m = n
  <2>1. /\ file'[n].frames = SubSeq(file[n].frames, 1, k)
        /\ file'[n].synced = IF file[n].synced > k THEN k ELSE file[n].synced
    BY <1>1, <1>3
  <2> HIDE DEF k, n
  <2>2. /\ Len(SubSeq(file[n].frames, 1, k)) = k
        /\ \A i \in 1..k : SubSeq(file[n].frames, 1, k)[i] = file[n].frames[i]
    BY <1>1, <1>2, SubSeqProperties
  <2>3. QED
    BY <1>1, <1>2, <1>4, <2>1, <2>2 DEF Shrinks
<1>5. CASE m # n
  <2>1. file'[m] = file[m]
    BY <1>1, <1>3, <1>5
  <2>2. QED
    BY <2>1, FileType DEF Shrinks
<1>6. QED
  BY <1>4, <1>5

\* Tearing the last frame.
LEMMA TearShrinks ==
  ASSUME FilesOK, NEW n \in Inodes, file[n].synced < Len(file[n].frames),
         file' = [file EXCEPT ![n].frames[Len(file[n].frames)].ok = FALSE], NEW m \in Inodes
  PROVE  Shrinks(m)
<1> DEFINE len == Len(file[n].frames)
           torn == [file[n].frames EXCEPT ![len] = [file[n].frames[len] EXCEPT !.ok = FALSE]]
<1>1. /\ file[n].frames \in Seq(Frames) /\ file[n].synced \in Nat /\ len \in Nat /\ file[n].synced < len
      /\ file \in [Inodes -> [frames : Seq(Frames), synced : Nat]]
  BY FileType DEF FilesOK
<1>2. file[n].frames[len] \in Frames /\ len \in 1..len
  BY <1>1, ElementOfSeq
<1>3. CASE m = n
  <2>1. file'[n].frames = torn /\ file'[n].synced = file[n].synced
    BY <1>1
  <2>2. Len(torn) = len
    BY <1>1
  <2>3. file[n].frames \in [1..len -> Frames]
    BY <1>1, LenProperties
  <2>4. \A i \in 1..len : torn[i] = IF i = len THEN [file[n].frames[len] EXCEPT !.ok = FALSE] ELSE file[n].frames[i]
    BY <2>3
  <2>5. [file[n].frames[len] EXCEPT !.ok = FALSE].txs = file[n].frames[len].txs
        /\ [file[n].frames[len] EXCEPT !.ok = FALSE].ok = FALSE
    BY <1>2 DEF Frames
  <2> HIDE DEF torn, len
  <2>6. \A i \in 1..len : torn[i].txs = file[n].frames[i].txs /\ (torn[i].ok => file[n].frames[i].ok)
    BY <2>4, <2>5
  <2>7. QED
    BY <1>1, <1>3, <2>1, <2>2, <2>6 DEF Shrinks, len
<1>4. CASE m # n
  <2>1. file'[m] = file[m]
    BY <1>1, <1>4
  <2>2. QED
    BY <2>1, FileType DEF Shrinks
<1>5. QED
  BY <1>3, <1>4

\* A power failure.
LEMMA PowerShrinks ==
  ASSUME FilesOK, PowerFailure, NEW m \in Inodes
  PROVE  Shrinks(m)
<1> DEFINE loose == {n \in Inodes : file[n].synced < Len(file[n].frames)}
           frames == file[m].frames
<1>1. PICK left \in [loose -> UNION {survives(n) : n \in loose}] :
        /\ \A n \in loose : left[n] \in survives(n)
        /\ file' = [n \in Inodes |-> IF n \in loose THEN left[n] ELSE file[n]]
  BY DEF PowerFailure
<1>2. /\ frames \in Seq(Frames) /\ file[m].synced \in Nat /\ Len(frames) \in Nat
  BY FileType
<1> HIDE DEF loose
<1>3. CASE m \notin loose
  <2>1. file'[m] = file[m]
    BY <1>1, <1>3
  <2>2. QED
    BY <2>1, FileType DEF Shrinks
<1>4. CASE m \in loose
  <2>1. file'[m] \in survives(m)
    BY <1>1, <1>4
  <2>2. ASSUME NEW i \in 0..Len(frames)
        PROVE  /\ SubSeq(frames, 1, i) \in Seq(Frames) /\ Len(SubSeq(frames, 1, i)) = i
               /\ \A j \in 1..i : SubSeq(frames, 1, i)[j] = frames[j]
    <3> HIDE DEF frames
    <3> QED BY <1>2, <2>2, SubSeqProperties
  <2>3. CASE \E i \in file[m].synced..Len(frames) : file'[m] = [frames |-> SubSeq(frames, 1, i), synced |-> i]
    <3>1. PICK i \in file[m].synced..Len(frames) : file'[m] = [frames |-> SubSeq(frames, 1, i), synced |-> i]
      BY <2>3
    <3>2. i \in 0..Len(frames) /\ i \in Nat
      BY <1>2
    <3> DEFINE sub == SubSeq(frames, 1, i)
    <3>3. file'[m].frames = sub /\ file'[m].synced = i
      BY <3>1
    <3>4. Len(sub) = i /\ \A j \in 1..i : sub[j] = frames[j]
      BY <2>2, <3>2
    <3> HIDE DEF sub
    <3>5. QED
      BY <3>2, <3>3, <3>4 DEF Shrinks
  <2>4. CASE \E i \in (file[m].synced + 1)..Len(frames) :
               i > 1 /\ file'[m] = [frames |-> [SubSeq(frames, 1, i) EXCEPT ![i].ok = FALSE], synced |-> i]
    <3>1. PICK i \in (file[m].synced + 1)..Len(frames) :
             i > 1 /\ file'[m] = [frames |-> [SubSeq(frames, 1, i) EXCEPT ![i].ok = FALSE], synced |-> i]
      BY <2>4
    <3>2. i \in 1..Len(frames) /\ i \in 0..Len(frames) /\ i \in Nat
      BY <1>2
    <3> DEFINE sub == SubSeq(frames, 1, i)
               last == [sub[i] EXCEPT !.ok = FALSE]
               torn == [sub EXCEPT ![i] = last]
    <3>3. sub \in Seq(Frames) /\ Len(sub) = i /\ \A j \in 1..i : sub[j] = frames[j]
      BY <2>2, <3>2
    <3>4. file'[m].frames = torn /\ file'[m].synced = i
      <4>1. PICK f : f = file'[m]
        OBVIOUS
      <4>2. f = [frames |-> torn, synced |-> i]
        BY <3>1, <4>1, Zenon
      <4> HIDE DEF torn
      <4>3. QED
        BY <4>1, <4>2
    <3> HIDE DEF sub, frames
    <3>5. sub[i] \in Frames
      BY <3>2, <3>3, ElementOfSeq
    <3>6. last.txs = sub[i].txs /\ last.ok = FALSE
      BY <3>5 DEF Frames
    <3> HIDE DEF last
    <3>7. sub \in [1..i -> Frames]
      BY <3>3, LenProperties
    <3>8. \A j \in 1..i : torn[j] = IF j = i THEN last ELSE sub[j]
      BY <3>7
    <3>9. Len(torn) = i
      BY <3>3
    <3> HIDE DEF torn
    <3>10. \A j \in 1..i : torn[j].txs = frames[j].txs /\ (torn[j].ok => frames[j].ok)
      BY <3>2, <3>3, <3>6, <3>8
    <3>11. QED
      BY <1>2, <3>2, <3>4, <3>9, <3>10 DEF Shrinks, frames
  <2>5. QED
    BY <2>1, <2>3, <2>4 DEF survives
<1>5. QED
  BY <1>3, <1>4

\* A flush.
LEMMA FlushShrinks ==
  ASSUME FilesOK, TypeOK, NEW n \in Inodes, flush(n), NEW m \in Inodes
  PROVE  Shrinks(m)
<1>1. /\ file'[m].frames = file[m].frames
      /\ file'[m].synced = IF m = n THEN Len(file[m].frames) ELSE file[m].synced
  BY FlushType
<1>2. QED
  BY <1>1, FileType DEF Shrinks

(***************************************************************************)
(* The invariant.                                                          *)
(***************************************************************************)

\* Only what was written can be acknowledged, live or in a file.
Written == /\ acked \subseteq 1..issued
           /\ \A p \in Procs : live[p] \subseteq 1..issued
           /\ \A n \in Inodes : \A i \in 1..Len(file[n].frames) : file[n].frames[i].txs \subseteq 1..issued

\* The transaction that p is about to flush is in the last frame of its log only.
InFlight(p) == pc[p] = "flush" =>
  \A n \in Inodes : \A i \in 1..Len(file[n].frames) :
     issued \in file[n].frames[i].txs => n = fd[p] /\ i = Len(file[n].frames)

\* A frame that carries something acknowledged is on the platter, in whichever
\* file it is.
OnPlatter(n) == \A i \in 1..Len(file[n].frames) :
  file[n].frames[i].txs \cap acked # {} => i <= file[n].synced

\* What p holds live and was acknowledged is in the log that is read next.
LiveLogged(p) == ~unsynced /\ pc[p] \in Replayed =>
  \A t \in live[p] \cap acked : Durable(t, dir["wal"])

\* Before the rename wal.old is the log itself.
Linked(p) == pc[p] = "rename" => dir["wal.old"] = dir["wal"]

\* A version of the directory names a previous generation only beside a log; if
\* they differ then the log begins with a checkpoint, and what is acknowledged of
\* it is in the previous generation.
Generation(d) ==
  d["wal.old"] # NoFile =>
    /\ d["wal"] # NoFile
    /\ ~unsynced /\ d["wal.old"] # d["wal"] =>
         /\ 2 <= file[d["wal"]].synced
         /\ file[d["wal"]].frames[1].ok /\ file[d["wal"]].frames[2].ok
         /\ \A t \in file[d["wal"]].frames[2].txs \cap acked : Durable(t, d["wal.old"])

PlatterInv    == \A n \in Inodes : OnPlatter(n)
GenerationInv == \A i \in 1..Len(dirs) : Generation(dirs[i])
HandedInv     == \A p \in Procs : InFlight(p) /\ LiveLogged(p) /\ Linked(p)

GenInv == Written /\ PlatterInv /\ HandedInv /\ GenerationInv

\* The others' share of the invariant is the part that holds of whoever is closed.
LEMMA HandedOnly ==
  ASSUME LogInv, NEW p \in Procs, StepOf(p), (InFlight(p) /\ LiveLogged(p) /\ Linked(p))'
  PROVE  HandedInv'
<1>1. ASSUME NEW q \in Procs, q # p PROVE (InFlight(q) /\ LiveLogged(q) /\ Linked(q))'
  <2>1. pc'[q] = "closed"
    BY <1>1, StepAlone
  <2>2. QED
    BY <2>1 DEF InFlight, LiveLogged, Linked, Replayed
<1>2. QED
  BY <1>1 DEF HandedInv

\* What was written stays written, and on the platter, when files only shrink.
LEMMA WrittenKept ==
  ASSUME FilesOK, FilesOK', Written, PlatterInv, \A n \in Inodes : Shrinks(n), issued' = issued,
         acked' = acked, \A p \in Procs : live'[p] \subseteq 1..issued
  PROVE  Written' /\ PlatterInv'
<1>1. ASSUME NEW n \in Inodes, NEW i \in 1..Len(file'[n].frames)
      PROVE  /\ file'[n].frames[i].txs \subseteq 1..issued
             /\ file'[n].frames[i].txs \cap acked # {} => i <= file'[n].synced
  <2>1. Len(file'[n].frames) \in Nat /\ Len(file[n].frames) \in Nat /\ Len(file'[n].frames) <= Len(file[n].frames)
    BY FileType DEF Shrinks
  <2>2. Len(file'[n].frames) \in Nat
    <3>1. file'[n].frames \in Seq(Frames)
      BY DEF FilesOK
    <3>2. QED
      BY <3>1, LenProperties
  <2>3. i \in 1..Len(file[n].frames)
    BY <2>1, <2>2
  <2>4. /\ file'[n].frames[i].txs = file[n].frames[i].txs
        /\ i <= file[n].synced => i <= file'[n].synced
    BY DEF Shrinks
  <2>5. QED
    BY <2>3, <2>4 DEF Written, PlatterInv, OnPlatter
<1>2. Written'
  BY <1>1 DEF Written
<1>3. PlatterInv'
  BY <1>1 DEF PlatterInv, OnPlatter
<1>4. QED
  BY <1>2, <1>3

\* A version of the directory stays a generation when what is on the platter of
\* its files stays there, and what gets acknowledged was not there.
LEMMA GenerationKept ==
  ASSUME FilesOK, FilesOK', NEW d \in [Names -> Inodes \cup {NoFile}], Generation(d),
         d["wal"] # NoFile => Keeps(d["wal"]), d["wal.old"] # NoFile => Keeps(d["wal.old"]),
         unsynced => unsynced',
         \A t \in acked' \ acked : \A n \in Inodes : \A i \in 1..file[n].synced : t \notin file[n].frames[i].txs
  PROVE  Generation(d)'
<1>1. PICK a \in Inodes \cup {NoFile}, b \in Inodes \cup {NoFile} : a = d["wal"] /\ b = d["wal.old"]
  BY DEF Names
<1>2. CASE b = NoFile \/ unsynced'
  BY <1>1, <1>2 DEF Generation
<1>3. CASE b # NoFile /\ ~unsynced' /\ a = b
  BY <1>1, <1>3 DEF Generation
<1>4. CASE b # NoFile /\ ~unsynced' /\ a # b
  <2>1. /\ a \in Inodes /\ b \in Inodes /\ Keeps(a) /\ Keeps(b)
        /\ 2 <= file[a].synced /\ file[a].frames[1].ok /\ file[a].frames[2].ok
        /\ \A t \in file[a].frames[2].txs \cap acked : Durable(t, b)
    BY <1>1, <1>4 DEF Generation
  <2>2. 2 \in 1..file[a].synced /\ \A j \in 1..2 : file[a].frames[j].ok
    BY <2>1, FileType
  <2>3. 2 <= file'[a].synced /\ \A j \in 1..2 : file'[a].frames[j] = file[a].frames[j]
    BY <2>1, <2>2 DEF Keeps
  <2>4. ASSUME NEW t \in file'[a].frames[2].txs \cap acked' PROVE Durable(t, b)'
    <3>1. t \in file[a].frames[2].txs
      BY <2>3
    <3>2. t \in acked
      BY <2>1, <2>2, <3>1
    <3>3. Durable(t, b)
      BY <2>1, <3>1, <3>2
    <3>4. QED
      BY <2>1, <3>3, KeepsDurable
  <2>5. file'[a].frames[1].ok /\ file'[a].frames[2].ok
    BY <2>2, <2>3
  <2>6. QED
    BY <1>1, <2>1, <2>3, <2>4, <2>5 DEF Generation, Durable
<1>5. QED
  BY <1>2, <1>3, <1>4

\* The versions of the directory, one of which may be new.
LEMMA GenerationsKept ==
  ASSUME FilesOK, FilesOK', GenerationInv, \A n \in Inodes : Keeps(n), unsynced => unsynced',
         \A t \in acked' \ acked : \A n \in Inodes : \A i \in 1..file[n].synced : t \notin file[n].frames[i].txs,
         NEW d, Generation(d)',
         \A i \in 1..Len(dirs') : dirs'[i] = d \/ \E j \in 1..Len(dirs) : dirs'[i] = dirs[j]
  PROVE  GenerationInv'
<1>1. ASSUME NEW i \in 1..Len(dirs'), NEW j \in 1..Len(dirs), dirs'[i] = dirs[j] PROVE Generation(dirs[i])'
  <2>1. PICK e \in [Names -> Inodes \cup {NoFile}] : e = dirs[j]
    BY ElementOfSeq DEF FilesOK
  <2>2. Generation(e) /\ (e["wal"] # NoFile => Keeps(e["wal"])) /\ (e["wal.old"] # NoFile => Keeps(e["wal.old"]))
    BY <2>1 DEF GenerationInv, Names
  <2>3. Generation(e)'
    BY <2>2, GenerationKept
  <2>4. QED
    BY <1>1, <2>1, <2>3 DEF Generation, Durable
<1>2. ASSUME NEW i \in 1..Len(dirs'), dirs'[i] = d PROVE Generation(dirs[i])'
  BY <1>2 DEF Generation, Durable
<1>3. QED
  BY <1>1, <1>2 DEF GenerationInv

\* The same when none is.
LEMMA NoNewGeneration ==
  ASSUME FilesOK, FilesOK', TypeOK, GenerationInv, \A n \in Inodes : Keeps(n), unsynced => unsynced',
         \A t \in acked' \ acked : \A n \in Inodes : \A i \in 1..file[n].synced : t \notin file[n].frames[i].txs,
         \A i \in 1..Len(dirs') : \E j \in 1..Len(dirs) : dirs'[i] = dirs[j]
  PROVE  GenerationInv'
<1>1. PICK d \in [Names -> Inodes \cup {NoFile}] : d = dir
  BY DirType
<1>2. Generation(d) /\ (d["wal"] # NoFile => Keeps(d["wal"])) /\ (d["wal.old"] # NoFile => Keeps(d["wal.old"]))
  BY <1>1, DirType DEF GenerationInv, Names, dir
<1>3. Generation(d)'
  BY <1>2, GenerationKept
<1>4. QED
  BY <1>3, GenerationsKept

\* What is live and acknowledged stays in a log that keeps what is on the platter.
LEMMA LiveKept ==
  ASSUME FilesOK, FilesOK', TypeOK, NEW p \in Procs, LiveLogged(p), pc[p] \in Replayed, live'[p] = live[p],
         acked' = acked, dir'["wal"] = dir["wal"], \A n \in Inodes : Keeps(n), unsynced => unsynced'
  PROVE  LiveLogged(p)'
<1>1. SUFFICES ASSUME ~unsynced', NEW t \in live[p] \cap acked PROVE Durable(t, dir["wal"])'
  BY DEF LiveLogged
<1>2. PICK n \in Inodes \cup {NoFile} : n = dir["wal"]
  BY DirType DEF Names
<1>3. Durable(t, n)
  BY <1>1, <1>2 DEF LiveLogged
<1>4. Durable(t, n)'
  BY <1>3, KeepsDurable DEF NoFile
<1>5. QED
  BY <1>2, <1>4 DEF Durable

\* The steps that leave the disk and the clients alone.
LEMMA GenUntouching ==
  ASSUME WalInv, WalInv', GenInv, NEW p \in Procs,
         \/ LockDir(p) \/ WriteHeaderFails(p) \/ WriteSyncFails(p) \/ CheckpointSyncDirFails(p)
         \/ CheckpointReopen(p) \/ CheckpointReopenFails(p) \/ Unlock(p) \/ CollectLock(p)
  PROVE  GenInv'
<1>1. FilesOK /\ FilesOK' /\ LogInv /\ ProcOK /\ TypeOK /\ StepOf(p)
  BY TypeOfParts DEF WalInv, LogInv, StepOf
<1>2. UNCHANGED <<file, dirs, issued, acked, live>> /\ (unsynced => unsynced') /\ dir' = dir
  BY DEF LockDir, WriteHeaderFails, WriteSyncFails, CheckpointSyncDirFails, CheckpointReopen,
     CheckpointReopenFails, Unlock, CollectLock, fsVars, procVars, dir
<1>3. Written /\ PlatterInv /\ GenerationInv /\ LiveLogged(p)
  BY DEF GenInv, HandedInv
<1>4. \A n \in Inodes : Shrinks(n) /\ Keeps(n)
  BY <1>1, <1>2, SameShrinks
<1>5. Written' /\ PlatterInv'
  BY <1>1, <1>2, <1>3, <1>4, WrittenKept DEF Written
<1>6. GenerationInv'
  BY <1>1, <1>2, <1>3, <1>4, NoNewGeneration
<1>7. pc'[p] \notin {"flush", "rename"} /\ (pc'[p] \in Replayed => pc[p] \in Replayed)
  BY <1>1 DEF LockDir, WriteHeaderFails, WriteSyncFails, CheckpointSyncDirFails, CheckpointReopen,
     CheckpointReopenFails, Unlock, CollectLock, fsVars, procVars, step, ProcOK, Replayed, WalInv, LockInv, LogInv
<1>8. (InFlight(p) /\ LiveLogged(p) /\ Linked(p))'
  <2>1. CASE pc[p] \in Replayed
    BY <1>1, <1>2, <1>3, <1>4, <1>7, <2>1, LiveKept DEF InFlight, Linked
  <2>2. CASE pc'[p] \notin Replayed
    BY <1>7, <2>2 DEF InFlight, LiveLogged, Linked
  <2>3. QED
    BY <1>7, <2>1, <2>2
<1>9. QED
  BY <1>1, <1>5, <1>6, <1>8, HandedOnly DEF GenInv

\* A version of the directory that differs from the last one in no name that
\* matters, or has no generation but the log.
LEMMA SameGeneration ==
  ASSUME FilesOK, FilesOK', TypeOK, GenerationInv, \A n \in Inodes : Keeps(n), unsynced => unsynced', acked' = acked, NEW d,
         \/ d["wal.old"] = NoFile
         \/ d["wal.old"] = d["wal"]
         \/ d["wal.old"] = dir["wal.old"] /\ d["wal"] = dir["wal"]
  PROVE  Generation(d)'
<1>1. CASE d["wal.old"] = NoFile \/ d["wal.old"] = d["wal"]
  BY <1>1 DEF Generation
<1>2. CASE d["wal.old"] = dir["wal.old"] /\ d["wal"] = dir["wal"]
  <2>1. PICK e \in [Names -> Inodes \cup {NoFile}] : e = dir
    BY DirType
  <2>2. Generation(e) /\ (e["wal"] # NoFile => Keeps(e["wal"])) /\ (e["wal.old"] # NoFile => Keeps(e["wal.old"]))
    BY <2>1, DirType DEF GenerationInv, Names, dir
  <2>3. Generation(e)'
    BY <2>2, GenerationKept
  <2>4. QED
    BY <1>2, <2>1, <2>3 DEF Generation, Durable
<1>3. QED
  BY <1>1, <1>2

\* The steps of a checkpoint on the directory, before the rename.
LEMMA GenDirectory ==
  ASSUME WalInv, WalInv', GenInv, NEW p \in Procs,
         \/ CheckpointUnlink(p) \/ CheckpointLink(p) \/ CheckpointAbandon(p) \/ CheckpointRenameFails(p)
  PROVE  GenInv'
<1>1. FilesOK /\ FilesOK' /\ LogInv /\ ProcOK /\ TypeOK /\ InodesInv /\ StepOf(p)
  BY TypeOfParts DEF WalInv, LogInv, StepOf
<1>2. UNCHANGED <<file, inodes, fd, issued, acked, live, unsynced>>
  BY DEF CheckpointUnlink, CheckpointLink, CheckpointAbandon, CheckpointRenameFails
<1>3. Written /\ PlatterInv /\ GenerationInv /\ LiveLogged(p)
  BY DEF GenInv, HandedInv
<1>4. \A n \in Inodes : Shrinks(n) /\ Keeps(n)
  BY <1>1, <1>2, SameShrinks
<1>5. Written' /\ PlatterInv'
  BY <1>1, <1>2, <1>3, <1>4, WrittenKept DEF Written
<1>6. /\ dir \in [Names -> Inodes \cup {NoFile}] /\ inodes \in Nat /\ NoFile <= inodes
      /\ \A n \in Names : dir[n] \in Inodes \cup {NoFile} /\ dir[n] <= inodes
  BY <1>1, DirKnown
<1>7. PICK n \in Names, v \in Inodes \cup {NoFile} :
        /\ v <= inodes /\ n # "wal" /\ dirOp([dir EXCEPT ![n] = v])
        /\ \/ n = "wal.old" /\ v \in {NoFile, dir["wal"]}
           \/ n = "wal.tmp"
        /\ CheckpointLink(p) => n = "wal.old" /\ v = dir["wal"]
  <2>1. CASE CheckpointUnlink(p)
    <3>1. dirOp([dir EXCEPT !["wal.old"] = NoFile]) /\ ~CheckpointLink(p)
      BY <1>1, <2>1 DEF CheckpointUnlink, CheckpointLink, step, ProcOK
    <3>2. QED
      BY <1>6, <3>1 DEF Names
  <2>2. CASE CheckpointLink(p)
    BY <1>6, <2>2 DEF CheckpointLink, Names
  <2>3. CASE CheckpointAbandon(p) \/ CheckpointRenameFails(p)
    <3>1. dirOp([dir EXCEPT !["wal.tmp"] = NoFile]) /\ ~CheckpointLink(p)
      BY <1>1, <2>3 DEF CheckpointAbandon, CheckpointRenameFails, CheckpointLink, step, ProcOK
    <3>2. QED
      BY <1>6, <3>1 DEF Names
  <2>4. QED
    BY <2>1, <2>2, <2>3
<1>8. PICK d \in [Names -> Inodes \cup {NoFile}] :
        /\ dirOp(d) /\ d["wal"] = dir["wal"]
        /\ \A k \in Names : d[k] <= inodes
        /\ d["wal.old"] \in {NoFile, d["wal"], dir["wal.old"]}
        /\ CheckpointLink(p) => d["wal.old"] = dir["wal"]
  <2> DEFINE d == [dir EXCEPT ![n] = v]
  <2>1. /\ d \in [Names -> Inodes \cup {NoFile}] /\ d["wal"] = dir["wal"]
        /\ \A k \in Names : d[k] <= inodes
        /\ d["wal.old"] \in {NoFile, d["wal"], dir["wal.old"]}
        /\ CheckpointLink(p) => d["wal.old"] = dir["wal"]
    BY <1>6, <1>7 DEF Names
  <2>2. dirOp(d)
    BY <1>7
  <2> HIDE DEF d
  <2>3. QED
    BY <2>1, <2>2
<1>9. dir' = d /\ \A i \in 1..Len(dirs') : dirs'[i] = d \/ \E j \in 1..Len(dirs) : dirs'[i] = dirs[j]
  BY <1>1, <1>2, <1>6, <1>8, NewDir
<1>10. Generation(d)'
  BY <1>1, <1>2, <1>3, <1>4, <1>8, SameGeneration
<1>11. GenerationInv'
  BY <1>1, <1>2, <1>3, <1>4, <1>9, <1>10, GenerationsKept
<1>12. pc[p] \in Replayed /\ pc'[p] # "flush" /\ (pc'[p] = "rename" => CheckpointLink(p))
  BY <1>1 DEF CheckpointUnlink, CheckpointLink, CheckpointAbandon, CheckpointRenameFails, step, ProcOK, Replayed
<1>13. LiveLogged(p)'
  BY <1>1, <1>2, <1>3, <1>4, <1>8, <1>9, <1>12, LiveKept
<1>14. InFlight(p)' /\ Linked(p)'
  BY <1>8, <1>9, <1>12 DEF InFlight, Linked
<1>15. QED
  BY <1>1, <1>5, <1>11, <1>13, <1>14, HandedOnly DEF GenInv

\* The rename: what the checkpoint describes and was acknowledged is in the log
\* that wal.old names.
LEMMA GenRename ==
  ASSUME WalInv, WalInv', GenInv, NEW p \in Procs, CheckpointRename(p)
  PROVE  GenInv'
<1>1. FilesOK /\ FilesOK' /\ LogInv /\ ProcOK /\ TypeOK /\ InodesInv /\ StepOf(p)
  BY TypeOfParts DEF WalInv, LogInv, StepOf
<1>2. /\ UNCHANGED <<file, inodes, fd, issued, acked, live, unsynced>> /\ pc[p] = "rename" /\ pc'[p] = "dirsync"
      /\ dirOp([dir EXCEPT !["wal"] = dir["wal.tmp"], !["wal.tmp"] = NoFile])
  BY <1>1 DEF CheckpointRename, step, ProcOK
<1>3. Written /\ PlatterInv /\ GenerationInv /\ LiveLogged(p) /\ Linked(p) /\ Described(p)
  BY DEF GenInv, HandedInv, WalInv, HolderInv
<1>4. \A n \in Inodes : Shrinks(n) /\ Keeps(n)
  BY <1>1, <1>2, SameShrinks
<1>5. Written' /\ PlatterInv'
  BY <1>1, <1>2, <1>3, <1>4, WrittenKept DEF Written
<1>6. /\ dir \in [Names -> Inodes \cup {NoFile}] /\ inodes \in Nat /\ NoFile <= inodes
      /\ \A n \in Names : dir[n] \in Inodes \cup {NoFile} /\ dir[n] <= inodes
  BY <1>1, DirKnown
<1>7. PICK n \in Inodes \cup {NoFile}, old \in Inodes \cup {NoFile} : n = dir["wal.tmp"] /\ old = dir["wal"]
  BY <1>6 DEF Names
<1>8. PICK d \in [Names -> Inodes \cup {NoFile}] :
        dirOp(d) /\ d["wal"] = n /\ d["wal.old"] = old /\ \A k \in Names : d[k] <= inodes
  <2> DEFINE d == [dir EXCEPT !["wal"] = dir["wal.tmp"], !["wal.tmp"] = NoFile]
  <2>1. /\ d \in [Names -> Inodes \cup {NoFile}] /\ d["wal"] = n /\ d["wal.old"] = old
        /\ \A k \in Names : d[k] <= inodes
    BY <1>2, <1>3, <1>6, <1>7 DEF Names, Linked
  <2>2. dirOp(d)
    BY <1>2
  <2> HIDE DEF d
  <2>3. QED
    BY <2>1, <2>2
<1>9. dir' = d /\ \A i \in 1..Len(dirs') : dirs'[i] = d \/ \E j \in 1..Len(dirs) : dirs'[i] = dirs[j]
  BY <1>1, <1>2, <1>6, <1>8, NewDir
<1>10. /\ n # NoFile /\ file[n].synced = 2 /\ file[n].frames[1].ok /\ file[n].frames[2].ok
       /\ file[n].frames[2].txs = live[p]
  BY <1>2, <1>3, <1>7 DEF Described, Describes, Header, Frame
<1>11. Generation(d)'
  <2>1. ASSUME ~unsynced, NEW t \in live[p] \cap acked PROVE Durable(t, old)
    BY <1>2, <1>3, <1>7, <2>1 DEF LiveLogged, Replayed
  <2>2. QED
    BY <1>2, <1>8, <1>10, <2>1 DEF Generation, Durable
<1>12. GenerationInv'
  BY <1>1, <1>2, <1>3, <1>4, <1>9, <1>11, GenerationsKept
<1>13. LiveLogged(p)'
  <2>1. 2 \in 1..file[n].synced /\ \A j \in 1..2 : file[n].frames[j].ok
    BY <1>10
  <2>2. \A t \in live[p] : Durable(t, n)
    BY <1>10, <2>1 DEF Durable
  <2>3. QED
    BY <1>2, <1>8, <1>9, <2>2 DEF LiveLogged, Durable
<1>14. InFlight(p)' /\ Linked(p)'
  BY <1>2 DEF InFlight, Linked
<1>15. QED
  BY <1>1, <1>5, <1>12, <1>13, <1>14, HandedOnly DEF GenInv

\* Flushing the directory leaves the version in use.
LEMMA GenSyncDir ==
  ASSUME WalInv, WalInv', GenInv, NEW p \in Procs, CheckpointSyncDir(p)
  PROVE  GenInv'
<1>1. FilesOK /\ FilesOK' /\ LogInv /\ ProcOK /\ TypeOK /\ StepOf(p)
  BY TypeOfParts DEF WalInv, LogInv, StepOf
<1>2. /\ UNCHANGED <<file, inodes, fd, issued, acked, live, unsynced>> /\ pc[p] = "dirsync" /\ pc'[p] = "reopen"
      /\ dirs' = <<dir>>
  BY <1>1 DEF CheckpointSyncDir, step, ProcOK
<1>3. Written /\ PlatterInv /\ GenerationInv /\ LiveLogged(p)
  BY DEF GenInv, HandedInv
<1>4. \A n \in Inodes : Shrinks(n) /\ Keeps(n)
  BY <1>1, <1>2, SameShrinks
<1>5. Written' /\ PlatterInv'
  BY <1>1, <1>2, <1>3, <1>4, WrittenKept DEF Written
<1>6. dir' = dir /\ \A i \in 1..Len(dirs') : \E j \in 1..Len(dirs) : dirs'[i] = dirs[j]
  <2>1. \A i \in 1..Len(dirs') : dirs'[i] = dirs[Len(dirs)]
    BY <1>2 DEF dir
  <2>2. dir' = dir
    BY <1>2 DEF dir
  <2>3. QED
    BY <1>1, <2>1, <2>2, DirType
<1>7. GenerationInv'
  BY <1>1, <1>2, <1>3, <1>4, <1>6, NoNewGeneration
<1>8. LiveLogged(p)'
  BY <1>1, <1>2, <1>3, <1>4, <1>6, LiveKept DEF Replayed
<1>9. InFlight(p)' /\ Linked(p)'
  BY <1>2 DEF InFlight, Linked
<1>10. QED
  BY <1>1, <1>5, <1>7, <1>8, <1>9, HandedOnly DEF GenInv

\* Opening the log creates it only beside no previous generation.
LEMMA GenOpenFile ==
  ASSUME WalInv, WalInv', GenInv, NEW p \in Procs, OpenFile(p)
  PROVE  GenInv'
<1>1. FilesOK /\ FilesOK' /\ LogInv /\ ProcOK /\ TypeOK /\ InodesInv /\ StepOf(p)
  BY TypeOfParts DEF WalInv, LogInv, StepOf
<1>2. UNCHANGED <<file, issued, acked, live, unsynced>> /\ pc'[p] \in {"header", "replay"}
  BY <1>1 DEF OpenFile, step, ProcOK
<1>3. Written /\ PlatterInv /\ GenerationInv
  BY DEF GenInv
<1>4. \A n \in Inodes : Shrinks(n) /\ Keeps(n)
  BY <1>1, <1>2, SameShrinks
<1>5. Written' /\ PlatterInv'
  BY <1>1, <1>2, <1>3, <1>4, WrittenKept DEF Written
<1>6. (InFlight(p) /\ LiveLogged(p) /\ Linked(p))'
  BY <1>2 DEF InFlight, LiveLogged, Linked, Replayed
<1>7. CASE dir["wal"] = NoFile
  <2> DEFINE m == inodes + 1
  <2>1. /\ dir \in [Names -> Inodes \cup {NoFile}] /\ Len(dirs) \in 1..Len(dirs) /\ Len(dirs) \in Nat
        /\ inodes \in Nat /\ MaxCheckpoints \in Nat
    BY <1>1, DirKnown, DirType, InodeCount
  <2>2. inodes < MaxCheckpoints + 1 /\ dirOp([dir EXCEPT !["wal"] = m])
    BY <1>7, InodeCount DEF OpenFile
  <2>3. m \in Inodes
    BY <2>1, <2>2 DEF Inodes
  <2> HIDE DEF m
  <2>4. PICK d \in [Names -> Inodes \cup {NoFile}] : dirOp(d) /\ d["wal.old"] = dir["wal.old"]
    <3> DEFINE d == [dir EXCEPT !["wal"] = m]
    <3>1. d \in [Names -> Inodes \cup {NoFile}] /\ d["wal.old"] = dir["wal.old"]
      BY <2>1, <2>3 DEF Names
    <3>2. dirOp(d)
      BY <2>2
    <3> HIDE DEF d
    <3>3. QED
      BY <3>1, <3>2
  <2>5. dir["wal.old"] = NoFile
    BY <1>3, <1>7, <2>1 DEF GenerationInv, Generation, dir
  <2>6. Generation(d)'
    BY <2>4, <2>5 DEF Generation
  <2>7. \A i \in 1..Len(dirs') : dirs'[i] = d \/ \E j \in 1..Len(dirs) : dirs'[i] = dirs[j]
    <3>1. /\ Len(dirs') = Len(dirs) + 1 /\ \A i \in 1..Len(dirs) : dirs'[i] = dirs[i]
          /\ dirs'[Len(dirs) + 1] = d
      BY <1>1, <2>4, DirOpType DEF dir
    <3>2. \A i \in 1..Len(dirs') : i = Len(dirs) + 1 \/ i \in 1..Len(dirs)
      BY <2>1, <3>1
    <3>3. QED
      BY <3>1, <3>2
  <2>8. GenerationInv'
    BY <1>1, <1>2, <1>3, <1>4, <2>6, <2>7, GenerationsKept
  <2>9. QED
    BY <1>1, <1>5, <1>6, <2>8, HandedOnly DEF GenInv
<1>8. CASE dir["wal"] # NoFile
  <2>1. dirs' = dirs
    BY <1>8 DEF OpenFile
  <2>2. GenerationInv'
    BY <1>1, <1>2, <1>3, <1>4, <2>1, NoNewGeneration
  <2>3. QED
    BY <1>1, <1>5, <1>6, <2>2, HandedOnly DEF GenInv
<1>9. QED
  BY <1>7, <1>8

\* A checkpoint is written to an inode that no version of the directory names.
LEMMA GenCheckpointWrite ==
  ASSUME WalInv, WalInv', GenInv, NEW p \in Procs, CheckpointWrite(p)
  PROVE  GenInv'
<1>1. FilesOK /\ FilesOK' /\ LogInv /\ ProcOK /\ TypeOK /\ InodesInv /\ StepOf(p)
  BY TypeOfParts DEF WalInv, LogInv, StepOf
<1> DEFINE new == [frames |-> <<Header, Frame(live[p])>>, synced |-> 2]
           m == inodes + 1
<1>2. /\ UNCHANGED <<fd, live, issued, acked, unsynced>> /\ pc[p] = "idle" /\ pc'[p] = "unlink"
      /\ inodes < MaxCheckpoints + 1 /\ dirOp([dir EXCEPT !["wal.tmp"] = m])
      /\ file' = [file EXCEPT ![m] = new]
  BY <1>1, InodeCount DEF CheckpointWrite, step, ProcOK
<1>3. /\ dir \in [Names -> Inodes \cup {NoFile}] /\ inodes \in Nat /\ MaxCheckpoints \in Nat
      /\ Len(dirs) \in 1..Len(dirs) /\ Len(dirs) \in Nat
      /\ \A n \in Names : dir[n] \in Inodes \cup {NoFile} /\ dir[n] <= inodes
  BY <1>1, DirKnown, InodeCount, DirType
<1>4. m \in Inodes /\ \A n \in Int : n <= inodes => n # m
  BY <1>2, <1>3 DEF Inodes
<1>5. file'[m] = new /\ \A n \in Inodes : n # m => file'[n] = file[n]
  BY <1>1, <1>2, <1>4 DEF FilesOK
<1>6. Written /\ PlatterInv /\ GenerationInv /\ LiveLogged(p)
  BY DEF GenInv, HandedInv
<1> HIDE DEF m
<1>7. \A n \in Inodes : n # m => Keeps(n)
  BY <1>1, <1>5, FileType DEF Keeps
<1>8. Written' /\ PlatterInv'
  <2>1. new.synced = 2 /\ Len(new.frames) = 2 /\ \A i \in 1..2 : new.frames[i].txs \subseteq 1..issued
    BY <1>6 DEF Written, Header, Frame
  <2> HIDE DEF new
  <2>2. ASSUME NEW n \in Inodes, NEW i \in 1..Len(file'[n].frames)
        PROVE  /\ file'[n].frames[i].txs \subseteq 1..issued
               /\ file'[n].frames[i].txs \cap acked # {} => i <= file'[n].synced
    <3>1. CASE n = m
      BY <1>5, <2>1, <3>1
    <3>2. CASE n # m
      BY <1>5, <1>6, <3>2 DEF Written, PlatterInv, OnPlatter
    <3>3. QED
      BY <3>1, <3>2
  <2>3. Written'
    BY <1>2, <1>6, <2>2 DEF Written
  <2>4. PlatterInv'
    BY <1>2, <2>2 DEF PlatterInv, OnPlatter
  <2>5. QED
    BY <2>3, <2>4
<1>9. PICK d \in [Names -> Inodes \cup {NoFile}] :
        dirOp(d) /\ d["wal.old"] = dir["wal.old"] /\ d["wal"] = dir["wal"]
  <2> DEFINE d == [dir EXCEPT !["wal.tmp"] = m]
  <2>1. d \in [Names -> Inodes \cup {NoFile}] /\ d["wal.old"] = dir["wal.old"] /\ d["wal"] = dir["wal"]
    BY <1>3, <1>4 DEF Names
  <2>2. dirOp(d)
    BY <1>2
  <2> HIDE DEF d
  <2>3. QED
    BY <2>1, <2>2
<1>10. /\ Len(dirs') = Len(dirs) + 1 /\ dirs'[Len(dirs) + 1] = d /\ dir' = d
       /\ \A i \in 1..Len(dirs) : dirs'[i] = dirs[i]
  BY <1>1, <1>9, DirOpType DEF dir
<1>11. ASSUME NEW i \in 1..Len(dirs')
       PROVE  \E j \in 1..Len(dirs) : dirs'[i]["wal.old"] = dirs[j]["wal.old"] /\ dirs'[i]["wal"] = dirs[j]["wal"]
  <2>1. CASE i = Len(dirs) + 1
    BY <1>3, <1>9, <1>10, <2>1 DEF dir
  <2>2. CASE i \in 1..Len(dirs)
    BY <1>10, <2>2
  <2>3. QED
    BY <1>3, <1>10, <2>1, <2>2
<1>12. GenerationInv'
  <2>1. ASSUME NEW i \in 1..Len(dirs') PROVE Generation(dirs[i])'
    <3>1. PICK j \in 1..Len(dirs) : dirs'[i]["wal.old"] = dirs[j]["wal.old"] /\ dirs'[i]["wal"] = dirs[j]["wal"]
      BY <1>11
    <3>2. PICK e \in [Names -> Inodes \cup {NoFile}] : e = dirs[j]
      BY <1>1, ElementOfSeq DEF FilesOK
    <3>3. \A n \in Names : e[n] \in Inodes \cup {NoFile} /\ e[n] <= inodes
      BY <1>1, <3>2 DEF InodesInv
    <3>4. \A n \in Names : e[n] # NoFile => Keeps(e[n])
      BY <1>4, <1>7, <3>3 DEF Inodes
    <3>5. Generation(e)'
      BY <1>1, <1>2, <1>6, <3>2, <3>4, GenerationKept DEF GenerationInv, Names
    <3>6. QED
      BY <3>1, <3>2, <3>5 DEF Generation, Durable
  <2>2. QED
    BY <2>1 DEF GenerationInv
<1>13. LiveLogged(p)'
  <2>1. SUFFICES ASSUME ~unsynced, NEW t \in live[p] \cap acked PROVE Durable(t, dir["wal"])'
    BY <1>2 DEF LiveLogged
  <2>2. PICK n \in Inodes \cup {NoFile} : n = dir["wal"]
    BY <1>3 DEF Names
  <2>3. Durable(t, n)
    BY <1>2, <1>6, <2>1, <2>2 DEF LiveLogged, Replayed
  <2>4. n \in Inodes /\ n # m
    BY <1>3, <1>4, <2>2, <2>3 DEF Durable, Names, Inodes
  <2>5. Durable(t, n)'
    BY <1>1, <1>7, <2>3, <2>4, KeepsDurable
  <2>6. QED
    BY <1>9, <1>10, <2>2, <2>5 DEF Durable
<1>14. InFlight(p)' /\ Linked(p)'
  BY <1>2 DEF InFlight, Linked
<1>15. QED
  BY <1>1, <1>8, <1>12, <1>13, <1>14, HandedOnly DEF GenInv

\* An append of a frame with nothing acknowledged in it.
LEMMA GenAppend ==
  ASSUME FilesOK, FilesOK', TypeOK, GenInv, NEW n \in Inodes, NEW fr \in Frames, append(n, fr),
         fr.txs \subseteq 1..issued', fr.txs \cap acked = {}, issued \in Nat, issued' \in Nat, issued <= issued',
         UNCHANGED <<dirs, acked, unsynced, live>>
  PROVE  Written' /\ PlatterInv' /\ GenerationInv' /\ \A m \in Inodes : Keeps(m)
<1>1. /\ \A m \in Inodes : m # n => file'[m] = file[m]
      /\ file'[n].synced = file[n].synced
      /\ Len(file'[n].frames) = Len(file[n].frames) + 1
      /\ \A i \in 1..Len(file[n].frames) : file'[n].frames[i] = file[n].frames[i]
      /\ file'[n].frames[Len(file[n].frames) + 1] = fr
  BY AppendType
<1>2. Written /\ PlatterInv /\ GenerationInv
  BY DEF GenInv
<1>3. \A m \in Inodes : Keeps(m)
  <2>1. ASSUME NEW m \in Inodes PROVE Keeps(m)
    <3>1. CASE m = n
      <4>1. \A i \in 1..file[n].synced : \A j \in 1..i : j \in 1..Len(file[n].frames)
        BY FileType
      <4>2. QED
        BY <1>1, <3>1, <4>1, FileType DEF Keeps
    <3>2. CASE m # n
      BY <1>1, <3>2, FileType DEF Keeps
    <3>3. QED
      BY <3>1, <3>2
  <2>2. QED
    BY <2>1
<1>4. 1..issued \subseteq 1..issued'
  OBVIOUS
<1>5. ASSUME NEW m \in Inodes, NEW i \in 1..Len(file'[m].frames)
      PROVE  /\ file'[m].frames[i].txs \subseteq 1..issued'
             /\ file'[m].frames[i].txs \cap acked # {} => i <= file'[m].synced
  <2>1. CASE m # n
    BY <1>1, <1>2, <1>4, <2>1 DEF Written, PlatterInv, OnPlatter
  <2>2. CASE m = n /\ i \in 1..Len(file[n].frames)
    BY <1>1, <1>2, <1>4, <2>2 DEF Written, PlatterInv, OnPlatter
  <2>3. CASE m = n /\ i = Len(file[n].frames) + 1
    BY <1>1, <2>3
  <2>4. QED
    BY <1>1, <2>1, <2>2, <2>3, FileType
<1>6. Written' /\ PlatterInv'
  BY <1>2, <1>4, <1>5 DEF Written, PlatterInv, OnPlatter
<1>7. GenerationInv'
  BY <1>2, <1>3, NoNewGeneration
<1>8. QED
  BY <1>3, <1>6, <1>7

\* Appending a header, a transaction or a torn frame.
LEMMA GenAppendStep ==
  ASSUME WalInv, WalInv', GenInv, NEW p \in Procs, WriteHeader(p) \/ WriteAppend(p) \/ WriteAppendFails(p)
  PROVE  GenInv'
<1>1. FilesOK /\ FilesOK' /\ LogInv /\ ProcOK /\ HandleInv /\ TypeOK /\ StepOf(p)
  BY TypeOfParts DEF WalInv, LogInv, StepOf
<1>2. UNCHANGED <<dirs, acked, unsynced, live>> /\ dir' = dir
  BY DEF WriteHeader, WriteAppend, WriteAppendFails, dir
<1>3. fd[p] \in Inodes
  BY <1>1 DEF WriteHeader, WriteAppend, WriteAppendFails, step, ProcOK, HandleInv
<1>4. Written /\ LiveLogged(p) /\ issued \in Nat /\ MaxWrites \in Nat
  BY <1>1, WalAssumption DEF GenInv, HandedInv, ProcOK
<1>5. CASE WriteHeader(p)
  <2>1. append(fd[p], Header) /\ issued' = issued /\ pc'[p] = "replay"
    BY <1>1, <1>5 DEF WriteHeader, step, ProcOK
  <2>2. Header \in Frames /\ Header.txs = {}
    BY DEF Header, Frame, Frames
  <2>3. Written' /\ PlatterInv' /\ GenerationInv'
    BY <1>1, <1>2, <1>3, <1>4, <2>1, <2>2, GenAppend
  <2>4. (InFlight(p) /\ LiveLogged(p) /\ Linked(p))'
    BY <2>1 DEF InFlight, LiveLogged, Linked, Replayed
  <2>5. QED
    BY <1>1, <2>3, <2>4, HandedOnly DEF GenInv
<1>6. CASE WriteAppend(p) \/ WriteAppendFails(p)
  <2>1. /\ issued < MaxWrites /\ issued' = issued + 1 /\ pc[p] = "idle" /\ pc'[p] \in {"idle", "flush"}
        /\ pc'[p] = "flush" => fd' = fd
        /\ \/ append(fd[p], Frame({issued + 1}))
           \/ append(fd[p], [Frame({issued + 1}) EXCEPT !.ok = FALSE])
    BY <1>1, <1>6 DEF WriteAppend, WriteAppendFails, step, ProcOK
  <2>2. PICK fr \in Frames : append(fd[p], fr) /\ fr.txs = {issued + 1}
    <3>1. {issued + 1} \in SUBSET Txs
      BY <1>4, <2>1 DEF Txs
    <3> HIDE DEF Txs
    <3>2. /\ Frame({issued + 1}) \in Frames /\ Frame({issued + 1}).txs = {issued + 1}
          /\ [Frame({issued + 1}) EXCEPT !.ok = FALSE] \in Frames
          /\ [Frame({issued + 1}) EXCEPT !.ok = FALSE].txs = {issued + 1}
      BY <3>1 DEF Frame, Frames
    <3>3. QED
      BY <2>1, <3>2
  <2>3. fr.txs \subseteq 1..issued' /\ fr.txs \cap acked = {} /\ issued' \in Nat /\ issued <= issued'
    BY <1>4, <2>1, <2>2 DEF Written
  <2>4. Written' /\ PlatterInv' /\ GenerationInv' /\ \A m \in Inodes : Keeps(m)
    BY <1>1, <1>2, <1>3, <1>4, <2>2, <2>3, GenAppend
  <2>5. LiveLogged(p)'
    BY <1>1, <1>2, <1>4, <2>1, <2>4, LiveKept DEF Replayed
  <2>6. InFlight(p)'
    <3>1. SUFFICES ASSUME pc'[p] = "flush", NEW n \in Inodes, NEW i \in 1..Len(file'[n].frames),
                          issued' \in file'[n].frames[i].txs
                   PROVE  n = fd'[p] /\ i = Len(file'[n].frames)
      BY DEF InFlight
    <3>2. /\ \A m \in Inodes : m # fd[p] => file'[m] = file[m]
          /\ Len(file'[fd[p]].frames) = Len(file[fd[p]].frames) + 1
          /\ \A j \in 1..Len(file[fd[p]].frames) : file'[fd[p]].frames[j] = file[fd[p]].frames[j]
      BY <1>1, <1>3, <2>2, AppendType
    <3>3. \A m \in Inodes : \A j \in 1..Len(file[m].frames) : issued' \notin file[m].frames[j].txs
      BY <1>4, <2>1 DEF Written
    <3>4. n = fd[p] /\ i \notin 1..Len(file[fd[p]].frames)
      BY <3>1, <3>2, <3>3
    <3>5. QED
      BY <1>1, <1>3, <2>1, <3>1, <3>2, <3>4, FileType
  <2>7. Linked(p)'
    BY <2>1 DEF Linked
  <2>8. QED
    BY <1>1, <2>4, <2>5, <2>6, <2>7, HandedOnly DEF GenInv
<1>7. QED
  BY <1>5, <1>6

\* What a replay finds and was acknowledged is on the platter.
LEMMA ReplayedDurable ==
  ASSUME FilesOK, PlatterInv, NEW n \in Inodes, NEW t \in replayed(n) \cap acked
  PROVE  Durable(t, n)
<1>1. n # NoFile
  BY DEF Inodes, NoFile
<1>2. PICK i \in good(file[n].frames) : t \in file[n].frames[i].txs
  BY <1>1 DEF replayed
<1>3. i \in 1..Len(file[n].frames) /\ \A j \in 1..i : file[n].frames[j].ok
  BY <1>2 DEF good
<1>4. i <= file[n].synced
  BY <1>2, <1>3 DEF PlatterInv, OnPlatter
<1>5. i \in 1..file[n].synced
  BY <1>3, <1>4, FileType
<1>6. QED
  BY <1>1, <1>2, <1>3, <1>5 DEF Durable

\* After a replay what is live and acknowledged is in the log.
LEMMA GenReplay ==
  ASSUME WalInv, WalInv', GenInv, NEW p \in Procs, Replay(p)
  PROVE  GenInv'
<1>1. FilesOK /\ FilesOK' /\ LogInv /\ ProcOK /\ HandleInv /\ HolderInv /\ TypeOK /\ StepOf(p)
  BY TypeOfParts DEF WalInv, LogInv, StepOf
<1>2. /\ UNCHANGED <<dirs, dir, fd, issued, acked, unsynced>> /\ pc[p] = "replay" /\ pc'[p] = "idle"
      /\ live' = [live EXCEPT ![p] = replayed(fd[p])]
  BY <1>1 DEF Replay, step, ProcOK, dir
<1>3. fd[p] \in Inodes
  BY <1>1, <1>2 DEF ProcOK, HandleInv
<1>4. Written /\ PlatterInv /\ GenerationInv
  BY DEF GenInv
<1>5. \A n \in Inodes : Shrinks(n) /\ Keeps(n)
  BY <1>1, <1>3, ReplayType, ReplayShrinks
<1>6. replayed(fd[p]) \subseteq 1..issued
  BY <1>3, <1>4 DEF Written, replayed, good
<1>7. Written' /\ PlatterInv'
  <2>1. \A q \in Procs : live'[q] \subseteq 1..issued
    BY <1>1, <1>2, <1>4, <1>6 DEF Written, ProcOK
  <2>2. QED
    BY <1>1, <1>2, <1>4, <1>5, <2>1, WrittenKept
<1>8. GenerationInv'
  BY <1>1, <1>2, <1>4, <1>5, NoNewGeneration
<1>9. LiveLogged(p)'
  <2>1. SUFFICES ASSUME ~unsynced, NEW t \in replayed(fd[p]) \cap acked PROVE Durable(t, dir["wal"])'
    BY <1>1, <1>2 DEF LiveLogged, ProcOK
  <2>2. fd[p] = dir["wal"]
    BY <1>1, <1>2, <1>3, <2>1 DEF HolderInv, Named, Opened, Steps, Inodes, NoFile
  <2>3. PICK n \in Inodes : n = fd[p]
    BY <1>3
  <2>4. Durable(t, n)
    BY <1>1, <1>4, <2>3, ReplayedDurable
  <2>5. Durable(t, n)'
    BY <1>1, <1>5, <2>4, KeepsDurable
  <2>6. QED
    BY <1>2, <2>2, <2>3, <2>5 DEF Durable
<1>10. InFlight(p)' /\ Linked(p)'
  BY <1>2 DEF InFlight, Linked
<1>11. QED
  BY <1>1, <1>7, <1>8, <1>9, <1>10, HandedOnly DEF GenInv

\* Write returns: what it acknowledges was in no file but at the end of the log.
LEMMA GenWriteReturns ==
  ASSUME WalInv, WalInv', GenInv, NEW p \in Procs, WriteReturns(p)
  PROVE  GenInv'
<1>1. FilesOK /\ FilesOK' /\ LogInv /\ ProcOK /\ HandleInv /\ HolderInv /\ TypeOK /\ StepOf(p)
  BY TypeOfParts DEF WalInv, LogInv, StepOf
<1>2. /\ UNCHANGED <<inodes, fd, issued, unsynced>> /\ pc[p] = "flush" /\ pc'[p] = "idle"
      /\ live' = [live EXCEPT ![p] = live[p] \cup {issued}]
  BY <1>1 DEF WriteReturns, step, ProcOK
<1>3. fd[p] \in Inodes /\ issued \in 1..issued
  BY <1>1, <1>2, WalAssumption DEF ProcOK, HandleInv
<1>4. Written /\ PlatterInv /\ GenerationInv /\ LiveLogged(p) /\ InFlight(p)
  BY DEF GenInv, HandedInv
<1> DEFINE n == fd[p]
           len == Len(file[n].frames)
<1>5. /\ \A i \in 1..len : file[n].frames[i].ok
      /\ file[n].frames[len].txs = {issued} /\ file[n].synced < len /\ len \in 1..len
      /\ ~unsynced => n = dir["wal"]
      /\ n # NoFile
  <2>1. Whole(p) /\ AtEnd(p) /\ Named(p)
    BY <1>1 DEF HolderInv
  <2>2. n # NoFile
    BY <1>3 DEF Inodes, NoFile
  <2>3. file[n].synced < len /\ file[n].synced \in Nat /\ len \in Nat
    BY <1>1, <1>2, <1>3, <2>1, FileType DEF AtEnd
  <2>4. QED
    BY <1>2, <2>1, <2>2, <2>3 DEF Whole, AtEnd, Named, Replayed, Opened, Steps
<1>6. \A q \in Procs : live'[q] \subseteq 1..issued
  BY <1>1, <1>2, <1>3, <1>4 DEF Written, ProcOK
<1>7. InFlight(p)' /\ Linked(p)'
  BY <1>2 DEF InFlight, Linked
<1>8. CASE ~fsync[p]
  <2>1. UNCHANGED <<file, dirs, acked, dir>>
    BY <1>8 DEF WriteReturns, dir
  <2>2. \A m \in Inodes : Shrinks(m) /\ Keeps(m)
    BY <1>1, <2>1, SameShrinks
  <2>3. Written' /\ PlatterInv'
    BY <1>1, <1>2, <1>4, <1>6, <2>1, <2>2, WrittenKept
  <2>4. GenerationInv'
    BY <1>1, <1>2, <1>4, <2>1, <2>2, NoNewGeneration
  <2>5. issued \notin acked
    BY <1>3, <1>4, <1>5, FileType, <1>1 DEF PlatterInv, OnPlatter
  <2>6. LiveLogged(p)'
    <3>1. live'[p] \cap acked' = live[p] \cap acked
      BY <1>1, <1>2, <2>1, <2>5 DEF ProcOK
    <3>2. QED
      BY <1>2, <1>4, <2>1, <3>1 DEF LiveLogged, Durable, Replayed
  <2>7. QED
    BY <1>1, <1>7, <2>3, <2>4, <2>6, HandedOnly DEF GenInv
<1>9. CASE fsync[p]
  <2>1. flush(n) /\ acked' = acked \cup {issued}
    BY <1>9 DEF WriteReturns
  <2>2. /\ dir' = dir /\ file'[n].frames = file[n].frames /\ file'[n].synced = len
        /\ \A m \in Inodes : Keeps(m)
        /\ \A i \in 1..Len(dirs') : \E j \in 1..Len(dirs) : dirs'[i] = dirs[j]
    <3>1. \A q \in Procs : fd'[q] \in {fd[q], NoFile}
      BY <1>2
    <3>2. QED
      BY <1>2, <1>3, <2>1, <3>1, FlushFiles
  <2>3. \A m \in Inodes : file'[m].frames = file[m].frames /\ (m # n => file'[m].synced = file[m].synced)
    BY <1>1, <1>3, <2>1, FlushType
  <2>4. Written'
    BY <1>2, <1>3, <1>4, <1>6, <2>1, <2>3 DEF Written
  <2>5. PlatterInv'
    <3>1. SUFFICES ASSUME NEW m \in Inodes, NEW i \in 1..Len(file'[m].frames),
                          file'[m].frames[i].txs \cap acked' # {}
                   PROVE  i <= file'[m].synced
      BY DEF PlatterInv, OnPlatter
    <3>2. CASE m = n
      BY <1>1, <1>3, <2>2, <3>1, <3>2, FileType
    <3>3. CASE m # n
      <4>1. issued \notin file[m].frames[i].txs
        BY <1>2, <1>4, <2>3, <3>1, <3>3 DEF InFlight
      <4>2. file[m].frames[i].txs \cap acked # {}
        BY <2>1, <2>3, <3>1, <4>1
      <4>3. QED
        BY <1>4, <2>3, <3>1, <3>3, <4>2 DEF PlatterInv, OnPlatter
    <3>4. QED
      BY <3>2, <3>3
  <2>6. GenerationInv'
    <3>1. \A t \in acked' \ acked : \A m \in Inodes : \A i \in 1..file[m].synced : t \notin file[m].frames[i].txs
      <4>1. SUFFICES ASSUME NEW m \in Inodes, NEW i \in 1..file[m].synced, issued \in file[m].frames[i].txs PROVE FALSE
        BY <2>1
      <4>2. i \in 1..Len(file[m].frames)
        BY <1>1, FileType
      <4>3. m = n /\ i = len
        BY <1>2, <1>4, <4>1, <4>2 DEF InFlight
      <4>4. QED
        BY <1>1, <1>3, <1>5, <4>3, FileType
    <3>2. QED
      BY <1>1, <1>2, <1>4, <2>2, <3>1, NoNewGeneration
  <2>7. LiveLogged(p)'
    <3>1. SUFFICES ASSUME ~unsynced, NEW t \in live'[p] \cap acked' PROVE Durable(t, dir["wal"])'
      BY <1>2 DEF LiveLogged
    <3>2. PICK m \in Inodes \cup {NoFile} : m = n
      BY <1>3
    <3>3. dir["wal"] = m
      BY <1>5, <3>1, <3>2
    <3>4. CASE t = issued
      <4>1. len \in 1..file'[n].synced /\ t \in file'[n].frames[len].txs /\ \A j \in 1..len : file'[n].frames[j].ok
        BY <1>5, <2>2, <3>4
      <4> HIDE DEF len
      <4>2. Durable(t, m)'
        BY <1>5, <3>2, <4>1 DEF Durable
      <4>3. QED
        BY <2>2, <3>3, <4>2 DEF Durable
    <3>5. CASE t # issued
      <4>1. t \in live[p] \cap acked
        BY <1>1, <1>2, <2>1, <3>1, <3>5 DEF ProcOK
      <4>2. Durable(t, m)
        BY <1>2, <1>4, <3>1, <3>3, <4>1 DEF LiveLogged, Replayed
      <4>3. Durable(t, m)'
        BY <1>1, <2>2, <4>2, KeepsDurable DEF NoFile
      <4>4. QED
        BY <2>2, <3>3, <4>3 DEF Durable
    <3>6. QED
      BY <3>4, <3>5
  <2>8. QED
    BY <1>1, <1>7, <2>4, <2>5, <2>6, <2>7, HandedOnly DEF GenInv
<1>10. QED
  BY <1>8, <1>9

\* Closing the log, flushed or not.
LEMMA GenCloseFile ==
  ASSUME WalInv, WalInv', GenInv, NEW p \in Procs, CloseFile(p)
  PROVE  GenInv'
<1>1. FilesOK /\ FilesOK' /\ LogInv /\ ProcOK /\ TypeOK /\ StepOf(p)
  BY TypeOfParts DEF WalInv, LogInv, StepOf
<1>2. /\ UNCHANGED <<inodes, issued, acked, unsynced>> /\ pc'[p] = "release"
      /\ fd' = [fd EXCEPT ![p] = NoFile] /\ live' = [live EXCEPT ![p] = {}]
  BY <1>1 DEF CloseFile, step, ProcOK
<1>3. Written /\ PlatterInv /\ GenerationInv
  BY DEF GenInv
<1>4. /\ \A m \in Inodes : Shrinks(m) /\ Keeps(m)
      /\ \A i \in 1..Len(dirs') : \E j \in 1..Len(dirs) : dirs'[i] = dirs[j]
  <2>1. CASE fd[p] # NoFile /\ flush(fd[p])
    <3>1. fd[p] \in Inodes /\ \A q \in Procs : fd'[q] \in {fd[q], NoFile}
      BY <1>1, <1>2, <2>1 DEF ProcOK
    <3>2. QED
      BY <1>1, <1>2, <2>1, <3>1, FlushFiles, FlushShrinks
  <2>2. CASE UNCHANGED <<file, dirs>>
    BY <1>1, <2>2, SameShrinks
  <2>3. QED
    BY <2>1, <2>2 DEF CloseFile
<1>5. Written' /\ PlatterInv'
  <2>1. \A q \in Procs : live'[q] \subseteq 1..issued
    BY <1>1, <1>2, <1>3 DEF Written, ProcOK
  <2>2. QED
    BY <1>1, <1>2, <1>3, <1>4, <2>1, WrittenKept
<1>6. GenerationInv'
  BY <1>1, <1>2, <1>3, <1>4, NoNewGeneration
<1>7. (InFlight(p) /\ LiveLogged(p) /\ Linked(p))'
  BY <1>2 DEF InFlight, LiveLogged, Linked, Replayed
<1>8. QED
  BY <1>1, <1>5, <1>6, <1>7, HandedOnly DEF GenInv

\* A kill and a power failure leave nobody that holds anything.
LEMMA GenCrash ==
  ASSUME WalInv, WalInv', GenInv, PowerFailure \/ \E p \in Procs : Kill(p)
  PROVE  GenInv'
<1>1. FilesOK /\ FilesOK' /\ LogInv /\ ProcOK /\ HandleInv /\ HolderInv /\ TypeOK
  BY TypeOfParts DEF WalInv, LogInv
<1>2. Written /\ PlatterInv /\ GenerationInv /\ HandedInv
  BY DEF GenInv
<1>3. UNCHANGED <<issued, acked, unsynced>> /\ \A q \in Procs : live'[q] \subseteq 1..issued
  BY <1>2 DEF PowerFailure, Kill, dead, Written
<1>4. /\ \A m \in Inodes : Shrinks(m) /\ Keeps(m)
      /\ \A i \in 1..Len(dirs') : \E j \in 1..Len(dirs) : dirs'[i] = dirs[j]
  <2>1. CASE PowerFailure
    <3>1. PICK j \in 1..Len(dirs) : dirs' = <<dirs[j]>>
      BY <1>1, <2>1, PowerType
    <3>2. \A i \in 1..Len(dirs') : dirs'[i] = dirs[j]
      BY <3>1
    <3>3. QED
      BY <1>1, <2>1, <3>2, PowerType, PowerShrinks
  <2>2. ASSUME NEW p \in Procs, Kill(p)
        PROVE  /\ \A m \in Inodes : Shrinks(m) /\ Keeps(m)
               /\ \A i \in 1..Len(dirs') : \E j \in 1..Len(dirs) : dirs'[i] = dirs[j]
    <3>1. UNCHANGED dirs
      BY <2>2 DEF Kill
    <3>2. CASE UNCHANGED file
      BY <1>1, <3>1, <3>2, SameShrinks
    <3>3. CASE /\ pc[p] = "flush"
               /\ file' = [file EXCEPT ![fd[p]].frames[Len(file[fd[p]].frames)].ok = FALSE]
      <4>1. fd[p] \in Inodes /\ AtEnd(p)
        BY <1>1, <3>3 DEF ProcOK, HandleInv, HolderInv
      <4>2. file[fd[p]].synced < Len(file[fd[p]].frames)
        BY <3>3, <4>1 DEF AtEnd
      <4>3. QED
        BY <1>1, <3>1, <3>3, <4>1, <4>2, TearType, TearShrinks
    <3>4. QED
      BY <2>2, <3>2, <3>3 DEF Kill
  <2>3. QED
    BY <2>1, <2>2
<1>5. Written' /\ PlatterInv'
  BY <1>1, <1>2, <1>3, <1>4, WrittenKept
<1>6. GenerationInv'
  BY <1>1, <1>2, <1>3, <1>4, NoNewGeneration
<1>7. HandedInv'
  <2>1. CASE PowerFailure
    BY <2>1 DEF PowerFailure, dead, HandedInv, InFlight, LiveLogged, Linked, Replayed
  <2>2. ASSUME NEW p \in Procs, Kill(p) PROVE HandedInv'
    <3>1. StepOf(p) /\ pc'[p] = "closed"
      BY <2>2 DEF StepOf, Kill, dead
    <3>2. (InFlight(p) /\ LiveLogged(p) /\ Linked(p))'
      BY <3>1 DEF InFlight, LiveLogged, Linked, Replayed
    <3>3. QED
      BY <1>1, <3>1, <3>2, HandedOnly
  <2>3. QED
    BY <2>1, <2>2
<1>8. QED
  BY <1>5, <1>6, <1>7 DEF GenInv

(***************************************************************************)
(* The theorem.                                                            *)
(***************************************************************************)

\* Each step keeps what the files and the versions of the directory promise.
LEMMA GenStep == WalInv /\ WalInv' /\ GenInv /\ [Next]_vars => GenInv'
<1>1. ASSUME WalInv, WalInv', GenInv, Next PROVE GenInv'
  <2>1. ASSUME NEW p \in Procs, StepOf(p) PROVE GenInv'
    BY <1>1, <2>1, GenUntouching, GenDirectory, GenRename, GenSyncDir, GenCheckpointWrite, GenOpenFile,
       GenAppendStep, GenReplay, GenWriteReturns, GenCloseFile, GenCrash DEF StepOf
  <2>2. ASSUME PowerFailure PROVE GenInv'
    BY <1>1, <2>2, GenCrash
  <2>3. PowerFailure \/ \E p \in Procs : StepOf(p)
    BY <1>1 DEF Next, StepOf
  <2>4. QED
    BY <2>1, <2>2, <2>3
<1>2. ASSUME WalInv, GenInv, UNCHANGED vars PROVE GenInv'
  <2>1. UNCHANGED <<file, dirs, pc, fd, live, issued, acked, unsynced>> /\ dir' = dir
    BY <1>2 DEF vars, fsVars, procVars, dir
  <2>2. Written' /\ PlatterInv'
    BY <1>2, <2>1 DEF GenInv, Written, PlatterInv, OnPlatter
  <2>3. HandedInv' /\ GenerationInv'
    BY <1>2, <2>1 DEF GenInv, HandedInv, InFlight, LiveLogged, Linked, GenerationInv, Generation, Durable
  <2>4. QED
    BY <2>2, <2>3 DEF GenInv
<1>3. QED
  BY <1>1, <1>2

\* To begin with nothing is written and there is no previous generation.
LEMMA GenInit == Init => GenInv
<1>1. SUFFICES ASSUME Init PROVE GenInv
  OBVIOUS
<1>2. acked = {} /\ issued = 0 /\ \A p \in Procs : live[p] = {} /\ pc[p] = "closed"
  BY <1>1 DEF Init
<1>3. ASSUME NEW n \in Inodes, NEW i \in 1..Len(file[n].frames) PROVE file[n].frames[i].txs = {}
  <2>1. file[n].frames = <<Header>> \/ file[n].frames = <<>>
    BY <1>1 DEF Init, EmptyFile
  <2>2. QED
    BY <1>3, <2>1 DEF Header, Frame
<1>4. Written /\ PlatterInv
  BY <1>2, <1>3 DEF Written, PlatterInv, OnPlatter
<1>5. HandedInv
  BY <1>2 DEF HandedInv, InFlight, LiveLogged, Linked, Replayed
<1>6. GenerationInv
  <2>1. PICK d : dirs = <<d>> /\ d["wal.old"] = NoFile
    BY <1>1 DEF Init, NoDir, Names, NoFile
  <2>2. \A i \in 1..Len(dirs) : dirs[i] = d
    BY <2>1
  <2>3. QED
    BY <2>1, <2>2 DEF GenerationInv, Generation
<1>7. QED
  BY <1>4, <1>5, <1>6 DEF GenInv

\* The two invariants together are inductive.
LEMMA GenInvariant == Spec => [](WalInv /\ GenInv)
<1>1. Init => WalInv /\ GenInv
  BY WalInit, GenInit
<1>2. WalInv /\ GenInv /\ [Next]_vars => (WalInv /\ GenInv)'
  BY WalStep, GenStep
<1>3. QED
  BY <1>1, <1>2, PTL DEF Spec

\* The previous generation a checkpoint keeps under wal.old holds all that was
\* acknowledged of what the checkpoint described, through any kills, power
\* failures, failing system calls and later checkpoints, as long as the directory
\* could be flushed (Checkpoint's link and rename).
THEOREM GenerationAlwaysComplete == Spec => []GenerationComplete
<1>1. WalInv /\ GenInv => GenerationComplete
  <2>1. SUFFICES ASSUME WalInv, GenInv, ~unsynced, dir["wal.old"] # NoFile, dir["wal.old"] # dir["wal"],
                        NEW t \in file[dir["wal"]].frames[2].txs \cap acked
                 PROVE  t \in replayed(dir["wal.old"])
    BY DEF GenerationComplete
  <2>2. FilesOK /\ LogInv /\ TypeOK
    BY <2>1, TypeOfParts DEF WalInv, LogInv
  <2>3. PICK n \in Inodes \cup {NoFile} : n = dir["wal.old"]
    BY <2>2, DirType DEF Names
  <2>4. Durable(t, n)
    BY <2>1, <2>2, <2>3, DirType DEF GenInv, GenerationInv, Generation, dir
  <2>5. QED
    BY <2>2, <2>3, <2>4, DurableReplayed
<1>2. QED
  BY <1>1, GenInvariant, PTL


(***************************************************************************)
(* What recovery would find in each file.                                  *)
(***************************************************************************)
Logs == [n \in Inodes \cup {NoFile} |-> replayed(n)]

\* A log has the earlier transactions of T than any it has.
Agree(S, T) == \A u \in S, t \in T : t < u => t \in S

\* The transactions of a file are in the order in which they were written.
Sorted(n) == \A i, j \in 1..Len(file[n].frames) : i < j =>
  \A t \in file[n].frames[i].txs, u \in file[n].frames[j].txs : t < u

\* What the log of inode n loses are its last transactions.
Down(n) == Logs'[n] \subseteq Logs[n] /\ Agree(Logs'[n], Logs[n])

\* The types of what recovery would find.
LogsOK ==
  /\ Logs \in [Inodes \cup {NoFile} -> SUBSET (1..issued)] /\ Logs[NoFile] = {}
  /\ issued \in Nat /\ 1..issued \subseteq Nat /\ Inodes \cup {NoFile} \subseteq Nat /\ NoFile = 0
  /\ Len(dirs) \in 1..Len(dirs) /\ Len(dirs) \in Nat /\ dir = dirs[Len(dirs)]
  /\ \A i \in 1..Len(dirs) : dirs[i]["wal"] \in Inodes \cup {NoFile} /\ dirs[i]["wal"] <= inodes
  /\ dir["wal"] \in Inodes \cup {NoFile} /\ Recoverable = Logs[dir["wal"]]
  /\ \A p \in Procs : live[p] \subseteq 1..issued /\ fd[p] \in Inodes \cup {NoFile}

\* The invariants give the types, before a step and after it.
LEMMA LogsTypes == WalInv /\ GenInv => LogsOK
<1> SUFFICES ASSUME WalInv, GenInv PROVE LogsOK
  OBVIOUS
<1>1. FilesOK /\ LogInv /\ TypeOK /\ InodesInv /\ Written
  BY TypeOfParts DEF WalInv, LogInv, GenInv
<1>2. ASSUME NEW n \in Inodes \cup {NoFile} PROVE replayed(n) \subseteq 1..issued
  BY <1>1 DEF replayed, Written, good, NoFile
<1>3. Logs \in [Inodes \cup {NoFile} -> SUBSET (1..issued)] /\ Logs[NoFile] = {}
  BY <1>2 DEF Logs, replayed
<1>4. issued \in Nat /\ \A p \in Procs : live[p] \subseteq 1..issued /\ fd[p] \in Inodes \cup {NoFile}
  BY <1>1, WalAssumption DEF LogInv, ProcOK, Written
<1>5. Inodes \cup {NoFile} \subseteq Nat /\ NoFile = 0
  BY DEF Inodes, NoFile
<1>6. Len(dirs) \in 1..Len(dirs) /\ Len(dirs) \in Nat /\ dir = dirs[Len(dirs)]
  BY <1>1, DirType DEF dir
<1>7. \A i \in 1..Len(dirs) : dirs[i]["wal"] \in Inodes \cup {NoFile} /\ dirs[i]["wal"] <= inodes
  BY <1>1, ElementOfSeq DEF FilesOK, Names, InodesInv
<1>8. dir["wal"] \in Inodes \cup {NoFile} /\ Recoverable = Logs[dir["wal"]]
  BY <1>6, <1>7 DEF Logs, Recoverable
<1>9. QED
  BY <1>3, <1>4, <1>5, <1>6, <1>7, <1>8 DEF LogsOK

\* The same of the next state.
LEMMA LogsTypesNext == WalInv' /\ GenInv' => LogsOK'
BY LogsTypes, PTL

\* The frames that decode are a prefix, and stay that when frames are cut or torn.
LEMMA GoodShrinks ==
  ASSUME NEW a \in Seq(Frames), NEW b \in Seq(Frames), Len(b) <= Len(a),
         \A i \in 1..Len(b) : b[i].txs = a[i].txs /\ (b[i].ok => a[i].ok)
  PROVE  /\ \A i \in good(b) : i \in good(a) /\ i \in 1..Len(b) /\ i \in 1..Len(a)
         /\ \A i \in good(b), k \in good(a) : ~(i < k) => k \in good(b)
<1>1. Len(a) \in Nat /\ Len(b) \in Nat
  OBVIOUS
<1>2. ASSUME NEW i \in good(b) PROVE i \in good(a) /\ i \in 1..Len(b) /\ i \in 1..Len(a)
  <2>1. i \in 1..Len(b) /\ \A j \in 1..i : b[j].ok
    BY DEF good
  <2>2. i \in 1..Len(a) /\ \A j \in 1..i : j \in 1..Len(b)
    BY <1>1, <2>1
  <2>3. \A j \in 1..i : a[j].ok
    BY <2>1, <2>2
  <2>4. QED
    BY <2>1, <2>2, <2>3 DEF good
<1>3. ASSUME NEW i \in good(b), NEW k \in good(a), ~(i < k) PROVE k \in good(b)
  <2>1. i \in 1..Len(b) /\ k \in 1..Len(a) /\ \A j \in 1..i : b[j].ok
    BY DEF good
  <2>2. k \in 1..Len(b) /\ \A j \in 1..k : j \in 1..i
    BY <1>1, <1>3, <2>1
  <2>3. QED
    BY <2>1, <2>2 DEF good
<1>4. QED
  BY <1>2, <1>3

\* What a file holds, and in which of its frames.
LEMMA InReplayed ==
  ASSUME NEW n \in Inodes
  PROVE  Logs[n] = UNION {file[n].frames[i].txs : i \in good(file[n].frames)}
<1>1. n # NoFile
  BY DEF Inodes, NoFile
<1>2. QED
  BY <1>1 DEF Logs, replayed

\* Files that shrink lose their last transactions.
LEMMA ShrinksDown ==
  ASSUME FilesOK, FilesOK', Written, NEW n \in Inodes, Sorted(n), Shrinks(n)
  PROVE  Down(n) /\ Sorted(n)'
<1>1. PICK a \in Seq(Frames), b \in Seq(Frames) : a = file[n].frames /\ b = file'[n].frames
  BY DEF FilesOK
<1>2. /\ Len(b) <= Len(a) /\ Len(b) \in Nat /\ Len(a) \in Nat
      /\ \A i \in 1..Len(b) : b[i].txs = a[i].txs /\ (b[i].ok => a[i].ok)
  BY <1>1 DEF Shrinks
<1>3. /\ \A i \in good(b) : i \in good(a) /\ i \in 1..Len(b) /\ i \in 1..Len(a)
      /\ \A i \in good(b), k \in good(a) : ~(i < k) => k \in good(b)
  BY <1>2, GoodShrinks
<1>4. Logs[n] = UNION {a[i].txs : i \in good(a)} /\ Logs'[n] = UNION {b[i].txs : i \in good(b)}
  <2>1. Logs'[n] = UNION {file'[n].frames[i].txs : i \in good(file'[n].frames)}
    <3>1. n # NoFile
      BY DEF Inodes, NoFile
    <3>2. QED
      BY <3>1 DEF Logs, replayed
  <2>2. QED
    BY <1>1, <2>1, InReplayed
<1>5. \A i, j \in 1..Len(a) : i < j => \A t \in a[i].txs, u \in a[j].txs : t < u
  BY <1>1 DEF Sorted
<1>6. Sorted(n)'
  <2>1. \A i \in 1..Len(b) : i \in 1..Len(a)
    BY <1>2
  <2>2. \A i, j \in 1..Len(b) : i < j => \A t \in b[i].txs, u \in b[j].txs : t < u
    BY <1>2, <1>5, <2>1
  <2>3. QED
    BY <1>1, <2>2 DEF Sorted
<1>7. \A i \in 1..Len(a) : a[i].txs \subseteq Nat
  <2>1. \A i \in 1..Len(a) : a[i].txs \subseteq 1..issued
    BY <1>1 DEF Written
  <2>2. 1..issued \subseteq Nat
    OBVIOUS
  <2>3. QED
    BY <2>1, <2>2
<1>8. Logs'[n] \subseteq Logs[n]
  BY <1>2, <1>3, <1>4
<1>9. ASSUME NEW u \in Logs'[n], NEW t \in Logs[n], t < u PROVE t \in Logs'[n]
  <2>1. PICK i \in good(b) : u \in b[i].txs
    BY <1>4
  <2>2. PICK k \in good(a) : t \in a[k].txs
    BY <1>4
  <2>3. i \in 1..Len(a) /\ i \in 1..Len(b) /\ u \in a[i].txs
    BY <1>2, <1>3, <2>1
  <2>4. k \in 1..Len(a)
    BY <2>2 DEF good
  <2>5. ~(i < k)
    <3>1. t \in Nat /\ u \in Nat
      BY <1>7, <2>2, <2>3, <2>4
    <3>2. ~(u < t)
      BY <1>9, <3>1
    <3>3. QED
      BY <1>5, <2>2, <2>3, <2>4, <3>2
  <2>6. k \in good(b) /\ k \in 1..Len(b)
    BY <1>3, <2>2, <2>5
  <2>7. QED
    BY <1>2, <1>4, <2>2, <2>6
<1>10. QED
  BY <1>6, <1>8, <1>9 DEF Down, Agree

\* The log keeps its transactions when its frames are as they were.
LEMMA SameFrames ==
  ASSUME NEW n \in Inodes \cup {NoFile}, n # NoFile => file'[n].frames = file[n].frames
  PROVE  Logs'[n] = Logs[n]
BY DEF Logs, replayed

\* A replay finds again what it found.
LEMMA ReplayLogs ==
  ASSUME FilesOK, NEW p \in Procs, fd[p] \in Inodes, Replay(p)
  PROVE  Logs' = Logs
<1> DEFINE n == fd[p]
           k == Cardinality(good(file[n].frames))
<1>1. /\ file[n].frames \in Seq(Frames) /\ Len(file[n].frames) \in Nat
      /\ file \in [Inodes -> [frames : Seq(Frames), synced : Nat]] /\ n \in Inodes
  BY FileType DEF FilesOK
<1>2. k \in 0..Len(file[n].frames) /\ good(file[n].frames) = 1..k
  BY <1>1, GoodIsPrefix
<1>3. file' = [file EXCEPT ![n].frames = SubSeq(@, 1, k),
                           ![n].synced = IF @ > k THEN k ELSE @]
  BY DEF Replay
<1>4. file'[n].frames = SubSeq(file[n].frames, 1, k) /\ \A m \in Inodes : m # n => file'[m] = file[m]
  BY <1>1, <1>3
<1> HIDE DEF k
<1>5. /\ Len(SubSeq(file[n].frames, 1, k)) = k
      /\ \A i \in 1..k : SubSeq(file[n].frames, 1, k)[i] = file[n].frames[i]
  <2> HIDE DEF n
  <2> QED BY <1>1, <1>2, SubSeqProperties
<1>6. good(file'[n].frames) = 1..k
  <2>1. \A i \in 1..k : file[n].frames[i].ok
    BY <1>1, <1>2 DEF good
  <2>2. PICK b : b = file'[n].frames
    OBVIOUS
  <2>3. Len(b) = k /\ \A i \in 1..k : b[i].ok
    BY <1>4, <1>5, <2>1, <2>2
  <2>4. \A i \in 1..k : \A j \in 1..i : j \in 1..k
    BY <1>2
  <2>5. good(b) = 1..k
    BY <2>3, <2>4 DEF good
  <2>6. QED
    BY <2>2, <2>5
<1>7. Logs'[n] = Logs[n]
  <2>1. \A i \in 1..k : file'[n].frames[i].txs = file[n].frames[i].txs
    BY <1>4, <1>5
  <2>2. Logs'[n] = UNION {file'[n].frames[i].txs : i \in good(file'[n].frames)}
    <3>1. n # NoFile
      BY <1>1 DEF Inodes, NoFile
    <3>2. QED
      BY <1>1, <3>1 DEF Logs, replayed
  <2>3. Logs[n] = UNION {file[n].frames[i].txs : i \in good(file[n].frames)}
    BY <1>1, InReplayed
  <2>4. QED
    BY <1>2, <1>6, <2>1, <2>2, <2>3
<1>8. ASSUME NEW m \in Inodes \cup {NoFile} PROVE Logs'[m] = Logs[m]
  <2>1. CASE m = n
    BY <1>7, <2>1
  <2>2. CASE m # n
    BY <1>4, <2>2, SameFrames
  <2>3. QED
    BY <2>1, <2>2
<1>9. QED
  BY <1>8 DEF Logs

\* An append leaves the log what it had, and a torn frame adds nothing to it.
LEMMA AppendLogs ==
  ASSUME FilesOK, TypeOK, NEW n \in Inodes, NEW fr \in Frames, append(n, fr)
  PROVE  /\ \A m \in Inodes \cup {NoFile} : m # n => Logs'[m] = Logs[m]
         /\ Logs[n] \subseteq Logs'[n] /\ Logs'[n] \subseteq Logs[n] \cup fr.txs
         /\ ~fr.ok => Logs'[n] = Logs[n]
         /\ (\A i \in 1..Len(file[n].frames) : file[n].frames[i].ok) /\ fr.ok => Logs'[n] = Logs[n] \cup fr.txs
<1> DEFINE len == Len(file[n].frames)
<1>1. /\ \A m \in Inodes : m # n => file'[m] = file[m]
      /\ Len(file'[n].frames) = len + 1
      /\ \A i \in 1..len : file'[n].frames[i] = file[n].frames[i]
      /\ file'[n].frames[len + 1] = fr
      /\ len \in Nat
  BY AppendType, FileType
<1> HIDE DEF len
<1>2. 1..(len + 1) = 1..len \cup {len + 1} /\ \A i \in 1..len : 1..i \subseteq 1..len
  BY <1>1
<1>3. \A i \in 1..len : i \in good(file'[n].frames) <=> i \in good(file[n].frames)
  BY <1>1, <1>2 DEF good, len
<1>4. /\ good(file[n].frames) \subseteq 1..len /\ good(file'[n].frames) \subseteq 1..len \cup {len + 1}
      /\ len + 1 \in good(file'[n].frames) => fr.ok
  BY <1>1, <1>2 DEF good, len
<1>5. Logs[n] = replayed(n) /\ Logs'[n] = replayed(n)' /\ n # NoFile
  BY DEF Logs, Inodes, NoFile
<1>6. Logs[n] \subseteq Logs'[n]
  BY <1>1, <1>3, <1>4, <1>5 DEF replayed
<1>7. Logs'[n] \subseteq Logs[n] \cup fr.txs /\ (~fr.ok => Logs'[n] \subseteq Logs[n])
  BY <1>1, <1>3, <1>4, <1>5 DEF replayed
<1>8. ASSUME \A i \in 1..len : file[n].frames[i].ok, fr.ok PROVE fr.txs \subseteq Logs'[n]
  <2>1. len + 1 \in good(file'[n].frames)
    BY <1>1, <1>2, <1>8 DEF good
  <2>2. QED
    BY <1>1, <1>5, <2>1 DEF replayed
<1>9. QED
  BY <1>1, <1>6, <1>7, <1>8, SameFrames DEF len

\* The log that a checkpoint describes.
LEMMA DescribedLog ==
  ASSUME NEW n \in Inodes \cup {NoFile}, NEW txs, Describes(n, txs)
  PROVE  Logs[n] = txs
<1>1. n # NoFile /\ file[n].frames = <<Header, Frame(txs)>>
  BY DEF Describes
<1>2. good(file[n].frames) = 1..2
  BY <1>1 DEF good, Header, Frame
<1>3. file[n].frames[1].txs = {} /\ file[n].frames[2].txs = txs
  BY <1>1 DEF Header, Frame
<1>4. replayed(n) = txs
  BY <1>1, <1>2, <1>3 DEF replayed
<1>5. QED
  BY <1>4 DEF Logs

(***************************************************************************)
(* The invariant.                                                          *)
(***************************************************************************)

\* A later version of the directory names a later log, of which an earlier
\* version has all that was written before its own last transaction.
VersionInv == \A i, j \in 1..Len(dirs) : i < j =>
  dirs[i]["wal"] <= dirs[j]["wal"] /\ Agree(Logs[dirs[i]["wal"]], Logs[dirs[j]["wal"]])

\* A checkpoint is in a later file than every log.
FreshTmp(p) == pc[p] \in {"unlink", "link", "rename"} =>
  \A i \in 1..Len(dirs) : dirs[i]["wal"] < dir["wal.tmp"]

\* Open reads the log in use.
Fronted(p) == pc[p] \in {"header", "replay"} => fd[p] = dir["wal"]

\* Every version of the log has the earlier ones of the transactions p holds.
LiveAgrees(p) == pc[p] \in Replayed =>
  \A i \in 1..Len(dirs) : Agree(Logs[dirs[i]["wal"]], live[p])

\* What the log has and p does not hold is later than what p holds; as long as p
\* has a handle it is the transaction p is flushing.
LiveFirst(p) == pc[p] \in Replayed =>
  \A m \in Recoverable \ live[p] : /\ \A n \in live[p] : n < m
                                   /\ fd[p] # NoFile => pc[p] = "flush" /\ m = issued

\* What p holds is in the file that it appends to.
InLog(p) == pc[p] \in Replayed /\ fd[p] # NoFile => live[p] \subseteq Logs[fd[p]]

\* Nothing is in a later version of the log that is not in the file p appends to.
Covers(p) == pc[p] \in Opened /\ fd[p] # NoFile =>
  \A i, j \in 1..Len(dirs) : i < j /\ dirs[i]["wal"] = fd[p] => Logs[dirs[j]["wal"]] \subseteq Logs[fd[p]]

Held(p) == FreshTmp(p) /\ Fronted(p) /\ LiveAgrees(p) /\ LiveFirst(p) /\ InLog(p) /\ Covers(p)

SortedInv == \A n \in Inodes : Sorted(n)
HeldInv   == \A p \in Procs : Held(p)
OrderInv  == SortedInv /\ VersionInv /\ HeldInv

\* The step takes away the end of the log.
Ends == \A m \in Recoverable \ Recoverable' : \A n \in Recoverable' : n < m

\* The step adds no log to the versions of the directory and keeps their order.
Follows ==
  \A i, j \in 1..Len(dirs') : i <= j =>
    \E k, l \in 1..Len(dirs) : k <= l /\ dirs'[i]["wal"] = dirs[k]["wal"] /\ dirs'[j]["wal"] = dirs[l]["wal"]

\* Who is closed holds nothing, and when one process steps the others are closed.
LEMMA HeldOnly ==
  ASSUME LogInv, NEW p \in Procs, StepOf(p), pc'[p] # "closed" => Held(p)'
  PROVE  HeldInv'
<1>1. ASSUME NEW q \in Procs, pc'[q] = "closed" PROVE Held(q)'
  BY <1>1 DEF Held, FreshTmp, Fronted, LiveAgrees, LiveFirst, InLog, Covers, Replayed, Opened
<1>2. ASSUME NEW q \in Procs, pc'[q] # "closed" PROVE q = p
  BY <1>2, StepAlone
<1>3. QED
  BY <1>1, <1>2 DEF HeldInv

\* A log that keeps what it had loses nothing.
LEMMA SameDown ==
  ASSUME NEW n, Logs'[n] = Logs[n]
  PROVE  Down(n)
BY DEF Down, Agree

\* When every log loses its last transactions at most, and the directory goes
\* back to one of its versions or stays, then the end of the log is lost.
LEMMA FollowEnds ==
  ASSUME LogsOK, LogsOK', VersionInv, Follows, \A i \in 1..Len(dirs) : Down(dirs[i]["wal"])
  PROVE  VersionInv' /\ Ends
<1>1. /\ Len(dirs) \in 1..Len(dirs) /\ Len(dirs) \in Nat /\ Inodes \cup {NoFile} \subseteq Nat
      /\ Recoverable = Logs[dirs[Len(dirs)]["wal"]]
      /\ \A i \in 1..Len(dirs) : dirs[i]["wal"] \in Inodes \cup {NoFile}
      /\ \A n \in Inodes \cup {NoFile} : Logs[n] \subseteq Nat
  BY DEF LogsOK
<1>2. Len(dirs') \in 1..Len(dirs') /\ Len(dirs') \in Nat /\ Recoverable' = Logs'[dirs'[Len(dirs')]["wal"]]
  BY DEF LogsOK
<1>3. ASSUME NEW k \in 1..Len(dirs), NEW l \in 1..Len(dirs), k <= l
      PROVE  dirs[k]["wal"] <= dirs[l]["wal"] /\ Agree(Logs[dirs[k]["wal"]], Logs[dirs[l]["wal"]])
  <2>1. CASE k < l
    BY <2>1 DEF VersionInv
  <2>2. CASE k = l
    <3>1. dirs[k]["wal"] \in Nat
      BY <1>1
    <3>2. Agree(Logs[dirs[k]["wal"]], Logs[dirs[k]["wal"]])
      BY DEF Agree
    <3>3. dirs[k]["wal"] <= dirs[k]["wal"]
      BY <3>1
    <3>4. QED
      BY <2>2, <3>2, <3>3
  <2>3. QED
    BY <1>1, <1>3, <2>1, <2>2
<1>4. VersionInv'
  <2>1. SUFFICES ASSUME NEW i \in 1..Len(dirs'), NEW j \in 1..Len(dirs'), i < j
                 PROVE  dirs'[i]["wal"] <= dirs'[j]["wal"] /\ Agree(Logs'[dirs'[i]["wal"]], Logs'[dirs'[j]["wal"]])
    BY DEF VersionInv, Agree
  <2>2. PICK k \in 1..Len(dirs), l \in 1..Len(dirs) :
          k <= l /\ dirs'[i]["wal"] = dirs[k]["wal"] /\ dirs'[j]["wal"] = dirs[l]["wal"]
    <3>1. i <= j
      BY <1>2, <2>1
    <3>2. QED
      BY <3>1 DEF Follows
  <2>3. Down(dirs[k]["wal"]) /\ Down(dirs[l]["wal"])
    OBVIOUS
  <2>4. QED
    BY <1>3, <2>2, <2>3 DEF Down, Agree
<1>5. Ends
  <2>1. PICK k \in 1..Len(dirs) : dirs'[Len(dirs')]["wal"] = dirs[k]["wal"]
    BY <1>2 DEF Follows
  <2>2. /\ Agree(Logs[dirs[k]["wal"]], Recoverable) /\ Down(dirs[k]["wal"])
        /\ Recoverable' = Logs'[dirs[k]["wal"]]
    BY <1>1, <1>2, <1>3, <2>1
  <2>3. SUFFICES ASSUME NEW m \in Recoverable \ Recoverable', NEW n \in Recoverable' PROVE n < m
    BY DEF Ends
  <2>4. n \in Logs[dirs[k]["wal"]] /\ m \in Nat /\ n \in Nat /\ n # m
    BY <1>1, <2>2, <2>3 DEF Down
  <2>5. ~(m < n)
    BY <2>2, <2>3, <2>4 DEF Down, Agree
  <2>6. QED
    BY <2>4, <2>5
<1>6. QED
  BY <1>4, <1>5

\* The versions of the directory may stay as they are.
LEMMA StillFollows ==
  ASSUME UNCHANGED dirs
  PROVE  Follows
BY DEF Follows

\* One more version may name the same log.
LEMMA AddedFollows ==
  ASSUME LogsOK, NEW d, Len(dirs') = Len(dirs) + 1, dirs'[Len(dirs) + 1] = d, d["wal"] = dir["wal"],
         \A i \in 1..Len(dirs) : dirs'[i] = dirs[i]
  PROVE  Follows
<1>1. Len(dirs) \in 1..Len(dirs) /\ Len(dirs) \in Nat /\ dir = dirs[Len(dirs)]
  BY DEF LogsOK
<1>2. SUFFICES ASSUME NEW i \in 1..Len(dirs'), NEW j \in 1..Len(dirs'), i <= j
               PROVE  \E k, l \in 1..Len(dirs) :
                        k <= l /\ dirs'[i]["wal"] = dirs[k]["wal"] /\ dirs'[j]["wal"] = dirs[l]["wal"]
  BY DEF Follows
<1>3. CASE j \in 1..Len(dirs)
  <2>1. i \in 1..Len(dirs)
    BY <1>1, <1>2, <1>3
  <2>2. QED
    BY <1>2, <1>3, <2>1
<1>4. CASE j = Len(dirs) + 1 /\ i \in 1..Len(dirs)
  <2>1. i <= Len(dirs) /\ dirs'[i]["wal"] = dirs[i]["wal"] /\ dirs'[j]["wal"] = dirs[Len(dirs)]["wal"]
    BY <1>1, <1>4
  <2>2. QED
    BY <1>1, <1>4, <2>1
<1>5. CASE i = Len(dirs) + 1 /\ j = Len(dirs) + 1
  <2>1. Len(dirs) <= Len(dirs) /\ dirs'[i]["wal"] = dirs[Len(dirs)]["wal"] /\ dirs'[j]["wal"] = dirs[Len(dirs)]["wal"]
    BY <1>1, <1>5
  <2>2. QED
    BY <1>1, <2>1
<1>6. QED
  BY <1>1, <1>2, <1>3, <1>4, <1>5

\* A flush of the directory, and a power failure, leave one version.
LEMMA OneFollows ==
  ASSUME LogsOK, NEW j \in 1..Len(dirs), dirs' = <<dirs[j]>>
  PROVE  Follows
<1>1. j <= j
  BY DEF LogsOK
<1>2. \A i \in 1..Len(dirs') : dirs'[i] = dirs[j]
  OBVIOUS
<1>3. QED
  BY <1>1, <1>2 DEF Follows

\* The file that a process appends to covers the later versions as long as none is added.
LEMMA CoversKept ==
  ASSUME LogsOK, LogsOK', NEW p \in Procs, Covers(p), pc[p] \in Opened, fd'[p] = fd[p], Follows,
         \A i \in 1..Len(dirs) : Logs'[dirs[i]["wal"]] = Logs[dirs[i]["wal"]],
         fd[p] # NoFile => Logs'[fd[p]] = Logs[fd[p]]
  PROVE  Covers(p)'
<1>1. SUFFICES ASSUME fd[p] # NoFile, NEW i \in 1..Len(dirs'), NEW j \in 1..Len(dirs'), i < j, dirs'[i]["wal"] = fd[p]
               PROVE  Logs'[dirs'[j]["wal"]] \subseteq Logs'[fd[p]]
  BY DEF Covers
<1>2. i <= j /\ Len(dirs) \in Nat
  BY <1>1 DEF LogsOK
<1>3. PICK k \in 1..Len(dirs), l \in 1..Len(dirs) :
        k <= l /\ dirs'[i]["wal"] = dirs[k]["wal"] /\ dirs'[j]["wal"] = dirs[l]["wal"]
  BY <1>2 DEF Follows
<1>4. CASE k = l
  BY <1>1, <1>3, <1>4
<1>5. CASE k < l
  <2>1. Logs[dirs[l]["wal"]] \subseteq Logs[fd[p]]
    BY <1>1, <1>3, <1>5 DEF Covers
  <2>2. QED
    BY <1>1, <1>3, <2>1
<1>6. QED
  BY <1>2, <1>3, <1>4, <1>5

\* What a process holds stays in order when the logs stay as they are.
LEMMA HeldKept ==
  ASSUME LogsOK, LogsOK', NEW p \in Procs, Held(p), pc[p] \in Replayed \ {"flush"}, pc'[p] \in Replayed,
         live'[p] = live[p], fd'[p] = fd[p], Follows, dir'["wal"] = dir["wal"],
         \A i \in 1..Len(dirs) : Logs'[dirs[i]["wal"]] = Logs[dirs[i]["wal"]],
         fd[p] # NoFile => Logs'[fd[p]] = Logs[fd[p]], FreshTmp(p)'
  PROVE  Held(p)'
<1>1. /\ Len(dirs) \in 1..Len(dirs) /\ Len(dirs) \in Nat /\ dir = dirs[Len(dirs)]
      /\ Recoverable = Logs[dir["wal"]] /\ Recoverable' = Logs'[dir'["wal"]]
  BY DEF LogsOK
<1>2. Recoverable' = Recoverable
  BY <1>1
<1>3. LiveAgrees(p) /\ LiveFirst(p) /\ InLog(p) /\ Covers(p)
  BY DEF Held
<1>4. \A i \in 1..Len(dirs') : \E k \in 1..Len(dirs) : dirs'[i]["wal"] = dirs[k]["wal"]
  <2>1. \A i \in 1..Len(dirs') : i <= i
    BY DEF LogsOK
  <2>2. QED
    BY <2>1 DEF Follows
<1>5. LiveAgrees(p)'
  <2>1. SUFFICES ASSUME NEW i \in 1..Len(dirs') PROVE Agree(Logs'[dirs'[i]["wal"]], live'[p])
    BY DEF LiveAgrees, Agree
  <2>2. PICK k \in 1..Len(dirs) : dirs'[i]["wal"] = dirs[k]["wal"]
    BY <1>4
  <2>3. QED
    BY <1>3, <2>2 DEF LiveAgrees
<1>6. LiveFirst(p)'
  BY <1>2, <1>3 DEF LiveFirst
<1>7. InLog(p)'
  BY <1>3 DEF InLog
<1>8. Covers(p)'
  BY <1>3, CoversKept DEF Opened, Replayed, Steps
<1>9. Fronted(p)'
  BY DEF Fronted, Replayed
<1>10. QED
  BY <1>5, <1>6, <1>7, <1>8, <1>9 DEF Held

\* Versions of the directory that name the log in use name the same log as all
\* the versions between them.
LEMMA SameBetween ==
  ASSUME LogsOK, VersionInv, NEW i \in 1..Len(dirs), NEW j \in 1..Len(dirs), i < j, dirs[i]["wal"] = dir["wal"]
  PROVE  dirs[j]["wal"] = dir["wal"]
<1>1. /\ Len(dirs) \in 1..Len(dirs) /\ Len(dirs) \in Nat /\ dir = dirs[Len(dirs)]
      /\ dirs[j]["wal"] \in Nat /\ dir["wal"] \in Nat
  BY DEF LogsOK
<1>2. dir["wal"] <= dirs[j]["wal"]
  BY DEF VersionInv
<1>3. dirs[j]["wal"] <= dir["wal"]
  BY <1>1 DEF VersionInv
<1>4. QED
  BY <1>1, <1>2, <1>3

\* What the steps below start from.
LEMMA OrderFacts ==
  ASSUME WalInv, WalInv', GenInv, GenInv', OrderInv
  PROVE  /\ FilesOK /\ FilesOK' /\ LogInv /\ ProcOK /\ LogInv' /\ ProcOK' /\ HandleInv /\ HolderInv /\ InodesInv /\ TypeOK
         /\ Written /\ HandedInv /\ LogsOK /\ LogsOK' /\ SortedInv /\ VersionInv /\ HeldInv
BY TypeOfParts, LogsTypes, LogsTypesNext DEF WalInv, LogInv, GenInv, OrderInv

\* A step that touches no file.
LEMMA FilesKept ==
  ASSUME SortedInv, UNCHANGED file
  PROVE  /\ SortedInv' /\ Logs' = Logs
         /\ \A i \in 1..Len(dirs) : Down(dirs[i]["wal"])
<1>1. SortedInv'
  BY DEF SortedInv, Sorted
<1>2. Logs' = Logs
  BY DEF Logs, replayed
<1>3. QED
  BY <1>1, <1>2, SameDown

\* A step in which files only shrink.
LEMMA FilesShrunk ==
  ASSUME FilesOK, FilesOK', Written, LogsOK, LogsOK', SortedInv, \A n \in Inodes : Shrinks(n)
  PROVE  SortedInv' /\ \A i \in 1..Len(dirs) : Down(dirs[i]["wal"])
<1>1. \A n \in Inodes : Down(n) /\ Sorted(n)'
  BY ShrinksDown DEF SortedInv
<1>2. Down(NoFile)
  BY DEF Down, Agree, LogsOK
<1>3. \A i \in 1..Len(dirs) : dirs[i]["wal"] \in Inodes \cup {NoFile}
  BY DEF LogsOK
<1>4. QED
  BY <1>1, <1>2, <1>3 DEF SortedInv

\* The steps that leave the disk and the clients alone.
LEMMA OrderUntouching ==
  ASSUME WalInv, WalInv', GenInv, GenInv', OrderInv, NEW p \in Procs,
         \/ LockDir(p) \/ WriteHeaderFails(p) \/ WriteSyncFails(p) \/ CheckpointSyncDirFails(p)
         \/ CheckpointReopen(p) \/ CheckpointReopenFails(p) \/ Unlock(p) \/ CollectLock(p)
  PROVE  OrderInv' /\ Ends
<1>1. /\ FilesOK /\ FilesOK' /\ LogInv /\ ProcOK /\ HolderInv /\ StepOf(p)
      /\ LogsOK /\ LogsOK' /\ SortedInv /\ VersionInv /\ HeldInv
  BY OrderFacts DEF StepOf
<1>2. UNCHANGED <<file, dirs, issued, live>> /\ dir' = dir
  BY DEF LockDir, WriteHeaderFails, WriteSyncFails, CheckpointSyncDirFails, CheckpointReopen,
     CheckpointReopenFails, Unlock, CollectLock, fsVars, procVars, dir
<1>3. SortedInv' /\ Logs' = Logs /\ \A i \in 1..Len(dirs) : Down(dirs[i]["wal"])
  BY <1>1, <1>2, FilesKept
<1>4. Follows
  BY <1>2, StillFollows
<1>5. VersionInv' /\ Ends
  BY <1>1, <1>3, <1>4, FollowEnds
<1>6. Held(p) /\ FreshTmp(p) /\ Fronted(p) /\ LiveAgrees(p) /\ LiveFirst(p) /\ InLog(p) /\ Covers(p)
  BY <1>1 DEF HeldInv, Held
<1>7. Recoverable' = Recoverable
  BY <1>2 DEF Recoverable, replayed
<1>8. CASE LockDir(p) \/ WriteHeaderFails(p) \/ Unlock(p) \/ CollectLock(p)
  <2>1. pc'[p] \in {"closed", "locked"}
    BY <1>1, <1>8 DEF LockDir, WriteHeaderFails, Unlock, CollectLock, step, ProcOK, procVars
  <2>2. Held(p)'
    BY <2>1 DEF Held, FreshTmp, Fronted, LiveAgrees, LiveFirst, InLog, Covers, Replayed, Opened
  <2>3. QED
    BY <1>1, <1>3, <1>5, <2>2, HeldOnly DEF OrderInv
<1>9. CASE WriteSyncFails(p) \/ CheckpointReopenFails(p)
  <2>1. pc[p] \in {"flush", "reopen"} /\ pc'[p] = "idle" /\ fd'[p] = NoFile
    BY <1>1, <1>9 DEF WriteSyncFails, CheckpointReopenFails, step, ProcOK
  <2>2. Held(p)'
    BY <1>2, <1>3, <1>6, <1>7, <2>1 DEF Held, FreshTmp, Fronted, LiveAgrees, LiveFirst, InLog, Covers, Replayed
  <2>3. QED
    BY <1>1, <1>3, <1>5, <2>2, HeldOnly DEF OrderInv
<1>10. CASE CheckpointSyncDirFails(p)
  <2>1. pc[p] = "dirsync" /\ pc'[p] = "idle" /\ fd'[p] = fd[p]
    BY <1>1, <1>10 DEF CheckpointSyncDirFails, step, ProcOK
  <2>2. Held(p)'
    BY <1>1, <1>2, <1>3, <1>4, <1>6, <2>1, HeldKept DEF Replayed, FreshTmp
  <2>3. QED
    BY <1>1, <1>3, <1>5, <2>2, HeldOnly DEF OrderInv
<1>11. CASE CheckpointReopen(p)
  <2>1. /\ pc[p] = "reopen" /\ pc'[p] = "idle"
        /\ fd[p] = NoFile => fd'[p] = NoFile
        /\ fd[p] # NoFile => fd'[p] = dir["wal"]
    BY <1>1, <1>11 DEF CheckpointReopen, step, ProcOK
  <2>2. Logs[dir["wal"]] = live[p] /\ Recoverable = live[p]
    <3>1. dir["wal"] \in Inodes \cup {NoFile} /\ Describes(dir["wal"], live[p])
      BY <1>1, <2>1 DEF LogsOK, HolderInv, Described
    <3>2. Logs[dir["wal"]] = live[p]
      BY <3>1, DescribedLog
    <3>3. QED
      BY <1>1, <3>2 DEF LogsOK
  <2>3. FreshTmp(p)' /\ Fronted(p)' /\ LiveAgrees(p)' /\ LiveFirst(p)'
    BY <1>2, <1>3, <1>6, <1>7, <2>1, <2>2 DEF FreshTmp, Fronted, LiveAgrees, LiveFirst, Replayed
  <2>4. InLog(p)'
    BY <1>2, <1>3, <2>1, <2>2 DEF InLog
  <2>5. Covers(p)'
    <3>1. fd'[p] # NoFile => fd'[p] = dir["wal"]
      BY <2>1
    <3>2. \A i, j \in 1..Len(dirs) : i < j /\ dirs[i]["wal"] = dir["wal"] => dirs[j]["wal"] = dir["wal"]
      BY <1>1, SameBetween
    <3>3. QED
      BY <1>2, <1>3, <3>1, <3>2 DEF Covers
  <2>6. QED
    BY <1>1, <1>3, <1>5, <2>3, <2>4, <2>5, HeldOnly DEF OrderInv, Held
<1>12. QED
  BY <1>8, <1>9, <1>10, <1>11

\* The steps of a checkpoint on the directory, before the rename.
LEMMA OrderDirectory ==
  ASSUME WalInv, WalInv', GenInv, GenInv', OrderInv, NEW p \in Procs,
         \/ CheckpointUnlink(p) \/ CheckpointLink(p) \/ CheckpointAbandon(p) \/ CheckpointRenameFails(p)
  PROVE  OrderInv' /\ Ends
<1>1. /\ FilesOK /\ FilesOK' /\ LogInv /\ ProcOK /\ TypeOK /\ HolderInv /\ StepOf(p)
      /\ LogsOK /\ LogsOK' /\ SortedInv /\ VersionInv /\ HeldInv
  BY OrderFacts DEF StepOf
<1>2. UNCHANGED <<file, issued, live, fd>>
  BY DEF CheckpointUnlink, CheckpointLink, CheckpointAbandon, CheckpointRenameFails
<1>3. SortedInv' /\ Logs' = Logs /\ \A i \in 1..Len(dirs) : Down(dirs[i]["wal"])
  BY <1>1, <1>2, FilesKept
<1>4. dir \in [Names -> Inodes \cup {NoFile}]
  BY <1>1, DirType
<1>5. PICK d \in [Names -> Inodes \cup {NoFile}] :
        /\ dirOp(d) /\ d["wal"] = dir["wal"]
        /\ CheckpointUnlink(p) \/ CheckpointLink(p) => d["wal.tmp"] = dir["wal.tmp"]
  <2>1. CASE CheckpointUnlink(p) \/ CheckpointLink(p)
    <3>1. PICK v \in Inodes \cup {NoFile} : dirOp([dir EXCEPT !["wal.old"] = v])
      BY <1>4, <2>1 DEF CheckpointUnlink, CheckpointLink, Names
    <3> DEFINE d == [dir EXCEPT !["wal.old"] = v]
    <3>2. d \in [Names -> Inodes \cup {NoFile}] /\ d["wal"] = dir["wal"] /\ d["wal.tmp"] = dir["wal.tmp"]
      BY <1>4 DEF Names
    <3>3. dirOp(d)
      BY <3>1
    <3> HIDE DEF d
    <3>4. QED
      BY <3>2, <3>3
  <2>2. CASE CheckpointAbandon(p) \/ CheckpointRenameFails(p)
    <3> DEFINE d == [dir EXCEPT !["wal.tmp"] = NoFile]
    <3>1. d \in [Names -> Inodes \cup {NoFile}] /\ d["wal"] = dir["wal"]
      BY <1>4 DEF Names
    <3>2. dirOp(d)
      BY <2>2 DEF CheckpointAbandon, CheckpointRenameFails
    <3>3. ~(CheckpointUnlink(p) \/ CheckpointLink(p))
      BY <1>1, <2>2 DEF CheckpointUnlink, CheckpointLink, CheckpointAbandon, CheckpointRenameFails, step, ProcOK
    <3> HIDE DEF d
    <3>4. QED
      BY <3>1, <3>2, <3>3
  <2>3. QED
    BY <2>1, <2>2
<1>6. /\ Len(dirs') = Len(dirs) + 1 /\ dirs'[Len(dirs) + 1] = d /\ dir' = d
      /\ \A i \in 1..Len(dirs) : dirs'[i] = dirs[i]
  BY <1>1, <1>5, DirOpType DEF dir
<1>7. Follows
  BY <1>1, <1>5, <1>6, AddedFollows
<1>8. VersionInv' /\ Ends
  BY <1>1, <1>3, <1>7, FollowEnds
<1>9. Held(p) /\ FreshTmp(p)
  BY <1>1 DEF HeldInv, Held
<1>10. /\ pc[p] \in {"unlink", "link", "rename"} /\ pc'[p] \in {"link", "rename", "idle"}
       /\ pc'[p] \in {"link", "rename"} => CheckpointUnlink(p) \/ CheckpointLink(p)
  BY <1>1 DEF CheckpointUnlink, CheckpointLink, CheckpointAbandon, CheckpointRenameFails, step, ProcOK
<1>11. FreshTmp(p)'
  <2>1. SUFFICES ASSUME pc'[p] \in {"link", "rename"}, NEW i \in 1..Len(dirs') PROVE dirs'[i]["wal"] < dir'["wal.tmp"]
    BY <1>10 DEF FreshTmp
  <2>2. dir'["wal.tmp"] = dir["wal.tmp"]
    BY <1>5, <1>6, <1>10, <2>1
  <2>3. PICK k \in 1..Len(dirs) : dirs'[i]["wal"] = dirs[k]["wal"]
    <3>1. i <= i
      BY DEF LogsOK
    <3>2. QED
      BY <1>7, <3>1 DEF Follows
  <2>4. QED
    BY <1>9, <1>10, <2>2, <2>3 DEF FreshTmp
<1>12. Held(p)'
  BY <1>1, <1>2, <1>3, <1>5, <1>6, <1>7, <1>9, <1>10, <1>11, HeldKept DEF Replayed
<1>13. QED
  BY <1>1, <1>3, <1>8, <1>12, HeldOnly DEF OrderInv

\* Flushing the directory leaves the version in use.
LEMMA OrderSyncDir ==
  ASSUME WalInv, WalInv', GenInv, GenInv', OrderInv, NEW p \in Procs, CheckpointSyncDir(p)
  PROVE  OrderInv' /\ Ends
<1>1. /\ FilesOK /\ FilesOK' /\ LogInv /\ ProcOK /\ TypeOK /\ HolderInv /\ StepOf(p)
      /\ LogsOK /\ LogsOK' /\ SortedInv /\ VersionInv /\ HeldInv
  BY OrderFacts DEF StepOf
<1>2. /\ UNCHANGED <<file, issued, live, fd>> /\ pc[p] = "dirsync" /\ pc'[p] = "reopen" /\ dirs' = <<dir>>
      /\ dir' = dir
  BY <1>1 DEF CheckpointSyncDir, step, ProcOK, dir
<1>3. SortedInv' /\ Logs' = Logs /\ \A i \in 1..Len(dirs) : Down(dirs[i]["wal"])
  BY <1>1, <1>2, FilesKept
<1>4. Follows
  <2>1. Len(dirs) \in 1..Len(dirs) /\ dirs' = <<dirs[Len(dirs)]>>
    BY <1>1, <1>2 DEF LogsOK
  <2>2. QED
    BY <1>1, <2>1, OneFollows
<1>5. VersionInv' /\ Ends
  BY <1>1, <1>3, <1>4, FollowEnds
<1>6. Held(p)'
  <2>1. Held(p) /\ FreshTmp(p)'
    BY <1>1, <1>2 DEF HeldInv, FreshTmp
  <2>2. QED
    BY <1>1, <1>2, <1>3, <1>4, <2>1, HeldKept DEF Replayed
<1>7. QED
  BY <1>1, <1>3, <1>5, <1>6, HeldOnly DEF OrderInv

\* A checkpoint is written to a file that is no log yet.
LEMMA OrderCheckpointWrite ==
  ASSUME WalInv, WalInv', GenInv, GenInv', OrderInv, NEW p \in Procs, CheckpointWrite(p)
  PROVE  OrderInv' /\ Ends
<1>1. /\ FilesOK /\ FilesOK' /\ LogInv /\ ProcOK /\ TypeOK /\ InodesInv /\ StepOf(p)
      /\ LogsOK /\ LogsOK' /\ SortedInv /\ VersionInv /\ HeldInv
  BY OrderFacts DEF StepOf
<1> DEFINE new == [frames |-> <<Header, Frame(live[p])>>, synced |-> 2]
           m == inodes + 1
<1>2. /\ UNCHANGED <<fd, live, issued>> /\ pc[p] = "idle" /\ pc'[p] = "unlink"
      /\ inodes < MaxCheckpoints + 1 /\ dirOp([dir EXCEPT !["wal.tmp"] = m])
      /\ file' = [file EXCEPT ![m] = new]
  BY <1>1, InodeCount DEF CheckpointWrite, step, ProcOK
<1>3. dir \in [Names -> Inodes \cup {NoFile}] /\ inodes \in Nat /\ MaxCheckpoints \in Nat
  BY <1>1, DirKnown, InodeCount
<1>4. m \in Inodes /\ m \in Nat /\ \A n \in Nat : n <= inodes => n # m /\ n < m
  BY <1>2, <1>3 DEF Inodes
<1>5. file'[m] = new /\ \A n \in Inodes : n # m => file'[n] = file[n]
  BY <1>1, <1>2, <1>4 DEF FilesOK
<1> HIDE DEF m
<1>6. SortedInv'
  <2>1. new.frames[1].txs = {} /\ Len(new.frames) = 2
    BY DEF Header, Frame
  <2> HIDE DEF new
  <2>2. PICK c : c = new.frames
    OBVIOUS
  <2>3. \A i, j \in 1..2 : i < j => \A t \in c[i].txs, u \in c[j].txs : t < u
    <3>1. \A i, j \in 1..2 : i < j => i = 1
      OBVIOUS
    <3>2. QED
      BY <2>1, <2>2, <3>1
  <2>4. ASSUME NEW n \in Inodes PROVE Sorted(n)'
    <3>1. CASE n = m
      <4>1. PICK b : b = file'[n].frames
        OBVIOUS
      <4>2. b = c /\ Len(c) = 2
        BY <1>5, <2>1, <2>2, <3>1, <4>1
      <4>3. QED
        BY <2>3, <4>1, <4>2 DEF Sorted
    <3>2. CASE n # m
      <4>1. PICK b : b = file[n].frames
        OBVIOUS
      <4>2. file'[n].frames = b
        BY <1>5, <3>2, <4>1
      <4>3. \A i, j \in 1..Len(b) : i < j => \A t \in b[i].txs, u \in b[j].txs : t < u
        BY <1>1, <4>1 DEF SortedInv, Sorted
      <4>4. QED
        BY <4>2, <4>3 DEF Sorted
    <3>3. QED
      BY <3>1, <3>2
  <2>5. QED
    BY <2>4 DEF SortedInv
<1>7. \A n \in Inodes \cup {NoFile} : n <= inodes => Logs'[n] = Logs[n]
  <2>1. ASSUME NEW n \in Inodes \cup {NoFile}, n <= inodes PROVE Logs'[n] = Logs[n]
    <3>1. n # m
      BY <1>1, <1>4, <2>1 DEF LogsOK
    <3>2. n # NoFile => file'[n].frames = file[n].frames
      BY <1>5, <3>1
    <3>3. QED
      BY <3>2, SameFrames
  <2>2. QED
    BY <2>1
<1>8. /\ \A i \in 1..Len(dirs) : Logs'[dirs[i]["wal"]] = Logs[dirs[i]["wal"]]
      /\ fd[p] # NoFile => Logs'[fd[p]] = Logs[fd[p]]
  BY <1>1, <1>7 DEF LogsOK, InodesInv
<1>9. PICK d \in [Names -> Inodes \cup {NoFile}] : dirOp(d) /\ d["wal"] = dir["wal"] /\ d["wal.tmp"] = m
  <2> DEFINE d == [dir EXCEPT !["wal.tmp"] = m]
  <2>1. d \in [Names -> Inodes \cup {NoFile}] /\ d["wal"] = dir["wal"] /\ d["wal.tmp"] = m
    BY <1>3, <1>4 DEF Names
  <2>2. dirOp(d)
    BY <1>2
  <2> HIDE DEF d
  <2>3. QED
    BY <2>1, <2>2
<1>10. /\ Len(dirs') = Len(dirs) + 1 /\ dirs'[Len(dirs) + 1] = d /\ dir' = d
       /\ \A i \in 1..Len(dirs) : dirs'[i] = dirs[i]
  BY <1>1, <1>9, DirOpType DEF dir
<1>11. Follows
  BY <1>1, <1>9, <1>10, AddedFollows
<1>12. VersionInv' /\ Ends
  BY <1>1, <1>8, <1>11, SameDown, FollowEnds
<1>13. FreshTmp(p)'
  <2>1. SUFFICES ASSUME NEW i \in 1..Len(dirs') PROVE dirs'[i]["wal"] < m
    BY <1>9, <1>10 DEF FreshTmp
  <2>2. PICK k \in 1..Len(dirs) : dirs'[i]["wal"] = dirs[k]["wal"]
    <3>1. i <= i
      OBVIOUS
    <3>2. QED
      BY <1>11, <3>1 DEF Follows
  <2>3. dirs[k]["wal"] \in Nat /\ dirs[k]["wal"] <= inodes
    BY <1>1 DEF LogsOK
  <2>4. QED
    BY <1>4, <2>2, <2>3
<1>14. Held(p)'
  <2>1. Held(p)
    BY <1>1 DEF HeldInv
  <2>2. QED
    BY <1>1, <1>2, <1>8, <1>9, <1>10, <1>11, <1>13, <2>1, HeldKept DEF Replayed
<1>15. QED
  BY <1>1, <1>6, <1>12, <1>14, HeldOnly DEF OrderInv

\* The rename: what the log had and the checkpoint does not describe is later
\* than all that the checkpoint describes.
LEMMA OrderRename ==
  ASSUME WalInv, WalInv', GenInv, GenInv', OrderInv, NEW p \in Procs, CheckpointRename(p)
  PROVE  OrderInv' /\ Ends
<1>1. /\ FilesOK /\ FilesOK' /\ LogInv /\ ProcOK /\ TypeOK /\ HolderInv /\ StepOf(p)
      /\ LogsOK /\ LogsOK' /\ SortedInv /\ VersionInv /\ HeldInv
  BY OrderFacts DEF StepOf
<1>2. /\ UNCHANGED <<file, issued, live, fd>> /\ pc[p] = "rename" /\ pc'[p] = "dirsync"
      /\ dirOp([dir EXCEPT !["wal"] = dir["wal.tmp"], !["wal.tmp"] = NoFile])
  BY <1>1 DEF CheckpointRename, step, ProcOK
<1>3. SortedInv' /\ Logs' = Logs
  BY <1>1, <1>2, FilesKept
<1>4. dir \in [Names -> Inodes \cup {NoFile}]
  BY <1>1, DirType
<1>5. PICK n \in Inodes \cup {NoFile} : n = dir["wal.tmp"]
  BY <1>4 DEF Names
<1>6. PICK d \in [Names -> Inodes \cup {NoFile}] : dirOp(d) /\ d["wal"] = n
  <2> DEFINE d == [dir EXCEPT !["wal"] = dir["wal.tmp"], !["wal.tmp"] = NoFile]
  <2>1. d \in [Names -> Inodes \cup {NoFile}] /\ d["wal"] = n
    BY <1>4, <1>5 DEF Names
  <2>2. dirOp(d)
    BY <1>2
  <2> HIDE DEF d
  <2>3. QED
    BY <2>1, <2>2
<1>7. /\ Len(dirs') = Len(dirs) + 1 /\ dirs'[Len(dirs) + 1] = d /\ dir' = d
      /\ \A i \in 1..Len(dirs) : dirs'[i] = dirs[i]
  BY <1>1, <1>6, DirOpType DEF dir
<1>8. Len(dirs) \in Nat /\ \A i \in 1..Len(dirs') : i \in 1..Len(dirs) \/ i = Len(dirs) + 1
  BY <1>1, <1>7 DEF LogsOK
<1>9. Logs[n] = live[p] /\ Recoverable' = live[p]
  <2>1. Describes(n, live[p])
    BY <1>1, <1>2, <1>5 DEF HolderInv, Described
  <2>2. Logs[n] = live[p]
    BY <2>1, DescribedLog
  <2>3. QED
    BY <1>1, <1>3, <1>6, <1>7, <2>2 DEF LogsOK
<1>10. FreshTmp(p) /\ LiveAgrees(p) /\ LiveFirst(p) /\ InLog(p) /\ Covers(p)
  BY <1>1 DEF HeldInv, Held
<1>11. \A i \in 1..Len(dirs) : dirs[i]["wal"] <= n /\ Agree(Logs[dirs[i]["wal"]], live[p])
  <2>1. \A i \in 1..Len(dirs) : dirs[i]["wal"] < n /\ dirs[i]["wal"] \in Nat /\ n \in Nat
    BY <1>1, <1>2, <1>5, <1>10 DEF FreshTmp, LogsOK
  <2>2. QED
    BY <1>2, <1>10, <2>1 DEF LiveAgrees, Replayed
<1>12. VersionInv'
  <2>1. SUFFICES ASSUME NEW i \in 1..Len(dirs'), NEW j \in 1..Len(dirs'), i < j
                 PROVE  dirs'[i]["wal"] <= dirs'[j]["wal"] /\ Agree(Logs[dirs'[i]["wal"]], Logs[dirs'[j]["wal"]])
    BY <1>3 DEF VersionInv, Agree
  <2>2. i \in 1..Len(dirs)
    BY <1>8, <2>1, <1>7
  <2>3. CASE j \in 1..Len(dirs)
    BY <1>1, <1>7, <2>1, <2>2, <2>3 DEF VersionInv
  <2>4. CASE j = Len(dirs) + 1
    BY <1>6, <1>7, <1>9, <1>11, <2>2, <2>4
  <2>5. QED
    BY <1>8, <2>3, <2>4
<1>13. Ends
  BY <1>2, <1>9, <1>10 DEF Ends, LiveFirst, Replayed
<1>14. LiveAgrees(p)'
  <2>1. SUFFICES ASSUME NEW i \in 1..Len(dirs') PROVE Agree(Logs[dirs'[i]["wal"]], live[p])
    BY <1>2, <1>3 DEF LiveAgrees, Agree
  <2>2. CASE i \in 1..Len(dirs)
    BY <1>7, <1>11, <2>2
  <2>3. CASE i = Len(dirs) + 1
    BY <1>6, <1>7, <1>9, <2>3 DEF Agree
  <2>4. QED
    BY <1>8, <2>2, <2>3
<1>15. LiveFirst(p)' /\ InLog(p)' /\ FreshTmp(p)' /\ Fronted(p)'
  BY <1>2, <1>3, <1>9, <1>10 DEF LiveFirst, InLog, FreshTmp, Fronted, Replayed
<1>16. Covers(p)'
  <2>1. SUFFICES ASSUME fd[p] # NoFile, NEW i \in 1..Len(dirs'), NEW j \in 1..Len(dirs'), i < j, dirs'[i]["wal"] = fd[p]
                 PROVE  Logs[dirs'[j]["wal"]] \subseteq Logs[fd[p]]
    BY <1>2, <1>3 DEF Covers
  <2>2. i \in 1..Len(dirs)
    BY <1>8, <2>1, <1>7
  <2>3. CASE j \in 1..Len(dirs)
    BY <1>2, <1>7, <1>10, <2>1, <2>2, <2>3 DEF Covers, Opened, Steps
  <2>4. CASE j = Len(dirs) + 1
    BY <1>2, <1>6, <1>7, <1>9, <1>10, <2>1, <2>4 DEF InLog, Replayed
  <2>5. QED
    BY <1>8, <2>3, <2>4
<1>17. QED
  BY <1>1, <1>3, <1>12, <1>13, <1>14, <1>15, <1>16, HeldOnly DEF OrderInv, Held

\* Opening the log creates it only when no version of the directory has one.
LEMMA OrderOpenFile ==
  ASSUME WalInv, WalInv', GenInv, GenInv', OrderInv, NEW p \in Procs, OpenFile(p)
  PROVE  OrderInv' /\ Ends
<1>1. /\ FilesOK /\ FilesOK' /\ LogInv /\ ProcOK /\ TypeOK /\ InodesInv /\ StepOf(p)
      /\ LogsOK /\ LogsOK' /\ SortedInv /\ VersionInv /\ HeldInv
  BY OrderFacts DEF StepOf
<1>2. UNCHANGED <<file, live, issued>> /\ pc'[p] \in {"header", "replay"}
  BY <1>1 DEF OpenFile, step, ProcOK
<1>3. SortedInv' /\ Logs' = Logs /\ \A i \in 1..Len(dirs) : Down(dirs[i]["wal"])
  BY <1>1, <1>2, FilesKept
<1>4. FreshTmp(p)' /\ LiveAgrees(p)' /\ LiveFirst(p)' /\ InLog(p)'
  BY <1>2 DEF FreshTmp, LiveAgrees, LiveFirst, InLog, Replayed
<1>5. CASE dir["wal"] # NoFile
  <2>1. dirs' = dirs /\ dir' = dir /\ fd'[p] = dir["wal"]
    BY <1>1, <1>5 DEF OpenFile, ProcOK, dir
  <2>2. Follows
    BY <2>1, StillFollows
  <2>3. VersionInv' /\ Ends
    BY <1>1, <1>3, <2>2, FollowEnds
  <2>4. Fronted(p)'
    BY <2>1 DEF Fronted
  <2>5. Covers(p)'
    <3>1. \A i, j \in 1..Len(dirs) : i < j /\ dirs[i]["wal"] = dir["wal"] => dirs[j]["wal"] = dir["wal"]
      BY <1>1, SameBetween
    <3>2. QED
      BY <1>3, <2>1, <3>1 DEF Covers
  <2>6. QED
    BY <1>1, <1>3, <1>4, <2>3, <2>4, <2>5, HeldOnly DEF OrderInv, Held
<1>6. CASE dir["wal"] = NoFile
  <2> DEFINE m == inodes + 1
  <2>1. /\ dir \in [Names -> Inodes \cup {NoFile}] /\ Len(dirs) \in 1..Len(dirs) /\ Len(dirs) \in Nat
        /\ inodes \in Nat /\ MaxCheckpoints \in Nat
    BY <1>1, DirKnown, DirType, InodeCount
  <2>2. inodes < MaxCheckpoints + 1 /\ dirOp([dir EXCEPT !["wal"] = m]) /\ fd'[p] = m
    BY <1>1, <1>6, InodeCount DEF OpenFile, ProcOK
  <2>3. PICK n \in Inodes : n = m /\ n \in Nat /\ n # 0
    BY <2>1, <2>2 DEF Inodes
  <2> HIDE DEF m
  <2>4. PICK d \in [Names -> Inodes \cup {NoFile}] : dirOp(d) /\ d["wal"] = n
    <3> DEFINE d == [dir EXCEPT !["wal"] = m]
    <3>1. d \in [Names -> Inodes \cup {NoFile}] /\ d["wal"] = n
      BY <2>1, <2>3 DEF Names
    <3>2. dirOp(d)
      BY <2>2
    <3> HIDE DEF d
    <3>3. QED
      BY <3>1, <3>2
  <2>5. /\ Len(dirs') = Len(dirs) + 1 /\ dirs'[Len(dirs) + 1] = d /\ dir' = d
        /\ \A i \in 1..Len(dirs) : dirs'[i] = dirs[i]
    BY <1>1, <2>4, DirOpType DEF dir
  <2>6. \A i \in 1..Len(dirs) : dirs[i]["wal"] = NoFile /\ Logs[dirs[i]["wal"]] = {}
    <3>1. ASSUME NEW i \in 1..Len(dirs) PROVE dirs[i]["wal"] = NoFile
      <4>1. dirs[i]["wal"] <= dir["wal"]
        <5>1. CASE i = Len(dirs)
          BY <1>1, <5>1 DEF LogsOK
        <5>2. CASE i # Len(dirs)
          <6>1. i < Len(dirs)
            BY <2>1, <5>2
          <6>2. QED
            BY <1>1, <2>1, <6>1 DEF VersionInv, dir
        <5>3. QED
          BY <5>1, <5>2
      <4>2. dirs[i]["wal"] \in Nat
        BY <1>1 DEF LogsOK
      <4>3. QED
        BY <1>6, <4>1, <4>2 DEF NoFile
    <3>2. QED
      BY <1>1, <3>1 DEF LogsOK
  <2>7. ASSUME NEW i \in 1..Len(dirs'), NEW j \in 1..Len(dirs'), i < j
        PROVE  dirs'[i]["wal"] = NoFile /\ i \in 1..Len(dirs) /\ (j \in 1..Len(dirs) \/ dirs'[j]["wal"] = n)
    <3>1. i \in 1..Len(dirs) /\ (j \in 1..Len(dirs) \/ j = Len(dirs) + 1)
      BY <2>1, <2>5, <2>7
    <3>2. QED
      BY <2>4, <2>5, <2>6, <3>1
  <2>8. VersionInv'
    <3>1. SUFFICES ASSUME NEW i \in 1..Len(dirs'), NEW j \in 1..Len(dirs'), i < j
                   PROVE  dirs'[i]["wal"] <= dirs'[j]["wal"] /\ Agree(Logs[dirs'[i]["wal"]], Logs[dirs'[j]["wal"]])
      BY <1>3 DEF VersionInv, Agree
    <3>2. dirs'[i]["wal"] = NoFile /\ (j \in 1..Len(dirs) \/ dirs'[j]["wal"] = n)
      BY <2>7, <3>1
    <3>3. Agree(Logs[dirs'[i]["wal"]], Logs[dirs'[j]["wal"]])
      BY <1>1, <3>2 DEF Agree, LogsOK
    <3>4. dirs'[j]["wal"] \in Nat /\ NoFile = 0
      BY <2>3, <2>5, <3>2, <1>1 DEF LogsOK
    <3>5. QED
      BY <3>2, <3>3, <3>4
  <2>9. Ends
    <3>1. Recoverable = {}
      BY <1>1, <1>6 DEF LogsOK
    <3>2. QED
      BY <3>1 DEF Ends
  <2>10. Fronted(p)' /\ Covers(p)'
    <3>1. Fronted(p)'
      BY <2>2, <2>3, <2>4, <2>5 DEF Fronted
    <3>2. Covers(p)'
      <4>1. \A i, j \in 1..Len(dirs') : i < j => dirs'[i]["wal"] # fd'[p]
        BY <2>2, <2>3, <2>7 DEF NoFile
      <4>2. QED
        BY <4>1 DEF Covers
    <3>3. QED
      BY <3>1, <3>2
  <2>11. QED
    BY <1>1, <1>3, <1>4, <2>8, <2>9, <2>10, HeldOnly DEF OrderInv, Held
<1>7. QED
  BY <1>5, <1>6

\* Appending what was not written before keeps the transactions in order.
LEMMA AppendSorted ==
  ASSUME FilesOK, TypeOK, Written, SortedInv, issued \in Nat, NEW n \in Inodes, NEW fr \in Frames, append(n, fr),
         \A u \in fr.txs : u \in Nat /\ issued < u
  PROVE  SortedInv'
<1>0. PICK b : b = file'[n].frames
  OBVIOUS
<1>1. PICK a \in Seq(Frames) : a = file[n].frames
  BY FileType
<1>2. /\ \A m \in Inodes : m # n => file'[m] = file[m]
      /\ Len(b) = Len(a) + 1 /\ Len(a) \in Nat
      /\ \A i \in 1..Len(a) : b[i] = a[i]
      /\ b[Len(a) + 1] = fr
  <2>1. /\ \A m \in Inodes : m # n => file'[m] = file[m]
        /\ Len(file'[n].frames) = Len(file[n].frames) + 1
        /\ \A i \in 1..Len(file[n].frames) : file'[n].frames[i] = file[n].frames[i]
        /\ file'[n].frames[Len(file[n].frames) + 1] = fr
        /\ Len(file[n].frames) \in Nat
    BY AppendType, FileType
  <2>2. QED
    BY <1>0, <1>1, <2>1, Zenon
<1>3. \A i, j \in 1..Len(a) : i < j => \A t \in a[i].txs, u \in a[j].txs : t < u
  BY <1>1 DEF SortedInv, Sorted
<1>4. \A i \in 1..Len(a) : \A t \in a[i].txs : t \in Nat /\ t <= issued
  <2>1. \A i \in 1..Len(a) : a[i].txs \subseteq 1..issued
    BY <1>1 DEF Written
  <2>2. \A t \in 1..issued : t \in Nat /\ t <= issued
    OBVIOUS
  <2>3. QED
    BY <2>1, <2>2
<1>5. ASSUME NEW i \in 1..Len(b), NEW j \in 1..Len(b), i < j, NEW t \in b[i].txs, NEW u \in b[j].txs PROVE t < u
  <2>1. i \in 1..Len(a) /\ (j \in 1..Len(a) \/ j = Len(a) + 1)
    BY <1>2, <1>5
  <2>2. t \in a[i].txs
    BY <1>2, <1>5, <2>1
  <2>3. CASE j \in 1..Len(a)
    BY <1>2, <1>3, <1>5, <2>1, <2>2, <2>3
  <2>4. CASE j = Len(a) + 1
    <3>1. u \in fr.txs
      BY <1>2, <1>5, <2>4
    <3>2. QED
      BY <1>4, <2>1, <2>2, <3>1
  <2>5. QED
    BY <2>1, <2>3, <2>4
<1>6. ASSUME NEW m \in Inodes PROVE Sorted(m)'
  <2>1. CASE m = n
    BY <1>0, <1>5, <2>1 DEF Sorted
  <2>2. CASE m # n
    <3>1. PICK c : c = file[m].frames
      OBVIOUS
    <3>2. file'[m].frames = c
      BY <1>2, <2>2, <3>1
    <3>3. \A i, j \in 1..Len(c) : i < j => \A t \in c[i].txs, u \in c[j].txs : t < u
      BY <3>1 DEF SortedInv, Sorted
    <3>4. QED
      BY <3>2, <3>3 DEF Sorted
  <2>3. QED
    BY <2>1, <2>2
<1>7. QED
  BY <1>6 DEF SortedInv

\* Appending a header, a transaction or a torn frame.
LEMMA OrderAppend ==
  ASSUME WalInv, WalInv', GenInv, GenInv', OrderInv, NEW p \in Procs,
         WriteHeader(p) \/ WriteAppend(p) \/ WriteAppendFails(p)
  PROVE  OrderInv' /\ Ends
<1>1. /\ FilesOK /\ FilesOK' /\ LogInv /\ ProcOK /\ HandleInv /\ HolderInv /\ TypeOK /\ StepOf(p) /\ Written
      /\ LogsOK /\ LogsOK' /\ SortedInv /\ VersionInv /\ HeldInv
  BY OrderFacts DEF StepOf
<1>2. UNCHANGED <<dirs, live>> /\ dir' = dir
  BY DEF WriteHeader, WriteAppend, WriteAppendFails, dir
<1>3. PICK n \in Inodes : n = fd[p]
  BY <1>1 DEF WriteHeader, WriteAppend, WriteAppendFails, step, ProcOK, HandleInv
<1>4. FreshTmp(p) /\ Fronted(p) /\ LiveAgrees(p) /\ LiveFirst(p) /\ InLog(p) /\ Covers(p) /\ Whole(p)
  BY <1>1 DEF HeldInv, Held, HolderInv
<1>5. issued \in Nat /\ MaxWrites \in Nat
  BY <1>1, WalAssumption DEF ProcOK
<1>6. Follows
  BY <1>2, StillFollows
<1>7. CASE WriteHeader(p)
  <2>1. /\ append(n, Header) /\ issued' = issued /\ fd' = fd /\ pc[p] = "header" /\ pc'[p] = "replay"
    BY <1>1, <1>3, <1>7 DEF WriteHeader, step, ProcOK
  <2>2. Header \in Frames /\ Header.txs = {}
    BY DEF Header, Frame, Frames
  <2>3. SortedInv'
    BY <1>1, <1>5, <2>1, <2>2, AppendSorted
  <2>4. \A m \in Inodes \cup {NoFile} : Logs'[m] = Logs[m]
    <3>1. PICK fr \in Frames : append(n, fr) /\ fr.txs = {}
      BY <2>1, <2>2
    <3>2. /\ \A m \in Inodes \cup {NoFile} : m # n => Logs'[m] = Logs[m]
          /\ Logs[n] \subseteq Logs'[n] /\ Logs'[n] \subseteq Logs[n] \cup fr.txs
      BY <1>1, <3>1, AppendLogs
    <3>3. Logs'[n] = Logs[n]
      BY <3>1, <3>2
    <3>4. QED
      BY <3>2, <3>3
  <2>5. VersionInv' /\ Ends
    <3>1. \A i \in 1..Len(dirs) : Down(dirs[i]["wal"])
      BY <1>1, <2>4, SameDown DEF LogsOK
    <3>2. QED
      BY <1>1, <1>6, <3>1, FollowEnds
  <2>6. FreshTmp(p)' /\ LiveAgrees(p)' /\ LiveFirst(p)' /\ InLog(p)' /\ Fronted(p)'
    BY <1>2, <1>4, <2>1 DEF FreshTmp, LiveAgrees, LiveFirst, InLog, Fronted, Replayed
  <2>7. Covers(p)'
    BY <1>1, <1>2, <1>3, <1>4, <2>1, <2>4 DEF Covers, Opened, Steps, LogsOK
  <2>8. QED
    BY <1>1, <2>3, <2>5, <2>6, <2>7, HeldOnly DEF OrderInv, Held
<1>8. CASE WriteAppend(p)
  <2>1. /\ append(n, Frame({issued + 1})) /\ issued' = issued + 1 /\ fd' = fd /\ issued < MaxWrites
        /\ pc[p] = "idle" /\ pc'[p] = "flush" /\ n # NoFile
    BY <1>1, <1>3, <1>8 DEF WriteAppend, step, ProcOK
  <2>2. PICK fr \in Frames : append(n, fr) /\ fr.txs = {issued'} /\ fr.ok
    <3>1. {issued + 1} \in SUBSET Txs
      BY <1>5, <2>1 DEF Txs
    <3> HIDE DEF Txs
    <3>2. Frame({issued + 1}) \in Frames /\ Frame({issued + 1}).txs = {issued + 1} /\ Frame({issued + 1}).ok
      BY <3>1 DEF Frame, Frames
    <3>3. QED
      BY <2>1, <3>2
  <2>3. PICK new \in Nat : new = issued' /\ issued < new /\ \A t \in 1..issued : t < new /\ t \in Nat
    BY <1>5, <2>1
  <2>4. SortedInv'
    BY <1>1, <1>5, <2>2, <2>3, AppendSorted
  <2>5. /\ \A m \in Inodes \cup {NoFile} : m # n => Logs'[m] = Logs[m]
        /\ Logs'[n] = Logs[n] \cup {new}
    <3>1. \A i \in 1..Len(file[n].frames) : file[n].frames[i].ok
      BY <1>3, <1>4, <2>1 DEF Whole, Replayed
    <3>2. QED
      BY <1>1, <2>2, <2>3, <3>1, AppendLogs
  <2>6. \A i \in 1..Len(dirs) : /\ Logs[dirs[i]["wal"]] \subseteq 1..issued
                                /\ Logs[dirs[i]["wal"]] \subseteq Logs'[dirs[i]["wal"]]
                                /\ Logs'[dirs[i]["wal"]] \subseteq Logs[dirs[i]["wal"]] \cup {new}
                                /\ dirs[i]["wal"] # n => new \notin Logs'[dirs[i]["wal"]]
    <3>1. \A i \in 1..Len(dirs) : dirs[i]["wal"] \in Inodes \cup {NoFile} /\ Logs[dirs[i]["wal"]] \subseteq 1..issued
      BY <1>1 DEF LogsOK
    <3>2. new \notin 1..issued
      BY <2>3
    <3>3. QED
      BY <2>5, <3>1, <3>2
  <2>7. VersionInv'
    <3>1. SUFFICES ASSUME NEW i \in 1..Len(dirs), NEW j \in 1..Len(dirs), i < j,
                          NEW u \in Logs'[dirs[i]["wal"]], NEW t \in Logs'[dirs[j]["wal"]], t < u
                   PROVE  t \in Logs'[dirs[i]["wal"]]
      BY <1>1, <1>2 DEF VersionInv, Agree
    <3>2. t # new
      <4>1. u = new \/ u \in 1..issued
        BY <2>6
      <4>2. u \in Nat /\ u <= new
        BY <2>3, <4>1
      <4>3. QED
        BY <3>1, <4>2
    <3>3. t \in Logs[dirs[j]["wal"]]
      BY <2>6, <3>2
    <3>4. CASE u # new
      BY <1>1, <2>6, <3>1, <3>3, <3>4 DEF VersionInv, Agree
    <3>5. CASE u = new
      <4>1. dirs[i]["wal"] = n
        BY <2>6, <3>5
      <4>2. Logs[dirs[j]["wal"]] \subseteq Logs[n]
        BY <1>3, <1>4, <2>1, <3>1, <4>1 DEF Covers, Opened, Steps
      <4>3. QED
        BY <2>5, <3>3, <4>1, <4>2
    <3>6. QED
      BY <3>4, <3>5
  <2>8. Recoverable \subseteq Recoverable' /\ Recoverable' \subseteq Recoverable \cup {new}
    BY <1>1, <1>2, <2>6 DEF LogsOK
  <2>9. Ends
    BY <2>8 DEF Ends
  <2>10. live[p] \subseteq 1..issued /\ live[p] \subseteq Logs[n]
    BY <1>1, <1>3, <1>4, <2>1 DEF InLog, Replayed, LogsOK
  <2>11. LiveAgrees(p)'
    <3>1. SUFFICES ASSUME NEW i \in 1..Len(dirs), NEW u \in Logs'[dirs[i]["wal"]], NEW t \in live[p], t < u
                   PROVE  t \in Logs'[dirs[i]["wal"]]
      BY <1>2 DEF LiveAgrees, Agree
    <3>2. CASE u # new
      BY <1>4, <2>1, <2>6, <3>1, <3>2 DEF LiveAgrees, Agree, Replayed
    <3>3. CASE u = new
      BY <2>5, <2>6, <2>10, <3>3
    <3>4. QED
      BY <3>2, <3>3
  <2>12. LiveFirst(p)'
    <3>1. SUFFICES ASSUME NEW m \in Recoverable' \ live[p] PROVE m = new
      BY <1>2, <2>1, <2>3, <2>10 DEF LiveFirst
    <3>2. m \notin Recoverable
      BY <1>3, <1>4, <2>1 DEF LiveFirst, Replayed
    <3>3. QED
      BY <2>8, <3>2
  <2>13. InLog(p)' /\ FreshTmp(p)' /\ Fronted(p)'
    BY <1>2, <1>3, <2>1, <2>5, <2>10 DEF InLog, FreshTmp, Fronted
  <2>14. Covers(p)'
    <3>1. SUFFICES ASSUME NEW i \in 1..Len(dirs), NEW j \in 1..Len(dirs), i < j, dirs[i]["wal"] = n
                   PROVE  Logs'[dirs[j]["wal"]] \subseteq Logs'[n]
      BY <1>2, <1>3, <2>1 DEF Covers
    <3>2. Logs[dirs[j]["wal"]] \subseteq Logs[n]
      BY <1>3, <1>4, <2>1, <3>1 DEF Covers, Opened, Steps
    <3>3. QED
      BY <2>5, <2>6, <3>2
  <2>15. QED
    BY <1>1, <2>4, <2>7, <2>9, <2>11, <2>12, <2>13, <2>14, HeldOnly DEF OrderInv, Held
<1>9. CASE WriteAppendFails(p)
  <2>1. /\ append(n, [Frame({issued + 1}) EXCEPT !.ok = FALSE]) /\ fd' = [fd EXCEPT ![p] = NoFile] /\ issued < MaxWrites
        /\ pc[p] = "idle" /\ pc'[p] = "idle" /\ n # NoFile
    BY <1>1, <1>3, <1>9 DEF WriteAppendFails, ProcOK
  <2>2. PICK fr \in Frames : append(n, fr) /\ fr.txs = {issued + 1} /\ ~fr.ok
    <3>1. {issued + 1} \in SUBSET Txs
      BY <1>5, <2>1 DEF Txs
    <3> HIDE DEF Txs
    <3>2. /\ [Frame({issued + 1}) EXCEPT !.ok = FALSE] \in Frames
          /\ [Frame({issued + 1}) EXCEPT !.ok = FALSE].txs = {issued + 1}
          /\ ~[Frame({issued + 1}) EXCEPT !.ok = FALSE].ok
      BY <3>1 DEF Frame, Frames
    <3>3. QED
      BY <2>1, <3>2
  <2>3. SortedInv'
    BY <1>1, <1>5, <2>2, AppendSorted
  <2>4. \A m \in Inodes \cup {NoFile} : Logs'[m] = Logs[m]
    BY <1>1, <2>2, AppendLogs
  <2>5. VersionInv' /\ Ends
    <3>1. \A i \in 1..Len(dirs) : Down(dirs[i]["wal"])
      BY <1>1, <2>4, SameDown DEF LogsOK
    <3>2. QED
      BY <1>1, <1>6, <3>1, FollowEnds
  <2>6. Recoverable' = Recoverable /\ \A i \in 1..Len(dirs) : Logs'[dirs[i]["wal"]] = Logs[dirs[i]["wal"]]
    BY <1>1, <1>2, <2>4 DEF LogsOK
  <2>7. fd'[p] = NoFile
    BY <1>1, <2>1 DEF ProcOK
  <2>8. FreshTmp(p)' /\ Fronted(p)' /\ LiveFirst(p)' /\ InLog(p)' /\ Covers(p)'
    BY <1>2, <1>4, <2>1, <2>6, <2>7 DEF FreshTmp, Fronted, LiveFirst, InLog, Covers, Replayed
  <2>9. LiveAgrees(p)'
    BY <1>2, <1>4, <2>1, <2>6 DEF LiveAgrees, Agree, Replayed
  <2>10. QED
    BY <1>1, <2>3, <2>5, <2>8, <2>9, HeldOnly DEF OrderInv, Held
<1>10. QED
  BY <1>7, <1>8, <1>9

\* After a replay the process holds what the log has.
LEMMA OrderReplay ==
  ASSUME WalInv, WalInv', GenInv, GenInv', OrderInv, NEW p \in Procs, Replay(p)
  PROVE  OrderInv' /\ Ends
<1>1. /\ FilesOK /\ FilesOK' /\ LogInv /\ ProcOK /\ HandleInv /\ StepOf(p) /\ Written
      /\ LogsOK /\ LogsOK' /\ SortedInv /\ VersionInv /\ HeldInv
  BY OrderFacts DEF StepOf
<1>2. /\ UNCHANGED <<dirs, dir, fd, issued>> /\ pc[p] = "replay" /\ pc'[p] = "idle" /\ live'[p] = replayed(fd[p])
  BY <1>1 DEF Replay, step, ProcOK, dir
<1>3. PICK n \in Inodes : n = fd[p]
  BY <1>1, <1>2 DEF ProcOK, HandleInv
<1>4. Fronted(p) /\ Covers(p)
  BY <1>1 DEF HeldInv, Held
<1>5. Logs' = Logs /\ \A m \in Inodes : Shrinks(m)
  BY <1>1, <1>3, ReplayLogs, ReplayShrinks
<1>6. SortedInv' /\ \A i \in 1..Len(dirs) : Down(dirs[i]["wal"])
  BY <1>1, <1>5, FilesShrunk
<1>7. VersionInv' /\ Ends
  BY <1>1, <1>2, <1>6, StillFollows, FollowEnds
<1>8. n = dir["wal"] /\ live'[p] = Logs[n] /\ Recoverable' = live'[p]
  <2>1. n = dir["wal"]
    BY <1>2, <1>3, <1>4 DEF Fronted
  <2>2. live'[p] = Logs[n]
    BY <1>2, <1>3 DEF Logs
  <2>3. QED
    BY <1>1, <1>2, <1>5, <2>1, <2>2 DEF LogsOK
<1>9. LiveAgrees(p)'
  <2>1. SUFFICES ASSUME NEW i \in 1..Len(dirs) PROVE Agree(Logs[dirs[i]["wal"]], Logs[dir["wal"]])
    BY <1>2, <1>5, <1>8 DEF LiveAgrees, Agree
  <2>2. Len(dirs) \in 1..Len(dirs) /\ Len(dirs) \in Nat /\ dir = dirs[Len(dirs)]
    BY <1>1 DEF LogsOK
  <2>3. CASE i < Len(dirs)
    BY <1>1, <2>2, <2>3 DEF VersionInv
  <2>4. CASE i = Len(dirs)
    BY <2>2, <2>4 DEF Agree
  <2>5. QED
    BY <2>2, <2>3, <2>4
<1>10. LiveFirst(p)' /\ InLog(p)' /\ FreshTmp(p)' /\ Fronted(p)'
  BY <1>2, <1>3, <1>5, <1>8 DEF LiveFirst, InLog, FreshTmp, Fronted
<1>11. Covers(p)'
  BY <1>2, <1>4, <1>5 DEF Covers, Opened, Steps
<1>12. QED
  BY <1>1, <1>6, <1>7, <1>9, <1>10, <1>11, HeldOnly DEF OrderInv, Held

\* What a flush, or none, leaves: the logs, and the last version of the directory.
LEMMA FlushFollows ==
  ASSUME FilesOK, FilesOK', TypeOK, Written, LogsOK, LogsOK', SortedInv, VersionInv, NEW n \in Inodes,
         flush(n) \/ UNCHANGED <<file, dirs>>
  PROVE  /\ SortedInv' /\ VersionInv' /\ Ends /\ Follows /\ dir' = dir
         /\ \A m \in Inodes \cup {NoFile} : Logs'[m] = Logs[m]
<1>1. /\ \A m \in Inodes : file'[m].frames = file[m].frames /\ Shrinks(m)
      /\ dirs' = <<dir>> \/ dirs' = dirs
      /\ dir' = dir
  <2>1. CASE flush(n)
    BY <2>1, FlushType, FlushShrinks
  <2>2. CASE UNCHANGED <<file, dirs>>
    BY <2>2, SameShrinks DEF dir
  <2>3. QED
    BY <2>1, <2>2
<1>2. \A m \in Inodes \cup {NoFile} : Logs'[m] = Logs[m]
  BY <1>1, SameFrames
<1>3. SortedInv' /\ \A i \in 1..Len(dirs) : Down(dirs[i]["wal"])
  BY <1>1, FilesShrunk
<1>4. Follows
  <2>1. Len(dirs) \in 1..Len(dirs) /\ dir = dirs[Len(dirs)]
    BY DEF LogsOK
  <2>2. QED
    BY <1>1, <2>1, OneFollows, StillFollows
<1>5. VersionInv' /\ Ends
  BY <1>3, <1>4, FollowEnds
<1>6. QED
  BY <1>1, <1>2, <1>3, <1>4, <1>5

\* When Write returns the process holds all that the log has.
LEMMA OrderWriteReturns ==
  ASSUME WalInv, WalInv', GenInv, GenInv', OrderInv, NEW p \in Procs, WriteReturns(p)
  PROVE  OrderInv' /\ Ends
<1>1. /\ FilesOK /\ FilesOK' /\ LogInv /\ ProcOK /\ HandleInv /\ HolderInv /\ TypeOK /\ StepOf(p) /\ Written
      /\ LogsOK /\ LogsOK' /\ SortedInv /\ VersionInv /\ HeldInv
  BY OrderFacts DEF StepOf
<1>2. /\ UNCHANGED <<fd, issued>> /\ pc[p] = "flush" /\ pc'[p] = "idle" /\ live'[p] = live[p] \cup {issued}
  BY <1>1 DEF WriteReturns, step, ProcOK
<1>3. PICK n \in Inodes : n = fd[p] /\ n # NoFile
  BY <1>1, <1>2 DEF ProcOK, HandleInv
<1>4. /\ SortedInv' /\ VersionInv' /\ Ends /\ Follows /\ dir' = dir
      /\ \A m \in Inodes \cup {NoFile} : Logs'[m] = Logs[m]
  <2>1. flush(n) \/ UNCHANGED <<file, dirs>>
    BY <1>3 DEF WriteReturns
  <2>2. QED
    BY <1>1, <2>1, FlushFollows
<1>5. /\ \A i \in 1..Len(dirs) : Logs'[dirs[i]["wal"]] = Logs[dirs[i]["wal"]]
      /\ Recoverable' = Recoverable /\ Logs'[n] = Logs[n]
      /\ \A m \in Inodes \cup {NoFile} : Logs'[m] \subseteq 1..issued
  BY <1>1, <1>2, <1>4 DEF LogsOK
<1>6. LiveAgrees(p) /\ LiveFirst(p) /\ InLog(p) /\ Covers(p) /\ Whole(p) /\ AtEnd(p)
  BY <1>1 DEF HeldInv, Held, HolderInv
<1>7. LiveAgrees(p)'
  <2>1. SUFFICES ASSUME NEW i \in 1..Len(dirs'), NEW u \in Logs'[dirs'[i]["wal"]],
                        NEW t \in live[p] \cup {issued}, t < u
                 PROVE  t \in Logs'[dirs'[i]["wal"]]
    BY <1>2 DEF LiveAgrees, Agree
  <2>2. PICK k \in 1..Len(dirs) : dirs'[i]["wal"] = dirs[k]["wal"]
    <3>1. i <= i
      BY <1>1 DEF LogsOK
    <3>2. QED
      BY <1>4, <3>1 DEF Follows
  <2>3. t # issued
    <3>1. u \in 1..issued /\ issued \in Nat
      BY <1>1, <1>5, <2>2 DEF LogsOK
    <3>2. QED
      BY <2>1, <3>1
  <2>4. QED
    BY <1>2, <1>5, <1>6, <2>1, <2>2, <2>3 DEF LiveAgrees, Agree, Replayed
<1>8. LiveFirst(p)'
  <2>1. ASSUME NEW m \in Recoverable' \ live'[p] PROVE FALSE
    BY <1>2, <1>3, <1>5, <1>6, <2>1 DEF LiveFirst, Replayed
  <2>2. QED
    BY <2>1 DEF LiveFirst
<1>9. InLog(p)'
  <2>1. issued \in Logs[n]
    <3>1. PICK a \in Seq(Frames) : a = file[n].frames
      BY <1>1, FileType
    <3>2. /\ Len(a) \in 1..Len(a) /\ a[Len(a)].txs = {issued} /\ \A i \in 1..Len(a) : a[i].ok
      BY <1>1, <1>2, <1>3, <1>6, <3>1, FileType DEF AtEnd, Whole, Replayed
    <3>3. Len(a) \in good(a)
      BY <3>2 DEF good
    <3>4. QED
      BY <3>1, <3>2, <3>3, InReplayed
  <2>2. live[p] \subseteq Logs[n]
    BY <1>2, <1>3, <1>6 DEF InLog, Replayed
  <2>3. QED
    BY <1>2, <1>3, <1>5, <2>1, <2>2 DEF InLog
<1>10. Covers(p)'
  BY <1>1, <1>2, <1>3, <1>4, <1>5, <1>6, CoversKept DEF Opened, Steps
<1>11. FreshTmp(p)' /\ Fronted(p)'
  BY <1>2 DEF FreshTmp, Fronted
<1>12. QED
  BY <1>1, <1>4, <1>7, <1>8, <1>9, <1>10, <1>11, HeldOnly DEF OrderInv, Held

\* Closing the log, flushed or not.
LEMMA OrderCloseFile ==
  ASSUME WalInv, WalInv', GenInv, GenInv', OrderInv, NEW p \in Procs, CloseFile(p)
  PROVE  OrderInv' /\ Ends
<1>1. /\ FilesOK /\ FilesOK' /\ LogInv /\ ProcOK /\ TypeOK /\ StepOf(p) /\ Written
      /\ LogsOK /\ LogsOK' /\ SortedInv /\ VersionInv /\ HeldInv
  BY OrderFacts DEF StepOf
<1>2. pc'[p] = "release"
  BY <1>1 DEF CloseFile, step, ProcOK
<1>3. SortedInv' /\ VersionInv' /\ Ends
  <2>1. PICK n \in Inodes : flush(n) \/ UNCHANGED <<file, dirs>>
    <3>1. CASE fd[p] # NoFile
      BY <1>1, <3>1 DEF CloseFile, ProcOK
    <3>2. CASE fd[p] = NoFile
      <4>1. 1 \in Inodes
        BY WalAssumption DEF Inodes
      <4>2. QED
        BY <3>2, <4>1 DEF CloseFile
    <3>3. QED
      BY <3>1, <3>2
  <2>2. QED
    BY <1>1, <2>1, FlushFollows
<1>4. Held(p)'
  BY <1>2 DEF Held, FreshTmp, Fronted, LiveAgrees, LiveFirst, InLog, Covers, Replayed, Opened
<1>5. QED
  BY <1>1, <1>3, <1>4, HeldOnly DEF OrderInv

\* A kill and a power failure take the end of the log away, and leave nobody that
\* holds anything.
LEMMA OrderCrash ==
  ASSUME WalInv, WalInv', GenInv, GenInv', OrderInv, PowerFailure \/ \E p \in Procs : Kill(p)
  PROVE  OrderInv' /\ Ends
<1>1. /\ FilesOK /\ FilesOK' /\ LogInv /\ ProcOK /\ HandleInv /\ HolderInv /\ TypeOK /\ Written
      /\ LogsOK /\ LogsOK' /\ SortedInv /\ VersionInv /\ HeldInv
  BY OrderFacts
<1>2. (\A m \in Inodes : Shrinks(m)) /\ Follows
  <2>1. CASE PowerFailure
    <3>1. PICK j \in 1..Len(dirs) : dirs' = <<dirs[j]>>
      BY <1>1, <2>1, PowerType
    <3>2. QED
      BY <1>1, <2>1, <3>1, OneFollows, PowerShrinks
  <2>2. ASSUME NEW p \in Procs, Kill(p) PROVE (\A m \in Inodes : Shrinks(m)) /\ Follows
    <3>1. Follows
      BY <2>2, StillFollows DEF Kill
    <3>2. CASE UNCHANGED file
      BY <1>1, <3>1, <3>2, SameShrinks
    <3>3. CASE /\ pc[p] = "flush"
               /\ file' = [file EXCEPT ![fd[p]].frames[Len(file[fd[p]].frames)].ok = FALSE]
      <4>1. fd[p] \in Inodes /\ AtEnd(p)
        BY <1>1, <3>3 DEF ProcOK, HandleInv, HolderInv
      <4>2. file[fd[p]].synced < Len(file[fd[p]].frames)
        BY <3>3, <4>1 DEF AtEnd
      <4>3. QED
        BY <1>1, <3>1, <3>3, <4>1, <4>2, TearShrinks
    <3>4. QED
      BY <2>2, <3>2, <3>3 DEF Kill
  <2>3. QED
    BY <2>1, <2>2
<1>3. SortedInv' /\ \A i \in 1..Len(dirs) : Down(dirs[i]["wal"])
  BY <1>1, <1>2, FilesShrunk
<1>4. VersionInv' /\ Ends
  BY <1>1, <1>2, <1>3, FollowEnds
<1>5. HeldInv'
  <2>1. CASE PowerFailure
    BY <2>1 DEF PowerFailure, dead, HeldInv, Held, FreshTmp, Fronted, LiveAgrees, LiveFirst, InLog, Covers, Replayed, Opened
  <2>2. ASSUME NEW p \in Procs, Kill(p) PROVE HeldInv'
    <3>1. StepOf(p) /\ pc'[p] = "closed"
      BY <2>2 DEF StepOf, Kill, dead
    <3>2. QED
      BY <1>1, <3>1, HeldOnly
  <2>3. QED
    BY <2>1, <2>2
<1>6. QED
  BY <1>3, <1>4, <1>5 DEF OrderInv

(***************************************************************************)
(* The theorem.                                                            *)
(***************************************************************************)

\* Each step keeps the order and takes away an end of the log at most.
LEMMA OrderStep == WalInv /\ WalInv' /\ GenInv /\ GenInv' /\ OrderInv /\ [Next]_vars => OrderInv' /\ Ends
<1>1. ASSUME WalInv, WalInv', GenInv, GenInv', OrderInv, Next PROVE OrderInv' /\ Ends
  <2>1. ASSUME NEW p \in Procs, StepOf(p) PROVE OrderInv' /\ Ends
    BY <1>1, <2>1, OrderUntouching, OrderDirectory, OrderSyncDir, OrderCheckpointWrite, OrderRename, OrderOpenFile,
       OrderAppend, OrderReplay, OrderWriteReturns, OrderCloseFile, OrderCrash DEF StepOf
  <2>2. ASSUME PowerFailure PROVE OrderInv' /\ Ends
    BY <1>1, <2>2, OrderCrash
  <2>3. PowerFailure \/ \E p \in Procs : StepOf(p)
    BY <1>1 DEF Next, StepOf
  <2>4. QED
    BY <2>1, <2>2, <2>3
<1>2. ASSUME WalInv, WalInv', GenInv, GenInv', OrderInv, UNCHANGED vars PROVE OrderInv' /\ Ends
  <2>1. UNCHANGED <<file, dirs, pc, fd, live, issued>> /\ dir' = dir
    BY <1>2 DEF vars, fsVars, procVars, dir
  <2>2. /\ LogsOK /\ LogsOK' /\ SortedInv /\ VersionInv /\ HeldInv
    BY <1>2, OrderFacts
  <2>3. SortedInv' /\ Logs' = Logs /\ \A i \in 1..Len(dirs) : Down(dirs[i]["wal"])
    BY <2>1, <2>2, FilesKept
  <2>4. VersionInv' /\ Ends
    BY <2>1, <2>2, <2>3, StillFollows, FollowEnds
  <2>5. Recoverable' = Recoverable
    BY <2>1, <2>2, <2>3 DEF LogsOK
  <2>6. HeldInv'
    BY <2>1, <2>2, <2>3, <2>5 DEF HeldInv, Held, FreshTmp, Fronted, LiveAgrees, LiveFirst, InLog, Covers, Agree
  <2>7. QED
    BY <2>3, <2>4, <2>6 DEF OrderInv
<1>3. QED
  BY <1>1, <1>2

\* To begin with there is at most a log without transactions.
LEMMA OrderInit == Init => OrderInv
<1>1. SUFFICES ASSUME Init PROVE OrderInv
  OBVIOUS
<1>2. \A p \in Procs : pc[p] = "closed"
  BY <1>1 DEF Init
<1>3. SortedInv
  <2>1. ASSUME NEW n \in Inodes, NEW i \in 1..Len(file[n].frames) PROVE file[n].frames[i].txs = {}
    <3>1. file[n].frames = <<Header>> \/ file[n].frames = <<>>
      BY <1>1 DEF Init, EmptyFile
    <3>2. QED
      BY <2>1, <3>1 DEF Header, Frame
  <2>2. QED
    BY <2>1 DEF SortedInv, Sorted
<1>4. VersionInv
  <2>1. PICK d : dirs = <<d>>
    BY <1>1 DEF Init
  <2>2. \A i, j \in 1..Len(dirs) : ~(i < j)
    BY <2>1
  <2>3. QED
    BY <2>2 DEF VersionInv
<1>5. HeldInv
  BY <1>2 DEF HeldInv, Held, FreshTmp, Fronted, LiveAgrees, LiveFirst, InLog, Covers, Replayed, Opened
<1>6. QED
  BY <1>3, <1>4, <1>5 DEF OrderInv

\* The three invariants together are inductive.
LEMMA OrderInvariant == Spec => [](WalInv /\ GenInv /\ OrderInv)
<1>1. Init => WalInv /\ GenInv /\ OrderInv
  BY WalInit, GenInit, OrderInit
<1>2. WalInv /\ GenInv /\ OrderInv /\ [Next]_vars => (WalInv /\ GenInv /\ OrderInv)'
  BY WalStep, GenStep, OrderStep
<1>3. QED
  BY <1>1, <1>2, PTL DEF Spec

\* No step, be it a kill, a power failure, a failing system call, a truncating
\* replay or a checkpoint, takes from what the next recovery would find anything
\* but its last transactions (Replay's truncation, the order of Write and of the
\* steps of Checkpoint).
THEOREM LosesOnlySuffix == Spec => LosesSuffix
<1>1. WalInv /\ GenInv /\ OrderInv /\ WalInv' /\ GenInv' /\ [Next]_vars
        => [\A m \in Recoverable \ Recoverable' : \A n \in Recoverable' : n < m]_vars
  BY OrderStep DEF Ends
<1>2. QED
  BY <1>1, OrderInvariant, PTL DEF Spec, LosesSuffix
=============================================================================
