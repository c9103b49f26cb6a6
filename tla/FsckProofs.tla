----------------------------- MODULE FsckProofs -----------------------------
(***************************************************************************)
(* Theorems about the blob store and fsck, for any number of accounts,     *)
(* texts, writers, keys, mishaps and crashes.                              *)
(***************************************************************************)
EXTENDS Fsck, TLAPS

(* What is known of a blob that a row names, or is about to name: it        *)
(* verifies, or a mishap is on record that spoiled it.                      *)
Sound(p) == Verifies(p, encryptKey) \/ p \in spoiled

(* What is known of a file that is about to be removed. *)
Forfeit(p) == ~Verifies(p, encryptKey) \/ p \in spoiled

(* What a writer knows of its file at each place. *)
WritersKnow ==
    \A w \in Writer :
        /\ at[w] # "idle" => target[w] \in Path
        /\ at[w] = "commit" => Sound(target[w])
        /\ at[w] = "remove" => Forfeit(target[w])

(* What RowsAreReadable needs of the file of a committed row. *)
RowsAreSound == \A p \in rows : Sound(p)

(* The inductive invariant of the store. *)
BlobInv == BlobTypeOK /\ LocksAreOwned /\ WritersKnow /\ RowsAreSound

(* Where a writer is while it holds the lock of its path. *)
Holding == {"write", "rename", "verify", "remove"}

(* A writer that holds a lock holds that of its own file, alone. *)
LEMMA OneWriterPerFile ==
  ASSUME BlobInv, NEW w \in Writer, at[w] \in Holding
  PROVE  /\ target[w] \in Path /\ pathLocks[target[w]] = w
         /\ \A v \in Writer : v # w /\ at[v] \in Holding => target[v] # target[w]
  BY DEF BlobInv, LocksAreOwned, WritersKnow, Holding

(* A writer that takes, keeps or gives back the lock of its own file, and  *)
(* no other, leaves the locks owned.                                        *)
LEMMA LocksStayOwned ==
  ASSUME BlobInv, NEW w \in Writer, NEW l, NEW t, NEW p \in Path,
         at' = [at EXCEPT ![w] = l], target' = [target EXCEPT ![w] = t],
         at[w] # "idle" => target[w] = p,
         IF l \in Holding
           THEN /\ t = p
                /\ \/ pathLocks[p] = Nobody /\ pathLocks' = [pathLocks EXCEPT ![p] = w]
                   \/ pathLocks[p] = w /\ UNCHANGED pathLocks
           ELSE \/ pathLocks[p] \in {w, Nobody} /\ pathLocks' = [pathLocks EXCEPT ![p] = Nobody]
                \/ at[w] \notin Holding /\ UNCHANGED pathLocks
  PROVE  LocksAreOwned'
<1> USE BlobConstants DEF BlobInv, BlobTypeOK, Holding
<1> SUFFICES ASSUME NEW q \in Path, NEW v \in Writer
             PROVE  pathLocks'[q] = v <=> target'[v] = q /\ at'[v] \in Holding
  BY DEF LocksAreOwned
<1>1. \A x \in Path, y \in Writer : pathLocks[x] = y <=> target[y] = x /\ at[y] \in Holding
  BY DEF LocksAreOwned
<1>2. CASE v = w
  BY <1>1, <1>2
<1>3. CASE v # w
  BY <1>1, <1>3
<1> QED BY <1>2, <1>3

(* No step loses track of a blob: one that is sound stays sound, the file  *)
(* that is removed having been forfeited before.                            *)
LEMMA SoundStays ==
  ASSUME BlobInv, [BlobNext]_blobVars
  PROVE  \A p \in Path : Sound(p) => Sound(p)'
<1> USE DEF Sound, Verifies
<1>1. ASSUME UNCHANGED <<file, encryptKey, spoiled>> PROVE \A p \in Path : Sound(p) => Sound(p)'
  BY <1>1
<1>2. ASSUME NoteMishap PROVE \A p \in Path : Sound(p) => Sound(p)'
  BY <1>2 DEF NoteMishap
<1>3. ASSUME NEW w \in Writer, WriterStep(w) PROVE \A p \in Path : Sound(p) => Sound(p)'
  <2>1. CASE Rename(w)
    BY <2>1 DEF Rename, BlobInv, BlobTypeOK
  <2>2. CASE ReadBackFails(w)
    BY <2>2 DEF ReadBackFails, fileVars
  <2>3. CASE RemoveUnverified(w)
    <3>1. Forfeit(target[w])
      BY <2>3 DEF RemoveUnverified, BlobInv, WritersKnow
    <3> QED BY <2>3, <3>1 DEF RemoveUnverified, Forfeit, BlobInv, BlobTypeOK, pastVars
  <2> QED
    BY <1>1, <1>3, <2>1, <2>2, <2>3
    DEF WriterStep, LockAndRecheck, WriteTemp, WriteFails, VerifyWritten, CommitRow,
        CommitFails, fileVars, pastVars
<1>4. ASSUME NEW w \in Writer, NEW p \in Path, WriteStart(w, p)
      PROVE  \A q \in Path : Sound(q) => Sound(q)'
  BY <1>1, <1>4 DEF WriteStart, fileVars, pastVars
<1>5. CASE Machine
  BY <1>1, <1>2, <1>5
  DEF Machine, SyncDirectories, CrashProcess, PowerFailure, Decay, ChangeKey, fileVars, pastVars
<1>6. CASE UNCHANGED blobVars
  BY <1>1, <1>6 DEF blobVars, fileVars, pastVars
<1> QED BY <1>3, <1>4, <1>5, <1>6 DEF BlobNext

(* The invariant holds in an empty store. *)
LEMMA InitBlobInv == BlobInit => BlobInv
  BY BlobConstants
  DEF BlobInit, BlobInv, BlobTypeOK, Content, LocksAreOwned, WritersKnow, RowsAreSound, Sound,
      Forfeit

(* A step of a writer keeps the types. *)
LEMMA WriterKeepsTypes ==
  ASSUME BlobInv, NEW w \in Writer, WriterStep(w) \/ \E p \in Path : WriteStart(w, p)
  PROVE  BlobTypeOK'
<1> USE BlobConstants DEF BlobInv, BlobTypeOK, fileVars, pastVars
<1>1. ASSUME NEW p \in Path, WriteStart(w, p) PROVE BlobTypeOK'
  BY <1>1 DEF WriteStart, AfterCheck
<1>2. CASE LockAndRecheck(w)
  <2>1. PICK l \in {"write", "commit"} :
          /\ Goto(w, l)
          /\ pathLocks' = [pathLocks EXCEPT ![target[w]] = IF l = "write" THEN w ELSE Nobody]
    BY <1>2 DEF LockAndRecheck, AfterCheck
  <2>2. pathLocks' \in [Path -> Writer \cup {Nobody}]
    BY <2>1
  <2> QED BY <1>2, <2>1, <2>2 DEF LockAndRecheck, Goto
<1>3. CASE WriteTemp(w)
  BY <1>3 DEF WriteTemp, Goto
<1>4. CASE WriteFails(w) \/ CommitFails(w)
  BY <1>4 DEF WriteFails, CommitFails, Return, Unlock
<1>5. CASE Rename(w)
  BY <1>5 DEF Rename, Goto, Content
<1>6. CASE VerifyWritten(w)
  BY <1>6 DEF VerifyWritten, Goto, Unlock
<1>7. CASE ReadBackFails(w)
  BY <1>7 DEF ReadBackFails, Goto, WritersKnow
<1>8. CASE RemoveUnverified(w)
  BY <1>8 DEF RemoveUnverified, Return, Unlock, Content
<1>9. CASE CommitRow(w)
  BY <1>9 DEF CommitRow, Return, WritersKnow
<1> QED BY <1>1, <1>2, <1>3, <1>4, <1>5, <1>6, <1>7, <1>8, <1>9 DEF WriterStep

(* A step of a writer leaves every lock with its owner. *)
LEMMA WriterKeepsLocks ==
  ASSUME BlobInv, NEW w \in Writer, WriterStep(w) \/ \E p \in Path : WriteStart(w, p)
  PROVE  LocksAreOwned'
<1> USE BlobConstants DEF Holding
<1>1. at[w] # "idle" => target[w] \in Path
  BY DEF BlobInv, WritersKnow
<1>2. ASSUME at[w] \in Holding PROVE pathLocks[target[w]] = w
  BY <1>2, OneWriterPerFile
<1>3. ASSUME NEW p \in Path, WriteStart(w, p) PROVE LocksAreOwned'
  <2>1. PICK l \in {"lock", "commit"} : at' = [at EXCEPT ![w] = l]
    BY <1>3 DEF WriteStart, AfterCheck
  <2> QED BY <1>3, <2>1, LocksStayOwned DEF WriteStart
<1>4. CASE LockAndRecheck(w)
  <2>1. PICK l \in {"write", "commit"} :
          /\ Goto(w, l)
          /\ pathLocks' = [pathLocks EXCEPT ![target[w]] = IF l = "write" THEN w ELSE Nobody]
    BY <1>4 DEF LockAndRecheck, AfterCheck
  <2>2. target' = [target EXCEPT ![w] = target[w]]
    BY <2>1 DEF Goto, BlobInv, BlobTypeOK
  <2>3. pathLocks[target[w]] = Nobody /\ at[w] = "lock"
    BY <1>4 DEF LockAndRecheck
  <2>4. CASE l = "write"
    BY <1>1, <2>1, <2>2, <2>3, <2>4, LocksStayOwned DEF Goto
  <2>5. CASE l = "commit"
    BY <1>1, <2>1, <2>2, <2>3, <2>5, LocksStayOwned DEF Goto
  <2> QED BY <2>4, <2>5
<1>5. ASSUME NEW l \in Holding, at[w] \in Holding, Goto(w, l), UNCHANGED pathLocks
      PROVE  LocksAreOwned'
  <2>1. target' = [target EXCEPT ![w] = target[w]]
    BY <1>5 DEF Goto, BlobInv, BlobTypeOK
  <2> QED BY <1>1, <1>2, <1>5, <2>1, LocksStayOwned DEF Goto
<1>6. ASSUME at[w] \in Holding, Return(w), Unlock(target[w]) PROVE LocksAreOwned'
  BY <1>1, <1>2, <1>6, LocksStayOwned DEF Return, Unlock
<1>7. ASSUME at[w] = "commit", Return(w), UNCHANGED pathLocks PROVE LocksAreOwned'
  BY <1>1, <1>7, LocksStayOwned DEF Return
<1>8. CASE VerifyWritten(w)
  <2>1. CASE Goto(w, "commit") /\ Unlock(target[w])
    <3>1. target' = [target EXCEPT ![w] = target[w]] /\ at[w] = "verify"
      BY <1>8, <2>1 DEF VerifyWritten, Goto, BlobInv, BlobTypeOK
    <3> QED BY <1>1, <1>2, <2>1, <3>1, LocksStayOwned DEF Goto, Unlock
  <2> QED BY <1>5, <1>8, <2>1 DEF VerifyWritten
<1> QED
  BY <1>3, <1>4, <1>5, <1>6, <1>7, <1>8
  DEF WriterStep, WriteTemp, WriteFails, Rename, ReadBackFails, RemoveUnverified, CommitRow,
      CommitFails

(* What the other writers know stays true: a file about to be removed is   *)
(* locked by the one who will remove it.                                    *)
LEMMA WriterKeepsWritersKnow ==
  ASSUME BlobInv, NEW w \in Writer, WriterStep(w) \/ \E p \in Path : WriteStart(w, p)
  PROVE  WritersKnow'
<1> USE DEF Holding
<1>1. at \in [Writer -> {"idle", "lock", "write", "rename", "verify", "remove", "commit"}]
      /\ target \in [Writer -> Path \cup {NoPath}]
  BY DEF BlobInv, BlobTypeOK
<1>2. \A p \in Path : Sound(p) => Sound(p)'
  <2>1. BlobNext
    BY DEF BlobNext
  <2> QED BY <2>1, SoundStays
<1>3. \A v \in Writer \ {w} : at'[v] = at[v] /\ target'[v] = target[v]
  BY <1>1
  DEF WriterStep, LockAndRecheck, WriteTemp, WriteFails, Rename, VerifyWritten, ReadBackFails,
      RemoveUnverified, CommitRow, CommitFails, WriteStart, Goto, Return
<1>4. ASSUME NEW v \in Writer \ {w}, at[v] = "remove" PROVE Forfeit(target[v])'
  <2>1. Forfeit(target[v]) /\ target[v] \in Path /\ target'[v] = target[v]
    BY <1>3, <1>4 DEF BlobInv, WritersKnow
  <2>2. CASE Rename(w)
    <3>1. target[v] # target[w]
      BY <1>4, <2>2, OneWriterPerFile DEF Rename
    <3> QED BY <2>1, <2>2, <3>1 DEF Rename, Forfeit, Verifies, BlobInv, BlobTypeOK
  <2>3. CASE RemoveUnverified(w)
    <3>1. target[v] # target[w]
      BY <1>4, <2>3, OneWriterPerFile DEF RemoveUnverified
    <3> QED BY <2>1, <2>3, <3>1
        DEF RemoveUnverified, Forfeit, Verifies, BlobInv, BlobTypeOK, pastVars
  <2>4. CASE ReadBackFails(w)
    BY <2>1, <2>4 DEF ReadBackFails, Forfeit, Verifies, fileVars
  <2> QED
    BY <2>1, <2>2, <2>3, <2>4
    DEF WriterStep, LockAndRecheck, WriteTemp, WriteFails, VerifyWritten, CommitRow,
        CommitFails, WriteStart, Forfeit, Verifies, fileVars, pastVars
<1>5. \A v \in Writer \ {w} : /\ at'[v] # "idle" => target'[v] \in Path
                              /\ at'[v] = "commit" => Sound(target[v])'
                              /\ at'[v] = "remove" => Forfeit(target[v])'
  <2>1. \A v \in Writer : /\ at[v] # "idle" => target[v] \in Path
                          /\ at[v] = "commit" => Sound(target[v])
    BY DEF BlobInv, WritersKnow
  <2> QED BY <1>2, <1>3, <1>4, <2>1 DEF Sound, Verifies
<1>6. /\ at'[w] # "idle" => target'[w] \in Path
      /\ at'[w] = "commit" => Sound(target[w])'
      /\ at'[w] = "remove" => Forfeit(target[w])'
  <2> USE DEF Sound, Forfeit, Verifies, fileVars, pastVars
  <2>1. at[w] # "idle" => target[w] \in Path
    BY DEF BlobInv, WritersKnow
  <2>2. ASSUME NEW p \in Path, WriteStart(w, p)
        PROVE  target'[w] \in Path /\ at'[w] # "remove" /\ (at'[w] = "commit" => Sound(target[w])')
    BY <1>1, <2>2 DEF WriteStart, AfterCheck
  <2>3. ASSUME NEW l, Goto(w, l), at[w] # "idle"
        PROVE  at'[w] = l /\ target'[w] = target[w] /\ target'[w] \in Path
    BY <1>1, <2>1, <2>3 DEF Goto
  <2>4. Return(w) => at'[w] = "idle"
    BY <1>1 DEF Return
  <2>5. CASE LockAndRecheck(w)
    BY <2>3, <2>5 DEF LockAndRecheck, AfterCheck
  <2>6. CASE WriteTemp(w) \/ Rename(w)
    BY <2>3, <2>6 DEF WriteTemp, Rename
  <2>7. CASE VerifyWritten(w) \/ ReadBackFails(w)
    BY <2>3, <2>7 DEF VerifyWritten, ReadBackFails
  <2>8. CASE WriteFails(w) \/ RemoveUnverified(w) \/ CommitRow(w) \/ CommitFails(w)
    BY <2>4, <2>8 DEF WriteFails, RemoveUnverified, CommitRow, CommitFails
  <2> QED BY <2>2, <2>4, <2>5, <2>6, <2>7, <2>8 DEF WriterStep
<1> SUFFICES ASSUME NEW v \in Writer
             PROVE  /\ at'[v] # "idle" => target'[v] \in Path
                    /\ at'[v] = "commit" => Sound(target[v])'
                    /\ at'[v] = "remove" => Forfeit(target[v])'
  BY DEF WritersKnow
<1>7. CASE v = w
  BY <1>6, <1>7 DEF Sound, Forfeit, Verifies
<1>8. CASE v # w
  BY <1>5, <1>8 DEF Sound, Forfeit, Verifies
<1> QED BY <1>7, <1>8

(* A step of a writer keeps the invariant: it commits a row only for a blob *)
(* that was found to verify.                                                 *)
LEMMA WriterKeepsBlobInv ==
  ASSUME BlobInv, NEW w \in Writer, WriterStep(w) \/ \E p \in Path : WriteStart(w, p)
  PROVE  BlobInv'
<1>1. \A p \in Path : Sound(p) => Sound(p)'
  <2>1. BlobNext
    BY DEF BlobNext
  <2> QED BY <2>1, SoundStays
<1>2. \A p \in rows' : p \in Path /\ Sound(p)
  <2>1. CASE CommitRow(w)
    BY <2>1 DEF CommitRow, BlobInv, BlobTypeOK, WritersKnow, RowsAreSound
  <2>2. CASE UNCHANGED rows
    BY <2>2 DEF BlobInv, BlobTypeOK, RowsAreSound
  <2> QED
    BY <2>1, <2>2
    DEF WriterStep, LockAndRecheck, WriteTemp, WriteFails, Rename, VerifyWritten,
        ReadBackFails, RemoveUnverified, CommitFails, WriteStart
<1>3. RowsAreSound'
  BY <1>1, <1>2 DEF RowsAreSound, Sound, Verifies
<1> QED BY <1>3, WriterKeepsTypes, WriterKeepsLocks, WriterKeepsWritersKnow DEF BlobInv

(* So does what befalls the process and the machine. *)
LEMMA MachineKeepsBlobInv ==
  ASSUME BlobInv, Machine
  PROVE  BlobInv'
<1> USE BlobConstants DEF BlobInv
<1>1. \A p \in Path : Sound(p) => Sound(p)'
  <2>1. BlobNext
    BY DEF BlobNext
  <2> QED BY <2>1, SoundStays
<1>2. RowsAreSound'
  <2>1. rows' \subseteq rows
    BY DEF Machine, SyncDirectories, CrashProcess, PowerFailure, Decay, ChangeKey
  <2> QED BY <1>1, <2>1 DEF RowsAreSound, Sound, Verifies, BlobTypeOK
<1>3. ProcessEnds => LocksAreOwned' /\ WritersKnow'
  BY DEF ProcessEnds, LocksAreOwned, WritersKnow
<1>4. NoteMishap => spoiled' \in SUBSET Path /\ mishaps' \in 0 .. MaxMishaps /\ UNCHANGED crashes
  BY DEF NoteMishap, BlobTypeOK
<1>5. ProcessEnds => /\ pathLocks' \in [Path -> Writer \cup {Nobody}]
                     /\ at' \in [Writer -> {"idle"}] /\ target' \in [Writer -> {NoPath}]
  BY DEF ProcessEnds
<1>6. CASE SyncDirectories
  BY <1>2, <1>6
  DEF SyncDirectories, BlobTypeOK, LocksAreOwned, WritersKnow, Sound, Forfeit, Verifies,
      writerVars, pastVars
<1>7. CASE CrashProcess
  BY <1>2, <1>3, <1>5, <1>7 DEF CrashProcess, BlobTypeOK, fileVars
<1>8. ASSUME NEW p \in Path, Decay(p) PROVE BlobInv'
  <2>1. PICK c \in {Garbled, Altered} :
          /\ file' = [file EXCEPT ![p] = c]
          /\ synced' = [synced EXCEPT ![p] = IF @ = file[p] THEN c ELSE @]
    BY <1>8 DEF Decay
  <2>2. BlobTypeOK'
    BY <1>4, <1>8, <2>1 DEF Decay, BlobTypeOK, writerVars, Content
  <2>3. LocksAreOwned'
    BY <1>8 DEF Decay, LocksAreOwned, writerVars
  <2>4. \A q \in Path : Forfeit(q) => Forfeit(q)'
    BY <1>8, <2>1 DEF Decay, NoteMishap, Forfeit, Verifies, BlobTypeOK
  <2>5. WritersKnow'
    BY <1>1, <1>8, <2>4 DEF Decay, WritersKnow, Sound, Forfeit, Verifies, writerVars
  <2> QED BY <1>2, <2>2, <2>3, <2>5
<1>9. CASE PowerFailure
  <2>1. file' \in [Path -> Content] /\ synced' = file' /\ rows' \subseteq rows
    BY <1>9 DEF PowerFailure, BlobTypeOK
  <2>2. BlobTypeOK'
    BY <1>4, <1>5, <1>9, <2>1 DEF PowerFailure, BlobTypeOK
  <2> QED BY <1>2, <1>3, <1>9, <2>2 DEF PowerFailure
<1>10. ASSUME NEW k \in Key, ChangeKey(k) PROVE BlobInv'
  BY <1>2, <1>3, <1>4, <1>5, <1>10 DEF ChangeKey, BlobTypeOK, fileVars
<1> QED BY <1>6, <1>7, <1>8, <1>9, <1>10 DEF Machine

(* The same with fsck beside it, which changes nothing of the store. *)
LEMMA StoreStepKinds ==
  ASSUME [Next]_vars
  PROVE  \/ \E w \in Writer : WriterStep(w) \/ \E p \in Path : WriteStart(w, p)
         \/ Machine
         \/ UNCHANGED blobVars
  BY DEF Next, StoreStep, StartStep, MachineStep, Machine, FsckNext, FsckStart, Visit,
         CrossReference, FsckInterrupted, vars

(* The inductive step of the store: each writer, each mishap, and fsck. *)
LEMMA NextBlobInv == BlobInv /\ [Next]_vars => BlobInv'
<1> SUFFICES ASSUME BlobInv, [Next]_vars PROVE BlobInv'
  OBVIOUS
<1>1. CASE UNCHANGED blobVars
  BY <1>1
  DEF blobVars, fileVars, writerVars, pastVars, BlobInv, BlobTypeOK, LocksAreOwned,
      WritersKnow, RowsAreSound, Sound, Forfeit, Verifies
<1> QED BY <1>1, StoreStepKinds, WriterKeepsBlobInv, MachineKeepsBlobInv

(* What fsck knows while it walks and when it reports.                      *)
(*  - A blob that verifies with its key was not spoiled since it began, and  *)
(*    its key is still the key of the store; else the history says so.       *)
(*  - A file it found in order is still so, or was spoiled since.            *)
(*  - A sound row of the beginning has a file, met or still to be met.       *)
FsckKnows ==
    fpc # "idle" =>
        /\ \A p \in Path : file[p] = fkey =>
               p \in spoiledSince \/ (fkey = encryptKey /\ p \notin spoiled)
        /\ \A p \in walked \ corrupt : file[p] = fkey \/ p \in spoiledSince
        /\ rowsBefore \subseteq rows
        /\ rowsBefore \cap spoiled \subseteq spoiledSince
        /\ \A p \in rowsBefore : \/ p \in spoiledSince
                                 \/ IF p \in unvisited THEN file[p] # Absent ELSE p \in walked

(* What its report says of the rows it read. *)
ReportKnows ==
    fpc = "done" =>
        /\ unvisited = {}
        /\ \A p \in rowsRead : p \in missingBlobs \/ p[2] \in diskBlobs
        /\ \A p \in missingBlobs : p \notin walked

(* The inductive invariant of the store with fsck. *)
IInv == BlobInv /\ TypeOK /\ FsckKnows /\ ReportKnows

(* The disk is empty and fsck has not begun. *)
LEMMA InitIInv == Init => IInv
  BY InitBlobInv, BlobConstants DEF Init, IInv, TypeOK, BlobInv, FsckKnows, ReportKnows

(* Whatever the store does, fsck's knowledge stays true: what it relied on  *)
(* and is lost is in the history of what was spoiled.                        *)
LEMMA BesideKeepsKnowledge ==
  ASSUME IInv, [BlobNext]_blobVars, rows \subseteq rows', Beside, encryptKey' \in Key,
         \A p \in Path : file'[p] # file[p] =>
            \/ file'[p] = encryptKey /\ p \notin spoiled' /\ encryptKey' = encryptKey
            \/ file'[p] \notin Key /\ (file'[p] = Absent => Forfeit(p))
  PROVE  FsckKnows' /\ ReportKnows'
<1> USE BlobConstants
<1>1. ReportKnows'
  BY DEF Beside, IInv, ReportKnows, diskBlobs
<1> SUFFICES ASSUME fpc # "idle" PROVE FsckKnows'
  BY <1>1 DEF Beside, FsckKnows
<1>2. /\ spoiledSince' = spoiledSince \cup (spoiled' \ spoiled)
      /\ UNCHANGED <<fpc, fkey, unvisited, walked, corrupt, rowsBefore>>
  BY DEF Beside
<1>3. /\ file \in [Path -> Content] /\ fkey \in Key /\ rowsBefore \subseteq Path
      /\ walked \subseteq Path
  BY DEF IInv, TypeOK, BlobTypeOK
<1>4. \A p \in Path : Sound(p) => Sound(p)'
  BY SoundStays DEF IInv
<1>5. /\ \A p \in Path : file[p] = fkey =>
            p \in spoiledSince \/ (fkey = encryptKey /\ p \notin spoiled)
      /\ \A p \in walked \ corrupt : file[p] = fkey \/ p \in spoiledSince
      /\ rowsBefore \subseteq rows
      /\ rowsBefore \cap spoiled \subseteq spoiledSince
      /\ \A p \in rowsBefore : \/ p \in spoiledSince
                               \/ IF p \in unvisited THEN file[p] # Absent ELSE p \in walked
  BY DEF IInv, FsckKnows
<1>6. ASSUME NEW p \in Path, file[p] = fkey, p \notin spoiledSince'
      PROVE  /\ fkey = encryptKey' /\ p \notin spoiled'
             /\ file'[p] = fkey
  <2>1. fkey = encryptKey /\ p \notin spoiled /\ p \notin spoiled'
    BY <1>2, <1>5, <1>6
  <2>2. file'[p] = encryptKey'
    BY <1>4, <1>6, <2>1 DEF Sound, Verifies
  <2>3. encryptKey' = encryptKey /\ (file'[p] # file[p] => file'[p] = encryptKey)
    BY <1>3, <1>6, <2>1, <2>2 DEF Forfeit
  <2> QED BY <1>6, <2>1, <2>2, <2>3
<1>7. ASSUME NEW p \in Path, file'[p] = fkey
      PROVE  p \in spoiledSince' \/ (fkey = encryptKey' /\ p \notin spoiled')
  BY <1>3, <1>6, <1>7
<1>8. ASSUME NEW p \in walked \ corrupt PROVE file'[p] = fkey \/ p \in spoiledSince'
  BY <1>2, <1>3, <1>5, <1>6, <1>8
<1>9. ASSUME NEW p \in rowsBefore, p \notin spoiledSince', p \in unvisited PROVE file'[p] # Absent
  <2>1. Sound(p) /\ p \notin spoiled /\ p \in Path
    BY <1>2, <1>3, <1>5, <1>9 DEF IInv, BlobInv, RowsAreSound
  <2> QED BY <1>2, <1>3, <1>5, <1>9, <2>1 DEF Sound, Forfeit, Verifies
<1> QED BY <1>2, <1>5, <1>7, <1>8, <1>9 DEF FsckKnows

(* Every step keeps the invariant: those of fsck establish what it knows ... *)
LEMMA FsckKeepsIInv ==
  ASSUME IInv, FsckNext
  PROVE  IInv'
<1> USE BlobConstants DEF IInv
<1>1. UNCHANGED blobVars
  BY DEF FsckNext, FsckStart, Visit, CrossReference, FsckInterrupted
<1>2. BlobInv'
  BY <1>1, NextBlobInv DEF Next
<1>3. /\ UNCHANGED <<file, encryptKey, rows, spoiled>>
      /\ rows \in SUBSET Path /\ spoiled \in SUBSET Path /\ encryptKey \in Key
  BY <1>1 DEF blobVars, fileVars, pastVars, BlobInv, BlobTypeOK
<1>4. BlobTypeOK'
  BY <1>2 DEF BlobInv
<1>5. CASE FsckStart
  <2>1. TypeOK'
    BY <1>3, <1>4, <1>5 DEF FsckStart, TypeOK
  <2>2. \A p \in rows \ spoiled : file[p] = encryptKey /\ p \in Path
    BY <1>3 DEF BlobInv, RowsAreSound, Sound, Verifies
  <2>3. Absent \notin Key
    OBVIOUS
  <2>4. FsckKnows'
    BY <1>3, <1>5, <2>2, <2>3 DEF FsckStart, FsckKnows, Verifies
  <2> QED BY <1>2, <1>5, <2>1, <2>4 DEF FsckStart, ReportKnows
<1>6. ASSUME NEW p \in Path, Visit(p) PROVE IInv'
  <2>1. TypeOK'
    BY <1>4, <1>6 DEF Visit, TypeOK
  <2>2. FsckKnows'
    BY <1>3, <1>6 DEF Visit, FsckKnows, Verifies
  <2> QED BY <1>2, <1>6, <2>1, <2>2 DEF Visit, ReportKnows
<1>7. CASE CrossReference
  <2>1. TypeOK'
    BY <1>3, <1>4, <1>7 DEF CrossReference, TypeOK, diskBlobs, Path
  <2>2. FsckKnows'
    BY <1>3, <1>7 DEF CrossReference, FsckKnows
  <2>3. ReportKnows'
    BY <1>7 DEF CrossReference, ReportKnows, diskBlobs
  <2> QED BY <1>2, <2>1, <2>2, <2>3
<1>8. CASE FsckInterrupted
  BY <1>2, <1>4, <1>8 DEF FsckInterrupted, FsckEnds, TypeOK, FsckKnows, ReportKnows
<1> QED BY <1>5, <1>6, <1>7, <1>8 DEF FsckNext

(* ... and those beside it leave it true. *)
LEMMA NextIInv == IInv /\ [Next]_vars => IInv'
<1> SUFFICES ASSUME IInv, [Next]_vars PROVE IInv'
  OBVIOUS
<1> USE BlobConstants DEF IInv
<1>1. BlobInv' /\ BlobTypeOK'
  BY NextBlobInv DEF BlobInv
<1>2. Beside => TypeOK'
  BY <1>1 DEF Beside, TypeOK, BlobTypeOK
<1>3. ASSUME BlobNext, Beside, rows \subseteq rows',
             \A p \in Path : file'[p] # file[p] =>
                \/ file'[p] = encryptKey /\ p \notin spoiled' /\ encryptKey' = encryptKey
                \/ file'[p] \notin Key /\ (file'[p] = Absent => Forfeit(p))
      PROVE  IInv'
  <2>1. encryptKey' \in Key
    BY <1>1 DEF BlobTypeOK
  <2> QED BY <1>1, <1>2, <1>3, <2>1, BesideKeepsKnowledge
<1>4. CASE StoreStep
  <2>1. PICK w \in Writer : WriterStep(w)
    BY <1>4 DEF StoreStep
  <2>2. BlobNext /\ Beside
    BY <1>4, <2>1 DEF StoreStep, BlobNext
  <2>3. CASE Rename(w)
    <3>1. /\ file' = [file EXCEPT ![target[w]] = encryptKey] /\ spoiled' = spoiled \ {target[w]}
          /\ UNCHANGED <<encryptKey, rows>> /\ file \in [Path -> Content]
      BY <2>3 DEF Rename, BlobInv, BlobTypeOK
    <3> QED BY <1>3, <2>2, <3>1
  <2>4. CASE RemoveUnverified(w)
    <3>1. /\ file' \in {file, [file EXCEPT ![target[w]] = Absent]} /\ UNCHANGED rows
          /\ file \in [Path -> Content] /\ Forfeit(target[w]) /\ Absent \notin Key
      BY <2>4 DEF RemoveUnverified, BlobInv, BlobTypeOK, WritersKnow
    <3>2. \A p \in Path : file'[p] # file[p] => p = target[w] /\ file'[p] = Absent
      BY <3>1
    <3> QED BY <1>3, <2>2, <3>1, <3>2 DEF Forfeit, Verifies
  <2>5. CASE UNCHANGED file /\ rows \subseteq rows'
    BY <1>3, <2>2, <2>5
  <2> QED
    BY <2>1, <2>3, <2>4, <2>5
    DEF WriterStep, LockAndRecheck, WriteTemp, WriteFails, VerifyWritten, ReadBackFails,
        CommitRow, CommitFails, fileVars
<1>5. CASE StartStep
  <2>1. BlobNext /\ Beside /\ UNCHANGED <<file, rows>>
    BY <1>5 DEF StartStep, BlobNext, WriteStart, fileVars
  <2> QED BY <1>3, <2>1
<1>6. CASE MachineStep
  <2>1. CASE PowerFailure /\ FsckEnds
    BY <1>1, <2>1 DEF FsckEnds, TypeOK, FsckKnows, ReportKnows
  <2>2. ASSUME NEW p \in Path, Decay(p), Beside PROVE IInv'
    <3>1. PICK c \in {Garbled, Altered} : file' = [file EXCEPT ![p] = c]
      BY <2>2 DEF Decay
    <3>2. /\ BlobNext /\ UNCHANGED rows /\ c \notin Key /\ c # Absent
          /\ file \in [Path -> Content]
      BY <2>2 DEF BlobNext, Machine, Decay, Absent, Garbled, Altered, BlobInv, BlobTypeOK
    <3> QED BY <1>3, <2>2, <3>1, <3>2
  <2>3. ASSUME SyncDirectories \/ CrashProcess \/ \E k \in Key : ChangeKey(k), Beside
        PROVE  IInv'
    <3>1. BlobNext /\ UNCHANGED <<file, rows>>
      BY <2>3 DEF BlobNext, Machine, SyncDirectories, CrashProcess, ChangeKey, fileVars
    <3> QED BY <1>3, <2>3, <3>1
  <2> QED BY <1>6, <2>1, <2>2, <2>3 DEF MachineStep
<1>7. CASE UNCHANGED vars
  BY <1>1, <1>7
  DEF vars, blobVars, fileVars, pastVars, fsckVars, TypeOK, FsckKnows, ReportKnows, diskBlobs
<1> QED BY <1>4, <1>5, <1>6, <1>7, FsckKeepsIInv DEF Next

(* Every variable keeps its type. *)
THEOREM FsckTypeCorrect == Spec => []TypeOK
<1>1. IInv => TypeOK
  BY DEF IInv
<1> QED BY InitIInv, NextIInv, <1>1, PTL DEF Spec

(* A path lock belongs to the one writer of that file: however the writers  *)
(* interleave, fail and crash, none leaves its lock behind or writes or      *)
(* removes a file another one is writing.                                    *)
THEOREM OneWriterAtATime == Spec => []LocksAreOwned
<1>1. IInv => LocksAreOwned
  BY DEF IInv, BlobInv
<1> QED BY InitIInv, NextIInv, <1>1, PTL DEF Spec

(* Read returns the text of a blob that verifies. *)
LEMMA VerifiedIsRead ==
  ASSUME BlobTypeOK, NEW p, file[p] = encryptKey
  PROVE  Read(p) = "text"
  BY BlobConstants DEF Read, BlobTypeOK, Altered

(* A committed row names a blob that reads back as its text, unless a        *)
(* mishap is on record that spoiled it: for any number of writers and keys.  *)
THEOREM CommittedIsReadable == Spec => []RowsAreReadable
<1>1. IInv => RowsAreReadable
  BY VerifiedIsRead DEF IInv, BlobInv, RowsAreSound, Sound, Verifies, RowsAreReadable
<1> QED BY InitIInv, NextIInv, <1>1, PTL DEF Spec

(* A clean report is true of every message fsck read. *)
THEOREM CleanReportHolds == Spec => []CleanReportIsTrue
<1>1. IInv => CleanReportIsTrue
  <2> SUFFICES ASSUME IInv, fpc = "done", corrupt = {}, missingBlobs = {}, fkey = encryptKey,
                      NEW p \in rowsRead \ spoiledSince
               PROVE  Read(p) = "text" \/ (p \notin walked /\ p[2] \in diskBlobs)
    BY DEF CleanReportIsTrue
  <2>1. p[2] \in diskBlobs
    BY DEF IInv, ReportKnows
  <2>2. p \in walked => file[p] = encryptKey
    BY DEF IInv, FsckKnows
  <2>3. p \in walked => Read(p) = "text"
    BY <2>2, VerifiedIsRead DEF IInv, BlobInv
  <2> QED BY <2>1, <2>3
<1> QED BY InitIInv, NextIInv, <1>1, PTL DEF Spec

(* A row of the beginning is reported as missing only if its blob was lost. *)
THEOREM MissingIsLost == Spec => []OldRowsAreNotMissing
<1>1. IInv => OldRowsAreNotMissing
  BY DEF IInv, FsckKnows, ReportKnows, OldRowsAreNotMissing
<1> QED BY InitIInv, NextIInv, <1>1, PTL DEF Spec

(* Every step of the store is a step of the vault: the rename is its Put,   *)
(* the commit its Reference, everything that can take a blob away its        *)
(* Mishap, and the rest, the removal of a file that does not verify          *)
(* included, is invisible.                                                   *)
LEMMA StepIsVaultStep ==
  ASSUME IInv, [Next]_vars
  PROVE  [Vault!VaultNext]_(Vault!vaultVars)
<1> DEFINE sound == {p \in Path \ spoiled : Verifies(p, encryptKey)}
<1> USE DEF Vault!VaultNext, Vault!vaultVars, Verifies
<1>1. ASSUME UNCHANGED <<file, encryptKey, spoiled, rows, mishaps>>
      PROVE  UNCHANGED Vault!vaultVars
  BY <1>1
<1>2. file \in [Path -> Content] /\ spoiled \subseteq Path /\ rows \subseteq Path
  BY DEF IInv, BlobInv, BlobTypeOK
<1>3. ASSUME NEW w \in Writer, WriterStep(w) PROVE [Vault!VaultNext]_(Vault!vaultVars)
  <2>1. target[w] \in Path
    BY <1>3 DEF IInv, BlobInv, WritersKnow, WriterStep, LockAndRecheck, WriteTemp, WriteFails,
                Rename, VerifyWritten, ReadBackFails, RemoveUnverified, CommitRow, CommitFails
  <2>2. CASE Rename(w)
    <3>1. sound' = sound \cup {target[w]}
      BY <1>2, <2>1, <2>2 DEF Rename
    <3>2. Vault!Put(target[w])
      BY <2>2, <3>1 DEF Vault!Put, Rename
    <3>3. \E p \in Path : Vault!Put(p)
      BY <2>1, <3>2 DEF Vault!Put
    <3> QED BY <3>3
  <2>3. CASE ReadBackFails(w)
    <3>1. sound' = sound \ {target[w]} /\ spoiled' = spoiled \cup {target[w]}
      BY <2>3 DEF ReadBackFails, fileVars
    <3>2. target[w] \in spoiled \cup sound
      BY <2>1, <2>3 DEF ReadBackFails
    <3>3. Vault!Mishap
      BY <2>3, <3>1, <3>2 DEF Vault!Mishap, ReadBackFails
    <3> QED BY <3>3
  <2>4. CASE RemoveUnverified(w)
    <3>1. /\ Forfeit(target[w]) /\ UNCHANGED <<encryptKey, spoiled, rows, mishaps>>
          /\ file' \in {file, [file EXCEPT ![target[w]] = Absent]} /\ Absent # encryptKey
      BY <2>4, BlobConstants
      DEF RemoveUnverified, IInv, BlobInv, BlobTypeOK, WritersKnow, pastVars
    <3>2. sound' = sound
      BY <1>2, <3>1 DEF Forfeit
    <3> QED BY <3>1, <3>2
  <2>5. CASE CommitRow(w)
    <3>1. target[w] \in sound \cup spoiled
      BY <2>1, <2>5 DEF CommitRow, IInv, BlobInv, WritersKnow, Sound
    <3>2. Vault!Reference(target[w])
      BY <2>5, <3>1 DEF Vault!Reference, CommitRow, fileVars, pastVars
    <3> QED BY <2>1, <3>2
  <2> QED
    BY <1>1, <1>3, <2>2, <2>3, <2>4, <2>5
    DEF WriterStep, LockAndRecheck, WriteTemp, WriteFails, VerifyWritten, CommitFails,
        fileVars, pastVars
<1>4. ASSUME NoteMishap, rows' \in SUBSET rows PROVE Vault!Mishap
  <2>1. /\ spoiled' = (spoiled \cup ({p \in Path : file[p] = encryptKey} \ {p \in Path : file'[p] = encryptKey'}))
                      \ ({p \in Path : file'[p] = encryptKey'} \ {p \in Path : file[p] = encryptKey})
        /\ mishaps' = mishaps + 1
    BY <1>4 DEF NoteMishap
  <2>2. spoiled' = (spoiled \cup sound) \ sound'
    BY <1>2, <2>1
  <2> QED BY <1>4, <2>1, <2>2 DEF Vault!Mishap
<1>5. CASE Machine
  <2>1. CASE SyncDirectories \/ CrashProcess
    BY <1>1, <2>1 DEF SyncDirectories, CrashProcess, fileVars, pastVars
  <2>2. CASE PowerFailure \/ (\E p \in Path : Decay(p)) \/ (\E k \in Key : ChangeKey(k))
    BY <1>4, <2>2 DEF PowerFailure, Decay, ChangeKey
  <2> QED BY <1>5, <2>1, <2>2 DEF Machine
<1>6. ASSUME NEW w \in Writer, NEW p \in Path, WriteStart(w, p)
      PROVE  [Vault!VaultNext]_(Vault!vaultVars)
  BY <1>1, <1>6 DEF WriteStart, fileVars, pastVars
<1>7. CASE UNCHANGED blobVars
  BY <1>1, <1>7 DEF blobVars, fileVars, pastVars
<1> QED BY <1>3, <1>5, <1>6, <1>7, StoreStepKinds

(* The store implements the vault that archiveOne and the readers rely on.  *)
THEOREM StoreIsVault == Spec => ImplementsVault
<1>1. Init => Vault!VaultInit
  BY BlobConstants DEF Init, BlobInit, Vault!VaultInit, Verifies
<1>2. IInv /\ [Next]_vars => [Vault!VaultNext]_(Vault!vaultVars)
  BY StepIsVaultStep
<1> QED BY InitIInv, NextIInv, <1>1, <1>2, PTL DEF Spec, ImplementsVault, Vault!VaultSpec
=============================================================================
