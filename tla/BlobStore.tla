------------------------------ MODULE BlobStore ------------------------------
(***************************************************************************)
(* The blob store, one step per file operation (internal/store/blob.go):   *)
(* goroutines that call Write and commit the row that names the blob       *)
(* (internal/archive/archiver.go, archiveOne), the path locks, the         *)
(* temporary file and its rename, verification, crashes of the process and *)
(* of the machine, files that decay and a change of the key.               *)
(*                                                                         *)
(* The file of a blob is identified by account and text, its checksum      *)
(* being that of the text.  Contents are abstracted to what decode and the *)
(* checksum tell apart: no file, the text whole under one key, bytes that  *)
(* do not decode, bytes that decode to another text.  A temporary file is  *)
(* no blob (blobExt) and is only seen by its writer: it is the writer's    *)
(* pc.  Empty texts, which Write refuses, are left out.                    *)
(***************************************************************************)
EXTENDS Naturals, FiniteSets

CONSTANTS
    Account, Text,
    Writer,                \* goroutines that archive
    Key, NoKey,            \* the keys of blobs; NoKey where they are not encrypted
    Nobody,                \* holder of a free path lock
    MaxMishaps,            \* bound: decays, power failures and changes of the key
    MaxCrashes             \* bound: crashes of the process

Path == Account \X Text
NoPath == <<>>
Absent == "absent"
Garbled == "garbled"       \* decode fails
Altered == "altered"       \* decodes to another text

ASSUME BlobConstants ==
    /\ NoKey \in Key
    /\ Key \cap {Absent, Garbled, Altered} = {}
    /\ Nobody \notin Writer
    /\ MaxMishaps \in Nat
    /\ MaxCrashes \in Nat

Content == Key \cup {Absent, Garbled, Altered}

VARIABLES
    file,                  \* [Path -> Content]: the directory as processes see it
    synced,                \* [Path -> Content]: as it is found after a power failure
    encryptKey,            \* the key the process was started with
    pathLocks,             \* [Path -> Writer or Nobody]
    at,                    \* [Writer -> the place in Write or archiveOne]
    target,                \* [Writer -> the path it writes, NoPath when idle]
    rows,                  \* SUBSET Path: blobs named by a committed row
    spoiled,               \* SUBSET Path: history: a mishap made it unreadable since it was written
    mishaps, crashes

fileVars == <<file, synced>>
writerVars == <<pathLocks, at, target>>
pastVars == <<spoiled, mishaps, crashes>>
blobVars == <<fileVars, encryptKey, writerVars, rows, pastVars>>

(* verifyPath: read, decode with the key, compare the checksum. *)
Verifies(p, k) == file[p] = k

(* Read: decode only.  What decodes to another text is returned as it is. *)
Read(p) ==
    CASE file[p] = encryptKey -> "text"
      [] file[p] = Altered /\ encryptKey = NoKey -> "other"
      [] OTHER -> "error"

BlobTypeOK ==
    /\ file \in [Path -> Content]
    /\ synced \in [Path -> Content]
    /\ encryptKey \in Key
    /\ pathLocks \in [Path -> Writer \cup {Nobody}]
    /\ at \in [Writer -> {"idle", "lock", "write", "rename", "verify", "remove", "commit"}]
    /\ target \in [Writer -> Path \cup {NoPath}]
    /\ rows \in SUBSET Path
    /\ spoiled \in SUBSET Path
    /\ mishaps \in 0 .. MaxMishaps
    /\ crashes \in 0 .. MaxCrashes

BlobInit ==
    /\ file = [p \in Path |-> Absent]
    /\ synced = file
    /\ encryptKey \in Key
    /\ pathLocks = [p \in Path |-> Nobody]
    /\ at = [w \in Writer |-> "idle"]
    /\ target = [w \in Writer |-> NoPath]
    /\ rows = {}
    /\ spoiled = {}
    /\ mishaps = 0
    /\ crashes = 0

Goto(w, l) == at' = [at EXCEPT ![w] = l] /\ UNCHANGED target
Return(w) == at' = [at EXCEPT ![w] = "idle"] /\ target' = [target EXCEPT ![w] = NoPath]
Unlock(p) == pathLocks' = [pathLocks EXCEPT ![p] = Nobody]
-----------------------------------------------------------------------------
(* What follows the checks before writing: a file that verifies is enough.  *)
(* The read of a good file may fail, for want of descriptors or the like.   *)
AfterCheck(p, otherwise) == {otherwise} \cup {l \in {"commit"} : Verifies(p, encryptKey)}

(* Write: the first check, without the lock. *)
WriteStart(w, p) ==
    /\ at[w] = "idle"
    /\ target' = [target EXCEPT ![w] = p]
    /\ \E l \in AfterCheck(p, "lock") : at' = [at EXCEPT ![w] = l]
    /\ UNCHANGED <<fileVars, encryptKey, pathLocks, rows, pastVars>>

(* Variant for testing the checks: takes no lock.                           *)
RecheckUnlocked(w) ==
    LET p == target[w] IN
    /\ at[w] = "lock"
    /\ \E l \in AfterCheck(p, "write") :
         /\ Goto(w, l)
         /\ pathLocks' = [pathLocks EXCEPT ![p] = IF l = "write" THEN w ELSE Nobody]
    /\ UNCHANGED <<fileVars, encryptKey, rows, pastVars>>

(* lockPath, and the same check again under the lock. *)
LockAndRecheck(w) ==
    LET p == target[w] IN
    /\ at[w] = "lock"
    /\ pathLocks[p] = Nobody
    /\ \E l \in AfterCheck(p, "write") :
         /\ Goto(w, l)
         /\ pathLocks' = [pathLocks EXCEPT ![p] = IF l = "write" THEN w ELSE Nobody]
    /\ UNCHANGED <<fileVars, encryptKey, rows, pastVars>>

(* Variant for testing the checks: writes the blob itself, not a sibling.   *)
WriteInPlace(w) ==
    /\ at[w] = "write"
    /\ file' = [file EXCEPT ![target[w]] = Garbled]
    /\ Goto(w, "rename")
    /\ UNCHANGED <<synced, encryptKey, pathLocks, rows, pastVars>>

(* MkdirAll, encode, and the temporary file: written, synced and closed. *)
WriteTemp(w) ==
    /\ at[w] = "write"
    /\ Goto(w, "rename")
    /\ UNCHANGED <<fileVars, encryptKey, pathLocks, rows, pastVars>>

(* Variant for testing the checks: an error path that keeps the lock.       *)
WriteFailsLocked(w) ==
    /\ at[w] \in {"write", "rename"}
    /\ Return(w)
    /\ UNCHANGED <<fileVars, encryptKey, pathLocks, rows, pastVars>>

(* Any of it fails: the temporary file is removed and Write returns an error. *)
WriteFails(w) ==
    /\ at[w] \in {"write", "rename"}
    /\ Return(w)
    /\ Unlock(target[w])
    /\ UNCHANGED <<fileVars, encryptKey, rows, pastVars>>

(* The directory is not synced. *)
Rename(w) ==
    LET p == target[w] IN
    /\ at[w] = "rename"
    /\ file' = [file EXCEPT ![p] = encryptKey]
    /\ spoiled' = spoiled \ {p}
    /\ Goto(w, "verify")
    /\ UNCHANGED <<synced, encryptKey, pathLocks, rows, mishaps, crashes>>

VerifyWritten(w) ==
    LET p == target[w] IN
    /\ at[w] = "verify"
    /\ IF Verifies(p, encryptKey)
         THEN Goto(w, "commit") /\ Unlock(p)
         ELSE Goto(w, "remove") /\ UNCHANGED pathLocks
    /\ UNCHANGED <<fileVars, encryptKey, rows, pastVars>>

(* The read back fails although the file is good: it will be removed, even  *)
(* when the writer replaced a file that other rows already name.            *)
ReadBackFails(w) ==
    LET p == target[w] IN
    /\ at[w] = "verify"
    /\ Verifies(p, encryptKey)
    /\ mishaps < MaxMishaps
    /\ mishaps' = mishaps + 1
    /\ spoiled' = spoiled \cup {p}
    /\ Goto(w, "remove")
    /\ UNCHANGED <<fileVars, encryptKey, pathLocks, rows, crashes>>

(* os.Remove, whose own error is ignored. *)
RemoveUnverified(w) ==
    LET p == target[w] IN
    /\ at[w] = "remove"
    /\ file' \in {file, [file EXCEPT ![p] = Absent]}
    /\ Return(w)
    /\ Unlock(p)
    /\ UNCHANGED <<synced, encryptKey, rows, pastVars>>

(* archiveOne, after Write returned: the transaction, which may fail. *)
CommitRow(w) ==
    /\ at[w] = "commit"
    /\ rows' = rows \cup {target[w]}
    /\ Return(w)
    /\ UNCHANGED <<fileVars, encryptKey, pathLocks, pastVars>>

CommitFails(w) ==
    /\ at[w] = "commit"
    /\ Return(w)
    /\ UNCHANGED <<fileVars, encryptKey, pathLocks, rows, pastVars>>

WriterStep(w) ==
    \/ LockAndRecheck(w)
    \/ WriteTemp(w) \/ WriteFails(w) \/ Rename(w)
    \/ VerifyWritten(w) \/ ReadBackFails(w) \/ RemoveUnverified(w)
    \/ CommitRow(w) \/ CommitFails(w)
-----------------------------------------------------------------------------
(* The file system writes its directories some time after a rename. *)
SyncDirectories ==
    /\ synced # file
    /\ synced' = file
    /\ UNCHANGED <<file, encryptKey, writerVars, rows, pastVars>>

(* All writers are gone, with their locks. *)
ProcessEnds ==
    /\ pathLocks' = [p \in Path |-> Nobody]
    /\ at' = [w \in Writer |-> "idle"]
    /\ target' = [w \in Writer |-> NoPath]

CrashProcess ==
    /\ crashes < MaxCrashes
    /\ crashes' = crashes + 1
    /\ ProcessEnds
    /\ UNCHANGED <<fileVars, encryptKey, rows, spoiled, mishaps>>

(* What a mishap adds to the history. *)
NoteMishap ==
    LET before == {p \in Path : Verifies(p, encryptKey)}
        after == {p \in Path : file'[p] = encryptKey'}
    IN
    /\ mishaps < MaxMishaps
    /\ mishaps' = mishaps + 1
    /\ spoiled' = (spoiled \cup (before \ after)) \ (after \ before)
    /\ UNCHANGED crashes

(* Authenticated encryption notices every damage; plain zstd may not. *)
Decay(p) ==
    /\ file[p] \in Key
    /\ \E c \in IF file[p] = NoKey THEN {Garbled, Altered} ELSE {Garbled} :
         /\ file' = [file EXCEPT ![p] = c]
         /\ synced' = [synced EXCEPT ![p] = IF @ = file[p] THEN c ELSE @]
    /\ UNCHANGED <<encryptKey, writerVars, rows>>
    /\ NoteMishap

(* Renames that were not written yet are lost, and so may commits be        *)
(* (synchronous = NORMAL), each without the other.                          *)
PowerFailure ==
    /\ \E gone \in SUBSET {p \in Path : file[p] # synced[p]} :
         file' = [p \in Path |-> IF p \in gone THEN synced[p] ELSE file[p]]
    /\ synced' = file'
    /\ rows' \in SUBSET rows
    /\ ProcessEnds
    /\ UNCHANGED encryptKey
    /\ NoteMishap

(* A restart after encrypt_blobs or the master key was changed. *)
ChangeKey(k) ==
    /\ k # encryptKey
    /\ encryptKey' = k
    /\ ProcessEnds
    /\ UNCHANGED <<fileVars, rows>>
    /\ NoteMishap

Machine ==
    \/ SyncDirectories
    \/ CrashProcess
    \/ PowerFailure
    \/ \E p \in Path : Decay(p)
    \/ \E k \in Key : ChangeKey(k)

BlobNext ==
    \/ \E w \in Writer : WriterStep(w) \/ \E p \in Path : WriteStart(w, p)
    \/ Machine

BlobSpec == BlobInit /\ [][BlobNext]_blobVars
=============================================================================
