-------------------------------- MODULE Fsck --------------------------------
(***************************************************************************)
(* giraffemail fsck beside a running server (internal/store/fsck.go and    *)
(* runFsck in cmd/giraffemail/main.go): a process of its own, with the key *)
(* of the configuration it was started with, walks the files one by one    *)
(* and then reads the rows in one query.  Files and rows meet by checksum, *)
(* whatever the account.                                                   *)
(***************************************************************************)
EXTENDS BlobStore

VARIABLES
    fpc,                   \* "idle", "walk" or "done", a report there is
    fkey,                  \* the key it verifies with
    unvisited,             \* SUBSET Path: what is left of the walk
    walked,                \* SUBSET Path: the files it met
    corrupt,               \* SUBSET Path
    missingBlobs,          \* SUBSET Path: rows whose checksum it did not meet
    orphanedBlobs,         \* SUBSET Text: checksums no row names
    rowsBefore,            \* history: the sound rows there were when it started
    rowsRead,              \* history: the rows its query returned
    spoiledSince           \* history: what was spoiled since then

fsckVars == <<fpc, fkey, unvisited, walked, corrupt, missingBlobs, orphanedBlobs,
              rowsBefore, rowsRead, spoiledSince>>
vars == <<blobVars, fsckVars>>

TypeOK ==
    /\ BlobTypeOK
    /\ fpc \in {"idle", "walk", "done"}
    /\ fkey \in Key
    /\ unvisited \in SUBSET Path
    /\ walked \in SUBSET Path
    /\ corrupt \in SUBSET Path
    /\ missingBlobs \in SUBSET Path
    /\ orphanedBlobs \in SUBSET Text
    /\ rowsBefore \in SUBSET Path
    /\ rowsRead \in SUBSET Path
    /\ spoiledSince \in SUBSET Path

Init ==
    /\ BlobInit
    /\ fpc = "idle"
    /\ fkey = NoKey
    /\ unvisited = {}
    /\ walked = {}
    /\ corrupt = {}
    /\ missingBlobs = {}
    /\ orphanedBlobs = {}
    /\ rowsBefore = {}
    /\ rowsRead = {}
    /\ spoiledSince = {}

FsckStart ==
    /\ fpc \in {"idle", "done"}
    /\ fpc' = "walk"
    /\ fkey' = encryptKey
    /\ unvisited' = Path
    /\ walked' = {}
    /\ corrupt' = {}
    /\ missingBlobs' = {}
    /\ orphanedBlobs' = {}
    /\ rowsBefore' = rows \ spoiled
    /\ rowsRead' = {}
    /\ spoiledSince' = {p \in spoiled : Verifies(p, encryptKey)}   \* about to be removed
    /\ UNCHANGED blobVars

(* The checksums of the files, without their accounts. *)
diskBlobs == {p[2] : p \in walked}

(* Variant for testing the checks: verifies a checksum only once.           *)
VisitOnce(p) ==
    /\ fpc = "walk"
    /\ p \in unvisited
    /\ unvisited' = unvisited \ {p}
    /\ walked' = walked \cup {q \in {p} : file[q] # Absent}
    /\ corrupt' = corrupt \cup {q \in {p} : /\ file[q] \notin {Absent, fkey}
                                           /\ q[2] \notin diskBlobs}
    /\ UNCHANGED <<blobVars, fpc, fkey, missingBlobs, orphanedBlobs, rowsBefore,
                   rowsRead, spoiledSince>>

(* Variant for testing the checks: keeps names where it means checksums.    *)
CrossReferenceNames ==
    /\ fpc = "walk"
    /\ unvisited = {}
    /\ fpc' = "done"
    /\ rowsRead' = rows
    /\ missingBlobs' = {p \in rows : p[2] \notin diskBlobs}
    /\ orphanedBlobs' = {p \in walked : p \notin rows}
    /\ UNCHANGED <<blobVars, fkey, unvisited, walked, corrupt, rowsBefore, spoiledSince>>

(* Variant for testing the checks: goes on after an interrupted walk.       *)
CrossReferenceEarly ==
    /\ fpc = "walk"
    /\ fpc' = "done"
    /\ unvisited' = {}
    /\ rowsRead' = rows
    /\ missingBlobs' = {p \in rows : p[2] \notin diskBlobs}
    /\ orphanedBlobs' = {t \in diskBlobs : \A p \in rows : p[2] # t}
    /\ UNCHANGED <<blobVars, fkey, walked, corrupt, rowsBefore, spoiledSince>>

(* One entry of WalkDir, in any order; a path without a file is no entry. *)
Visit(p) ==
    /\ fpc = "walk"
    /\ p \in unvisited
    /\ unvisited' = unvisited \ {p}
    /\ walked' = walked \cup {q \in {p} : file[q] # Absent}
    /\ corrupt' = corrupt \cup {q \in {p} : file[q] # Absent /\ ~Verifies(q, fkey)}
    /\ UNCHANGED <<blobVars, fpc, fkey, missingBlobs, orphanedBlobs, rowsBefore,
                   rowsRead, spoiledSince>>

(* The query over messages, and the two cross-references. *)
CrossReference ==
    /\ fpc = "walk"
    /\ unvisited = {}
    /\ fpc' = "done"
    /\ rowsRead' = rows
    /\ missingBlobs' = {p \in rows : p[2] \notin diskBlobs}
    /\ orphanedBlobs' = {t \in diskBlobs : \A p \in rows : p[2] # t}
    /\ UNCHANGED <<blobVars, fkey, unvisited, walked, corrupt, rowsBefore, spoiledSince>>

(* Interrupted, or ended with the machine: no report. *)
FsckEnds ==
    /\ fpc' = "idle"
    /\ unvisited' = {} /\ walked' = {} /\ corrupt' = {}
    /\ missingBlobs' = {} /\ orphanedBlobs' = {}
    /\ rowsBefore' = {} /\ rowsRead' = {} /\ spoiledSince' = {}
    /\ fkey' = NoKey

FsckInterrupted == fpc # "idle" /\ FsckEnds /\ UNCHANGED blobVars

(* What the store does while fsck runs. *)
Beside ==
    /\ spoiledSince' = IF fpc = "idle" THEN {} ELSE spoiledSince \cup (spoiled' \ spoiled)
    /\ UNCHANGED <<fpc, fkey, unvisited, walked, corrupt, missingBlobs, orphanedBlobs,
                   rowsBefore, rowsRead>>

StoreStep == (\E w \in Writer : WriterStep(w)) /\ Beside
StartStep == (\E w \in Writer, p \in Path : WriteStart(w, p)) /\ Beside
MachineStep ==
    \/ SyncDirectories /\ Beside
    \/ CrashProcess /\ Beside
    \/ (\E p \in Path : Decay(p)) /\ Beside
    \/ (\E k \in Key : ChangeKey(k)) /\ Beside
    \/ PowerFailure /\ FsckEnds

FsckNext == FsckStart \/ (\E p \in Path : Visit(p)) \/ CrossReference \/ FsckInterrupted

Next == StoreStep \/ StartStep \/ MachineStep \/ FsckNext

Spec == Init /\ [][Next]_vars
-----------------------------------------------------------------------------
(* Every row of the database has a blob that Read returns the text of,     *)
(* until a mishap of the machine, a lost rename or another key spoils it;   *)
(* no interleaving of writers, failed write or crash of the process does,  *)
(* and a Write of the same text repairs what was spoiled (BlobStore.Write, *)
(* archiveOne).                                                             *)
RowsAreReadable == \A p \in rows \ spoiled : Read(p) = "text"

(* A report without a corrupt or missing blob means that every message it  *)
(* read is readable, those archived meanwhile included, but for what was   *)
(* spoiled since, and for a blob that is gone while fsck met one of the same text   *)
(* of another account (Fsck's maps are keyed by the checksum alone).        *)
CleanReportIsTrue ==
    fpc = "done" /\ corrupt = {} /\ missingBlobs = {} /\ fkey = encryptKey =>
        \A p \in rowsRead \ spoiledSince :
            \/ Read(p) = "text"
            \/ p \notin walked /\ p[2] \in diskBlobs

(* A message that was archived before fsck began is reported as missing    *)
(* only if its blob was lost; one archived during the walk may be reported *)
(* although its blob is there (Fsck reads the rows after the files).       *)
OldRowsAreNotMissing ==
    fpc = "done" => missingBlobs \cap rowsBefore \subseteq spoiledSince

(* A path lock is held by the one writer that is writing this file, so     *)
(* every way out of Write gave its lock back, and the file a writer removes *)
(* is its own (lockPath and the deferred unlock).                           *)
LocksAreOwned ==
    \A p \in Path, w \in Writer :
        pathLocks[p] = w <=>
            target[w] = p /\ at[w] \in {"write", "rename", "verify", "remove"}

(* The store implements the vault that the rest of the program relies on:  *)
(* blobs come one Write at a time, rows only name what Write returned, and *)
(* nothing but a mishap takes a blob away.                                  *)
Vault == INSTANCE BlobVault WITH
    kept <- {p \in Path \ spoiled : Verifies(p, encryptKey)},
    lost <- spoiled,
    referenced <- rows

ImplementsVault == Vault!VaultSpec
=============================================================================
