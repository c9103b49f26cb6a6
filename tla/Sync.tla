-------------------------------- MODULE Sync --------------------------------
(***************************************************************************)
(* One synchronisation of one account: Engine.runAccount, which first      *)
(* indexes every mailbox (IndexMailbox) and then archives every mailbox    *)
(* (ArchiveMailbox).  The engine's per-account lock admits one at a time,  *)
(* and a ticker, the start of the server and the API start it again and    *)
(* again.                                                                  *)
(*                                                                         *)
(* Each IMAP command, each database transaction and each blob write is a   *)
(* step of its own: the server, cleanup runs and restores move in between. *)
(***************************************************************************)
EXTENDS ArchiveStore

CONSTANTS
    IndexBatch,     \* indexBatchSize: rows per upsert transaction
    MaxFaults       \* bound: failed calls and crashes in one behaviour

ASSUME SyncAssumption ==
    /\ IndexBatch \in Nat \ {0}
    /\ MaxFaults \in Nat

VARIABLES
    syncPc,     \* where runAccount is
    todo,       \* SUBSET Mailbox: mailboxes the current phase has not done
    box,        \* the selected mailbox
    session,    \* its UIDVALIDITY when it was selected
    metas,      \* [Uid -> Body or NoBody]: FetchMetadata's result, not yet upserted
    metaFlags,  \* SUBSET Uid: those of them whose FLAGS had \Deleted
    newHighest, \* the highest UID upserted so far
    seen,       \* SUBSET Uid: SearchAll's result
    pending,    \* SUBSET Uid: rows ArchiveMailbox has still to archive
    fetched,    \* [uid, raw]: the body archiveOne is working on
    faults      \* how many calls have failed so far

indexVars == <<metas, metaFlags, newHighest, seen>>
syncVars == <<syncPc, todo, box, session, indexVars, pending, fetched>>

NoMetas == [u \in Uid |-> NoBody]
NoFetch == [uid |-> 0, raw |-> NoBody]
Metas == {u \in Uid : metas[u] # NoBody}

SyncTypeOK ==
    /\ syncPc \in {"idle", "index", "fetch", "upsert", "advance", "search", "mark",
                   "archive", "bodies", "blob", "row"}
    /\ todo \in SUBSET Mailbox
    /\ box \in Mailbox
    /\ session \in 0 .. MaxValidity
    /\ metas \in [Uid -> Body \cup {NoBody}]
    /\ metaFlags \in SUBSET Uid
    /\ newHighest \in 0 .. MaxUid
    /\ seen \in SUBSET Uid
    /\ pending \in SUBSET Uid
    /\ fetched \in [uid : 0 .. MaxUid, raw : Body \cup {NoBody}]
    /\ faults \in 0 .. MaxFaults

SyncInit ==
    /\ syncPc = "idle"
    /\ todo = {}
    /\ box = AnyMailbox
    /\ session = 0
    /\ metas = NoMetas
    /\ metaFlags = {}
    /\ newHighest = 0
    /\ seen = {}
    /\ pending = {}
    /\ fetched = NoFetch
    /\ faults = 0

(* A call fails though nothing else explains it: network, disk, SQLITE_BUSY. *)
Fault == faults < MaxFaults /\ faults' = faults + 1

(* A call fails: by itself, or because the session of the mailbox is gone. *)
CallFails ==
    \/ Fault
    \/ ~SessionAlive(box, session) /\ UNCHANGED faults

CallWorks == SessionAlive(box, session) /\ UNCHANGED faults

-----------------------------------------------------------------------------
(* The loops of runAccount. *)

(* Connect, ListMailboxes and ensureMailboxes; when one of them fails the   *)
(* synchronisation ends before it has changed anything modelled here.       *)
SyncStart ==
    /\ syncPc = "idle"
    /\ syncPc' = "index"
    /\ todo' = Mailbox
    /\ UNCHANGED <<serverVars, storeVars, box, session, indexVars, pending, fetched,
                   faults>>

IndexDone ==
    /\ syncPc = "index" /\ todo = {}
    /\ syncPc' = "archive"
    /\ todo' = Mailbox
    /\ UNCHANGED <<serverVars, storeVars, box, session, indexVars, pending, fetched,
                   faults>>

SyncDone ==
    /\ syncPc = "archive" /\ todo = {}
    /\ syncPc' = "idle"
    /\ UNCHANGED <<serverVars, storeVars, todo, box, session, indexVars, pending,
                   fetched, faults>>

(* Leave mailbox mb, whether IndexMailbox succeeded or not: an error is     *)
(* logged and the loop continues with the next mailbox.                     *)
NextMailbox(mb, pc) ==
    /\ syncPc' = pc
    /\ todo' = todo \ {mb}
    /\ box' = AnyMailbox
    /\ session' = 0
    /\ metas' = NoMetas
    /\ metaFlags' = {}
    /\ newHighest' = 0
    /\ seen' = {}

-----------------------------------------------------------------------------
(* IndexMailbox. *)

ValidityChanged(mb) == storedValidity[mb] # 0 /\ uidValidity[mb] # storedValidity[mb]

SelectFails(mb, pc) ==
    /\ syncPc = pc /\ mb \in todo
    /\ Fault
    /\ NextMailbox(mb, pc)
    /\ UNCHANGED <<serverVars, storeVars, pending, fetched>>

(* UIDVALIDITY changed and the mailbox has rows: the UPDATE that resets them  *)
(* sets indexed_at to NULL, which its NOT NULL constraint refuses; the index  *)
(* of the mailbox ends with that error, before highest_uid is reset.          *)
ResetRefused(mb) ==
    /\ syncPc = "index" /\ mb \in todo
    /\ ValidityChanged(mb) /\ indexed[mb] # {}
    /\ NextMailbox(mb, "index")
    /\ UNCHANGED <<serverVars, storeVars, pending, fetched, faults>>

(* The highest UID the index continues from: 0 after a validity change. *)
StartFrom(mb) == IF ValidityChanged(mb) THEN 0 ELSE highestUid[mb]

Selected(mb) ==
    /\ syncPc = "index" /\ mb \in todo
    /\ ~(ValidityChanged(mb) /\ indexed[mb] # {})
    /\ highestUid' = [highestUid EXCEPT ![mb] = StartFrom(mb)]

(* NumMessages = 0: only the mailbox row is updated (updateMailboxMeta). *)
SelectEmpty(mb) ==
    /\ Selected(mb)
    /\ Present(mb) = {}
    /\ storedValidity' = [storedValidity EXCEPT ![mb] = uidValidity[mb]]
    /\ NextMailbox(mb, "index")
    /\ UNCHANGED <<serverVars, rowVars, deletedFromServerAt, blobs, pending,
                   fetched, faults>>

(* Variant for testing the checks: fetch only when SELECT reports more messages *)
(* than there are rows.                                                         *)
SelectMailboxIfGrown(mb) ==
    /\ Selected(mb)
    /\ Present(mb) # {}
    /\ IF Cardinality(Present(mb)) > Cardinality(indexed[mb] \ deletedFromServerAt[mb])
          THEN /\ syncPc' = "fetch"
               /\ box' = mb
               /\ session' = uidValidity[mb]
               /\ UNCHANGED <<todo, indexVars>>
          ELSE NextMailbox(mb, "index")
    /\ UNCHANGED <<serverVars, rowVars, deletedFromServerAt, storedValidity, blobs,
                   pending, fetched, faults>>

SelectMailbox(mb) ==
    /\ Selected(mb)
    /\ Present(mb) # {}
    /\ syncPc' = "fetch"
    /\ box' = mb
    /\ session' = uidValidity[mb]
    /\ UNCHANGED <<serverVars, rowVars, deletedFromServerAt, storedValidity, blobs,
                   todo, indexVars, pending, fetched, faults>>

(* FETCH highest+1:*, which always returns the last message of the mailbox;  *)
(* nothing comes back only when the mailbox was emptied since SELECT.        *)
FetchMetadata ==
    /\ syncPc = "fetch"
    /\ CallWorks
    /\ LET got == FromUid(box, highestUid[box] + 1)
       IN /\ metas' = [u \in Uid |-> IF u \in got THEN msgs[box][u] ELSE NoBody]
          /\ metaFlags' = got \cap flagged[box]
          /\ syncPc' = IF got = {} THEN "search" ELSE "upsert"
    /\ UNCHANGED <<serverVars, storeVars, todo, box, session, newHighest, seen,
                   pending, fetched>>

(* Variant for testing the checks: a batch that fails is skipped, and the UIDs *)
(* of the others move the cursor past it.                                       *)
UpsertMetaBatchSkipping ==
    /\ syncPc = "upsert"
    /\ \E batch \in SUBSET Metas :
          /\ batch # {}
          /\ batch = Metas \/ Cardinality(batch) = IndexBatch
          /\ Cardinality(batch) <= IndexBatch
          /\ \/ InsertRows(box, batch, metas, metaFlags) /\ UNCHANGED faults
             \/ UNCHANGED <<indexed, envelope, flagsJson>> /\ Fault
          /\ metas' = [u \in Uid |-> IF u \in batch THEN NoBody ELSE metas[u]]
          /\ metaFlags' = metaFlags \ batch
          /\ newHighest' \in batch \cup {newHighest}
          /\ \A u \in batch \cup {newHighest} : u <= newHighest'
          /\ syncPc' = IF batch = Metas THEN "advance" ELSE "upsert"
    /\ UNCHANGED <<serverVars, archivedAt, blobSha256, deletedFromServerAt,
                   cursorVars, blobs, todo, box, session, seen, pending, fetched>>

(* The next indexBatchSize metas, one transaction per batch.  The server may *)
(* return them in any order, so any metas can be the next batch.             *)
UpsertMetaBatch ==
    /\ syncPc = "upsert"
    /\ UNCHANGED faults
    /\ \E batch \in SUBSET Metas :
          /\ batch # {}
          /\ batch = Metas \/ Cardinality(batch) = IndexBatch
          /\ Cardinality(batch) <= IndexBatch
          /\ InsertRows(box, batch, metas, metaFlags)
          /\ metas' = [u \in Uid |-> IF u \in batch THEN NoBody ELSE metas[u]]
          /\ metaFlags' = metaFlags \ batch
          /\ newHighest' \in batch \cup {newHighest}
          /\ \A u \in batch \cup {newHighest} : u <= newHighest'
          /\ syncPc' = IF batch = Metas THEN "advance" ELSE "upsert"
    /\ UNCHANGED <<serverVars, archivedAt, blobSha256, deletedFromServerAt,
                   cursorVars, blobs, todo, box, session, seen, pending, fetched>>

(* Variant for testing the checks: the next UID to expect is stored, one too far. *)
AdvanceCursorTooFar ==
    /\ syncPc = "advance"
    /\ highestUid' = [highestUid EXCEPT ![box] = newHighest + 1]
    /\ storedValidity' = [storedValidity EXCEPT ![box] = session]
    /\ syncPc' = "search"
    /\ UNCHANGED <<serverVars, rowVars, deletedFromServerAt, blobs, todo, box,
                   session, indexVars, pending, fetched, faults>>

(* highest_uid and uid_validity are written together, and only forward. *)
AdvanceCursor ==
    /\ syncPc = "advance"
    /\ IF newHighest > highestUid[box]
          THEN /\ highestUid' = [highestUid EXCEPT ![box] = newHighest]
               /\ storedValidity' = [storedValidity EXCEPT ![box] = session]
          ELSE UNCHANGED cursorVars
    /\ syncPc' = "search"
    /\ UNCHANGED <<serverVars, rowVars, deletedFromServerAt, blobs, todo, box,
                   session, indexVars, pending, fetched, faults>>

(* reconcileDeletions: first the UIDs of the server ... *)
SearchAll ==
    /\ syncPc = "search"
    /\ CallWorks
    /\ seen' = Present(box)
    /\ syncPc' = "mark"
    /\ UNCHANGED <<serverVars, storeVars, todo, box, session, metas, metaFlags, newHighest,
                   pending, fetched>>

(* ... then the rows that are not among them.  The UPDATEs are sent in       *)
(* chunks whose errors are ignored: after a fault any part may be missing.   *)
Missing == indexed[box] \ (deletedFromServerAt[box] \cup seen)

MarkMissing ==
    /\ syncPc = "mark"
    /\ \/ MarkDeletedFromServer(box, Missing) /\ UNCHANGED faults
       \/ Fault /\ \E part \in SUBSET Missing : MarkDeletedFromServer(box, part)
    /\ NextMailbox(box, "index")
    /\ UNCHANGED <<serverVars, rowVars, cursorVars, blobs, pending, fetched>>

(* Any call of IndexMailbox after SELECT fails.  A failed transaction is     *)
(* rolled back, so what earlier steps committed is all that stays; a failed  *)
(* reconcileDeletions is only logged, with the same effect.                  *)
IndexFails ==
    /\ syncPc \in {"fetch", "upsert", "advance", "search"}
    /\ IF syncPc \in {"fetch", "search"} THEN CallFails ELSE Fault
    /\ NextMailbox(box, "index")
    /\ UNCHANGED <<serverVars, storeVars, pending, fetched>>

-----------------------------------------------------------------------------
(* ArchiveMailbox. *)

(* Variant for testing the checks: the query forgets archived_at IS NULL. *)
UnarchivedOrNot(mb) == indexed[mb]

Unarchived(mb) == indexed[mb] \ archivedAt[mb]

(* SELECT, then the query for the rows with archived_at NULL.  The           *)
(* UIDVALIDITY that SELECT returns is not compared with the stored one.      *)
ArchiveSelect(mb) ==
    /\ syncPc = "archive" /\ mb \in todo
    /\ Unarchived(mb) # {}
    /\ syncPc' = "bodies"
    /\ box' = mb
    /\ session' = uidValidity[mb]
    /\ pending' = Unarchived(mb)
    /\ UNCHANGED <<serverVars, storeVars, todo, indexVars, fetched, faults>>

NothingPending(mb) ==
    /\ syncPc = "archive" /\ mb \in todo
    /\ Unarchived(mb) = {}
    /\ NextMailbox(mb, "archive")
    /\ UNCHANGED <<serverVars, storeVars, pending, fetched, faults>>

(* Variant for testing the checks: the bodies are matched to the rows by their *)
(* position in the response and not by UID.                                     *)
FetchBodyByPosition(u) ==
    /\ syncPc = "bodies"
    /\ CallWorks
    /\ u \in pending \cap Present(box)
    /\ \E other \in pending \cap Present(box) :
          fetched' = [uid |-> u, raw |-> msgs[box][other]]
    /\ syncPc' = "blob"
    /\ UNCHANGED <<serverVars, storeVars, todo, box, session, indexVars, pending>>

(* The server streams the bodies of a batch in its own order; archiveOne is  *)
(* called for each as it arrives.                                            *)
FetchBody(u) ==
    /\ syncPc = "bodies"
    /\ CallWorks
    /\ u \in pending \cap Present(box)
    /\ fetched' = [uid |-> u, raw |-> msgs[box][u]]
    /\ syncPc' = "blob"
    /\ UNCHANGED <<serverVars, storeVars, todo, box, session, indexVars, pending>>

(* Variant for testing the checks: the row is committed before the blob exists. *)
WriteBlobLater ==
    /\ syncPc = "blob"
    /\ syncPc' = "row"
    /\ UNCHANGED <<serverVars, storeVars, todo, box, session, indexVars, pending,
                   fetched, faults>>

(* BlobStore.Write returns only after the blob was read back and verified. *)
WriteBlob ==
    /\ syncPc = "blob"
    /\ blobs' = blobs \cup {fetched.raw}
    /\ syncPc' = "row"
    /\ UNCHANGED <<serverVars, rowVars, deletedFromServerAt, cursorVars, todo, box,
                   session, indexVars, pending, fetched, faults>>

ArchiveOne ==
    /\ syncPc = "row"
    /\ SetArchived(box, fetched.uid, fetched.raw)
    /\ pending' = pending \ {fetched.uid}
    /\ fetched' = NoFetch
    /\ syncPc' = "bodies"
    /\ UNCHANGED <<serverVars, indexed, envelope, flagsJson, deletedFromServerAt,
                   cursorVars, blobs, todo, box, session, indexVars, faults>>

(* archiveOne fails at the blob or in its transaction: the message is skipped. *)
ArchiveOneFails ==
    /\ syncPc \in {"blob", "row"}
    /\ Fault
    /\ pending' = pending \ {fetched.uid}
    /\ fetched' = NoFetch
    /\ syncPc' = "bodies"
    /\ UNCHANGED <<serverVars, storeVars, todo, box, session, indexVars>>

(* FETCH fails: the rest of its batch is given up, later batches still run. *)
FetchBodiesFails ==
    /\ syncPc = "bodies" /\ pending # {}
    /\ CallFails
    /\ \E lost \in SUBSET pending : lost # {} /\ pending' = pending \ lost
    /\ UNCHANGED <<serverVars, storeVars, syncPc, todo, box, session, indexVars,
                   fetched>>

(* Every batch is through; rows whose message is gone stay unarchived. *)
ArchiveMailboxDone ==
    /\ syncPc = "bodies"
    /\ pending = {} \/ (SessionAlive(box, session) /\ pending \cap Present(box) = {})
    /\ pending' = {}
    /\ NextMailbox(box, "archive")
    /\ UNCHANGED <<serverVars, storeVars, fetched, faults>>

SyncNext ==
    \/ SyncStart \/ IndexDone \/ SyncDone
    \/ \E mb \in Mailbox :
          \/ SelectFails(mb, "index") \/ SelectFails(mb, "archive")
          \/ ResetRefused(mb) \/ SelectEmpty(mb) \/ SelectMailbox(mb)
          \/ ArchiveSelect(mb) \/ NothingPending(mb)
    \/ FetchMetadata \/ UpsertMetaBatch \/ AdvanceCursor
    \/ SearchAll \/ MarkMissing \/ IndexFails
    \/ \E u \in Uid : FetchBody(u)
    \/ WriteBlob \/ ArchiveOne \/ ArchiveOneFails
    \/ FetchBodiesFails \/ ArchiveMailboxDone
=============================================================================
