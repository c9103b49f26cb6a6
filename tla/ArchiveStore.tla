---------------------------- MODULE ArchiveStore ----------------------------
(***************************************************************************)
(* What GiraffeMail keeps on disk for one account: the rows of the tables  *)
(* mailboxes and messages that the archive and the cleanup read and write  *)
(* (internal/db/migrations/000001_initial_schema.sql), and the blob store  *)
(* (internal/store/blob.go).                                               *)
(*                                                                         *)
(* A row of messages is identified by (mailbox_id, uid), its UNIQUE key.   *)
(* A column that is NULL or set is a set of UIDs; a SHA-256 is identified  *)
(* with the text it is the checksum of, so blob_sha256 holds a Body.       *)
(***************************************************************************)
EXTENDS ImapServer

VARIABLES
    indexed,               \* [Mailbox -> SUBSET Uid]: the rows there are
    envelope,              \* [Mailbox -> [Uid -> Body or NoBody]]: whose metadata a row holds
    flagsJson,             \* [Mailbox -> SUBSET Uid]: rows whose flags_json lists \Deleted
    archivedAt,            \* [Mailbox -> SUBSET Uid]: archived_at IS NOT NULL
    blobSha256,            \* [Mailbox -> [Uid -> Body or NoBody]], NoBody for NULL
    deletedFromServerAt,   \* [Mailbox -> SUBSET Uid]: deleted_from_server_at IS NOT NULL
    highestUid,            \* [Mailbox -> Nat]: mailboxes.highest_uid
    storedValidity,        \* [Mailbox -> Nat]: mailboxes.uid_validity, 0 before the first index
    blobs                  \* SUBSET Body: the verified blobs of the account

rowVars == <<indexed, envelope, flagsJson, archivedAt, blobSha256>>
cursorVars == <<highestUid, storedValidity>>
storeVars == <<rowVars, deletedFromServerAt, cursorVars, blobs>>

StoreTypeOK ==
    /\ indexed \in [Mailbox -> SUBSET Uid]
    /\ envelope \in [Mailbox -> [Uid -> Body \cup {NoBody}]]
    /\ flagsJson \in [Mailbox -> SUBSET Uid]
    /\ archivedAt \in [Mailbox -> SUBSET Uid]
    /\ blobSha256 \in [Mailbox -> [Uid -> Body \cup {NoBody}]]
    /\ deletedFromServerAt \in [Mailbox -> SUBSET Uid]
    /\ highestUid \in [Mailbox -> 0 .. MaxUid]
    /\ storedValidity \in [Mailbox -> 0 .. MaxValidity]
    /\ blobs \in SUBSET Body

StoreInit ==
    /\ indexed = [mb \in Mailbox |-> {}]
    /\ envelope = [mb \in Mailbox |-> [u \in Uid |-> NoBody]]
    /\ flagsJson = [mb \in Mailbox |-> {}]
    /\ archivedAt = [mb \in Mailbox |-> {}]
    /\ blobSha256 = [mb \in Mailbox |-> [u \in Uid |-> NoBody]]
    /\ deletedFromServerAt = [mb \in Mailbox |-> {}]
    /\ highestUid = [mb \in Mailbox |-> 0]
    /\ storedValidity = [mb \in Mailbox |-> 0]
    /\ blobs = {}

(* INSERT ... ON CONFLICT(mailbox_id, uid) DO NOTHING, in one transaction. *)
InsertRows(mb, uids, metas, deleted) ==
    /\ indexed' = [indexed EXCEPT ![mb] = @ \cup uids]
    /\ flagsJson' = [flagsJson EXCEPT ![mb] = @ \cup ((uids \ indexed[mb]) \cap deleted)]
    /\ envelope' = [envelope EXCEPT ![mb] =
                       [u \in Uid |-> IF u \in uids \ indexed[mb] THEN metas[u] ELSE @[u]]]

(* The transaction of archiveOne: checksum and time of archiving together. *)
SetArchived(mb, u, b) ==
    /\ archivedAt' = [archivedAt EXCEPT ![mb] = @ \cup {u}]
    /\ blobSha256' = [blobSha256 EXCEPT ![mb][u] = b]

(* MarkDeletedFromServer and the UPDATE of reconcileDeletions. *)
MarkDeletedFromServer(mb, uids) ==
    deletedFromServerAt' = [deletedFromServerAt EXCEPT ![mb] = @ \cup uids]

MarkRestored(mb, u) ==
    deletedFromServerAt' = [deletedFromServerAt EXCEPT ![mb] = @ \ {u}]

(* The SQL of the cleanup's safety clause: archived, with a blob, not deleted. *)
SafetyCandidateSQL(mb) ==
    {u \in indexed[mb] : /\ u \in archivedAt[mb]
                         /\ blobSha256[mb][u] # NoBody
                         /\ u \notin deletedFromServerAt[mb]}

(* The gate each candidate passes again before any IMAP command: both archive *)
(* columns, read by the candidate query, are set.                             *)
IsSafe(mb, u) == u \in archivedAt[mb] /\ blobSha256[mb][u] # NoBody
=============================================================================
