----------------------------- MODULE GiraffeMail -----------------------------
(***************************************************************************)
(* The archive of one mail account: the mail server, the database and the  *)
(* blob store, the synchronisation, cleanup runs and restores, composed as *)
(* the process runs them: goroutines that share the database and the       *)
(* server and nothing else, and that all die together in a crash.          *)
(***************************************************************************)
EXTENDS Sync, Cleanup, Restore

vars == <<serverVars, storeVars, syncVars, faults, cleanupVars, restoreVars>>

Init ==
    /\ ServerInit
    /\ StoreInit
    /\ SyncInit
    /\ CleanupInit
    /\ RestoreInit

ServerStep == ServerNext /\ UNCHANGED <<storeVars, syncVars, faults, cleanupVars, restoreVars>>

SyncStep == SyncNext /\ UNCHANGED <<cleanupVars, restoreVars>>

JobStep == JobNext /\ UNCHANGED <<syncVars, faults, restoreVars>>

RunStep(r) == RunNext(r) /\ UNCHANGED <<syncVars, faults, restoreVars>>

RestoreStep == RestoreNext /\ UNCHANGED <<syncVars, faults, cleanupVars>>

(* The process stops.  Database and blobs stay as the committed transactions  *)
(* and completed writes left them, with the status of a run that was at work. *)
Crash ==
    /\ Fault
    /\ syncPc' = "idle"
    /\ todo' = {}
    /\ box' = AnyMailbox
    /\ session' = 0
    /\ metas' = NoMetas
    /\ metaFlags' = {}
    /\ newHighest' = 0
    /\ seen' = {}
    /\ pending' = {}
    /\ fetched' = NoFetch
    /\ run' = [r \in Run |-> NoRun]
    /\ restore' = NoRequest
    /\ UNCHANGED <<serverVars, storeVars, runStatus, runFaults, restores>>

Next ==
    \/ ServerStep
    \/ SyncStep
    \/ JobStep
    \/ \E r \in Run : RunStep(r)
    \/ RestoreStep
    \/ Crash

Spec == Init /\ [][Next]_vars

(* The ticker of runServe starts a synchronisation every five minutes and a   *)
(* goroutine that runs is scheduled; nothing makes users or the server act.   *)
FairSpec ==
    /\ Spec
    /\ WF_vars(SyncStep)
    /\ \A r \in Run : WF_vars(RunStep(r))

-----------------------------------------------------------------------------
(* Every variable holds a value its Go type or column admits. *)
TypeOK ==
    /\ ServerTypeOK
    /\ StoreTypeOK
    /\ SyncTypeOK
    /\ CleanupTypeOK
    /\ RestoreTypeOK

(* The schema's "archive state" fields: a row with archived_at set has a      *)
(* checksum, and its blob is in the store, whatever crashed or failed between *)
(* the blob write and the transaction of archiveOne, and whatever ran         *)
(* meanwhile.                                                                 *)
ArchivedHasBlob ==
    \A mb \in Mailbox : \A u \in archivedAt[mb] : blobSha256[mb][u] \in blobs

(* Why it holds: the body archiveOne works on belongs to a row that is still  *)
(* unarchived and, once the transaction starts, its blob is written.  What a  *)
(* restore is about to append it has read from a blob.                        *)
ArchiveInv ==
    /\ ArchivedHasBlob
    /\ syncPc \in {"bodies", "blob", "row"} => pending \cap archivedAt[box] = {}
    /\ syncPc \in {"blob", "row"} => fetched.uid \in pending /\ fetched.raw \in Body
    /\ syncPc = "row" => fetched.raw \in blobs
    /\ restore.pc = "append" => restore.raw \in blobs

(* While UIDVALIDITY stays, the blob of a row is the message whose metadata   *)
(* the row shows: body and envelope are fetched in different phases and       *)
(* sessions, tied only by the UID.                                            *)
ArchivedIsIndexedMessage ==
    \A mb \in Mailbox : \A u \in archivedAt[mb] : blobSha256[mb][u] = envelope[mb][u]

(* While UIDVALIDITY stays, the cursor never passes a message that has no     *)
(* row: a message at or below highest_uid that was not indexed would never be *)
(* fetched again.  Batches fail and the process crashes between them.         *)
CursorCovers ==
    \A mb \in Mailbox : \A u \in Present(mb) : u <= highestUid[mb] => u \in indexed[mb]

(* deleted_from_server_at is set only on rows whose message is gone, whether  *)
(* reconcileDeletions or a cleanup run set it and whatever either had read    *)
(* before the other acted.                                                    *)
DeletedIsGone ==
    \A mb \in Mailbox : deletedFromServerAt[mb] \cap Present(mb) = {}

(* Text b is in the archive: a row marked archived has it, and its blob is there. *)
InArchive(b) ==
    b \in blobs /\ \E mb \in Mailbox : \E u \in archivedAt[mb] : blobSha256[mb][u] = b

(* The golden rule: when a step of a cleanup run takes a message off the      *)
(* server, that message, by its text and not by a UID, is in the archive.     *)
GoldenRule ==
    [][run' # run =>
          \A mb \in Mailbox, u \in Uid :
              u \in Present(mb) /\ msgs'[mb][u] # msgs[mb][u] => InArchive(msgs[mb][u])]_vars

(* Why the golden rule holds when UIDVALIDITY stays and no other client leaves *)
(* \Deleted flags: UIDs are handed out once, so the message under the UID of  *)
(* an archived row, if there is one, is the one that was archived; what a run  *)
(* picked is archived; and what carries the flag was picked by a run, or is a  *)
(* copy of such a message, or was restored from the archive.                   *)
UidsAreFresh ==
    \A mb \in Mailbox :
        /\ \A u \in Present(mb) : u < uidNext[mb]
        /\ \A u \in archivedAt[mb] : u < uidNext[mb]
        /\ syncPc \in {"blob", "row"} => fetched.uid < uidNext[box]

UidsNameOneMessage ==
    /\ \A mb \in Mailbox : \A u \in archivedAt[mb] : msgs[mb][u] \in {NoBody, blobSha256[mb][u]}
    /\ syncPc \in {"blob", "row"} => msgs[box][fetched.uid] \in {NoBody, fetched.raw}

PickedIsArchived ==
    \A r \in Run :
        /\ \A mb \in Mailbox : run[r].picks[mb] \subseteq archivedAt[mb]
        /\ run[r].chunk \subseteq archivedAt[run[r].box]
        /\ run[r].left \subseteq run[r].chunk
        /\ run[r].pc \in {"list", "mailbox", "chunk"} => run[r].chunk = {}

FlaggedIsArchived ==
    /\ \A mb \in Mailbox : \A u \in flagged[mb] : InArchive(msgs[mb][u])
    /\ restore.pc = "append" => InArchive(restore.raw)

GoldenInv == UidsAreFresh /\ UidsNameOneMessage /\ PickedIsArchived /\ FlaggedIsArchived

(* A move keeps the message: whatever part of MOVE, or of COPY, STORE and     *)
(* EXPUNGE, succeeded, what leaves a mailbox in a step of a move run is still *)
(* somewhere on the server, as long as no other client and no run that deletes *)
(* takes away what the move relies on.                                        *)
MoveKeepsMessage ==
    [][(\E r \in Run : run[r].action = "move" /\ run'[r] # run[r]) =>
          \A mb \in Mailbox : \A u \in Present(mb) :
              \E to \in Mailbox : \E v \in Uid : msgs'[to][v] = msgs[mb][u]]_vars

(* A cleanup run puts the \Deleted flag only on messages that are in the      *)
(* archive, also when other clients flag and unflag in the same mailbox.      *)
FlagsOnlyArchived ==
    [][run' # run =>
          \A mb \in Mailbox : \A u \in flagged'[mb] \ flagged[mb] : InArchive(msgs'[mb][u])]_vars

(* What is archived stays as it is: no later step, and no change of           *)
(* UIDVALIDITY, takes the mark or puts another checksum under the row.        *)
ArchiveIsImmutable ==
    [][\A mb \in Mailbox : \A u \in archivedAt[mb] :
          u \in archivedAt'[mb] /\ blobSha256'[mb][u] = blobSha256[mb][u]]_vars

(* What a restore appends is the message its row describes. *)
RestoreExact ==
    restore.pc = "append" => restore.raw = envelope[restore.box][restore.uid]

(* Every message that stays on the server is archived in the end, whatever    *)
(* finitely many failures and crashes come before.                            *)
EventuallyArchived ==
    \A mb \in Mailbox, u \in Uid :
        u \in Present(mb) ~> (u \in archivedAt[mb] \/ u \notin Present(mb))

(* A cleanup run comes to its end, whatever fails: its loops make progress.   *)
RunsEnd == \A r \in Run : run[r].pc # "none" ~> run[r].pc = "none"

(* "UIDVALIDITY changed - re-indexing mailbox": after a change the mailbox is *)
(* indexed under its new UIDVALIDITY in the end.                              *)
ReindexedAfterChange ==
    \A mb \in Mailbox :
        (storedValidity[mb] # uidValidity[mb] /\ Present(mb) # {})
            ~> (storedValidity[mb] = uidValidity[mb] \/ Present(mb) = {})

(* deleted_from_server_at is "NULL while still on server": the row of a       *)
(* message that left the server gets its mark in the end.                     *)
GoneIsMarked ==
    \A mb \in Mailbox, u \in Uid :
        (u \in indexed[mb] /\ u \notin Present(mb)) ~> u \in deletedFromServerAt[mb]

(* Everything there is, runs, crashes and moves in several steps, taken       *)
(* together keeps the promise of GoldenVault, where no other client deletes   *)
(* and UIDVALIDITY stays.                                                     *)
Golden == INSTANCE GoldenVault WITH
    server <- UNION {{msgs[mb][u] : u \in Present(mb)} : mb \in Mailbox},
    archive <- {b \in blobs : InArchive(b)}

ImplementsGoldenVault == Golden!GoldenSpec
=============================================================================
