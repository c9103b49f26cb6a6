------------------------------ MODULE Restore ------------------------------
(***************************************************************************)
(* POST /api/v1/restore/{id}: Service.Restore reads the blob of an         *)
(* archived row and appends it to the mailbox of the row                   *)
(* (service/export/service.go).  One request at a time is modelled; it     *)
(* takes no lock and interleaves with synchronisation and cleanup.         *)
(***************************************************************************)
EXTENDS ArchiveStore

CONSTANT MaxRestores    \* bound: restore requests in one behaviour

ASSUME RestoreAssumption == MaxRestores \in Nat

VARIABLES
    restore,        \* [pc, box, uid, raw, deleted]: the request in work
    restores        \* how many requests there were

restoreVars == <<restore, restores>>

RestoreTypeOK ==
    /\ restore \in [pc : {"none", "append", "mark"}, box : Mailbox, uid : 0 .. MaxUid,
                    raw : Body \cup {NoBody}, deleted : BOOLEAN]
    /\ restores \in 0 .. MaxRestores

NoRequest ==
    [pc |-> "none", box |-> AnyMailbox, uid |-> 0, raw |-> NoBody, deleted |-> FALSE]

RestoreInit ==
    /\ restore = NoRequest
    /\ restores = 0

(* Any archived row can be restored, also one whose message is still there. *)
RestoreTargets(mb) ==
    {u \in indexed[mb] : u \in archivedAt[mb] /\ blobSha256[mb][u] # NoBody}

(* GetRestoreTarget, which also reads the flags the message had when it was   *)
(* indexed, and the read of the blob, which fails when there is none.         *)
RestoreRequest(mb, u) ==
    /\ restore.pc = "none"
    /\ restores < MaxRestores
    /\ u \in RestoreTargets(mb)
    /\ blobSha256[mb][u] \in blobs
    /\ restore' = [pc |-> "append", box |-> mb, uid |-> u, raw |-> blobSha256[mb][u],
                   deleted |-> u \in flagsJson[mb]]
    /\ restores' = restores + 1
    /\ UNCHANGED <<serverVars, storeVars>>

(* APPEND, with the flags of the row. *)
RestoreAppend ==
    /\ restore.pc = "append"
    /\ AppendMessage(restore.box, restore.raw, restore.deleted)
    /\ \/ restore' = [restore EXCEPT !.pc = "mark"]
       \/ restore' = NoRequest                            \* appended, reply lost
    /\ UNCHANGED <<storeVars, restores>>

(* Opening the session or APPEND fails; the request ends with the error. *)
RestoreFails ==
    /\ restore.pc = "append"
    /\ restore' = NoRequest
    /\ UNCHANGED <<serverVars, storeVars, restores>>

(* MarkRestored, whose error is ignored. *)
RestoreMark ==
    /\ restore.pc = "mark"
    /\ \/ MarkRestored(restore.box, restore.uid)
       \/ UNCHANGED deletedFromServerAt
    /\ restore' = NoRequest
    /\ UNCHANGED <<serverVars, rowVars, cursorVars, blobs, restores>>

RestoreNext ==
    \/ \E mb \in Mailbox, u \in Uid : RestoreRequest(mb, u)
    \/ RestoreAppend \/ RestoreFails \/ RestoreMark
=============================================================================
