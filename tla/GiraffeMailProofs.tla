-------------------------- MODULE GiraffeMailProofs --------------------------
(***************************************************************************)
(* Theorems about GiraffeMail, for every value of its constants.           *)
(***************************************************************************)
EXTENDS GiraffeMail, TLAPS

(* The mailbox a variable names when it names none is a mailbox. *)
LEMMA AnyMailboxType == AnyMailbox \in Mailbox
  BY ServerAssumption DEF AnyMailbox

(* A step of the synchronisation keeps the types of the rows and blobs. *)
LEMMA SyncKeepsStoreTypes ==
  ASSUME ServerTypeOK, StoreTypeOK, SyncTypeOK, ArchiveInv, SyncNext
  PROVE  StoreTypeOK'
<1> USE ServerAssumption DEF StoreTypeOK, Uid
<1>1. ASSUME UNCHANGED storeVars PROVE StoreTypeOK'
  BY <1>1 DEF storeVars, rowVars, cursorVars
<1>2. ASSUME NEW mb \in Mailbox, Selected(mb), UNCHANGED <<rowVars, deletedFromServerAt, blobs>>,
             storedValidity' \in [Mailbox -> 0 .. MaxValidity]
      PROVE  StoreTypeOK'
  BY <1>2 DEF Selected, StartFrom, rowVars
<1>3. ASSUME NEW mb \in Mailbox, SelectEmpty(mb) PROVE StoreTypeOK'
  <2>1. storedValidity' \in [Mailbox -> 0 .. MaxValidity]
    BY <1>3 DEF SelectEmpty, ServerTypeOK
  <2> QED BY <1>2, <1>3, <2>1 DEF SelectEmpty
<1>4. ASSUME NEW mb \in Mailbox, SelectMailbox(mb) PROVE StoreTypeOK'
  BY <1>2, <1>4 DEF SelectMailbox
<1>5. CASE UpsertMetaBatch
  <2> PICK batch \in SUBSET Metas : InsertRows(box, batch, metas, metaFlags)
    BY <1>5 DEF UpsertMetaBatch
  <2>1. batch \subseteq Uid
    BY DEF Metas
  <2>2. indexed' \in [Mailbox -> SUBSET Uid]
    BY <2>1 DEF InsertRows, SyncTypeOK
  <2>3. envelope' \in [Mailbox -> [Uid -> Body \cup {NoBody}]]
    BY <2>1 DEF InsertRows, SyncTypeOK
  <2>4. flagsJson' \in [Mailbox -> SUBSET Uid]
    BY <2>1 DEF InsertRows, SyncTypeOK
  <2> QED BY <1>5, <2>2, <2>3, <2>4 DEF UpsertMetaBatch, cursorVars
<1>6. CASE AdvanceCursor
  <2>1. CASE newHighest > highestUid[box]
    <3>1. newHighest \in 0 .. MaxUid /\ session \in 0 .. MaxValidity
      BY DEF SyncTypeOK
    <3>2. /\ highestUid' = [highestUid EXCEPT ![box] = newHighest]
          /\ storedValidity' = [storedValidity EXCEPT ![box] = session]
      BY <1>6, <2>1 DEF AdvanceCursor
    <3> QED BY <1>6, <3>1, <3>2 DEF AdvanceCursor, rowVars
  <2>2. CASE ~(newHighest > highestUid[box])
    BY <1>6, <2>2 DEF AdvanceCursor, rowVars, cursorVars
  <2> QED BY <2>1, <2>2
<1>7. CASE MarkMissing
  <2>1. PICK uids \in SUBSET Uid : MarkDeletedFromServer(box, uids)
    BY <1>7 DEF MarkMissing, Missing, SyncTypeOK
  <2>2. deletedFromServerAt' \in [Mailbox -> SUBSET Uid]
    BY <2>1 DEF MarkDeletedFromServer, SyncTypeOK
  <2> QED BY <1>7, <2>2 DEF MarkMissing, rowVars, cursorVars
<1>8. CASE WriteBlob
  <2>1. blobs' \in SUBSET Body
    BY <1>8 DEF WriteBlob, ArchiveInv
  <2> QED BY <1>8, <2>1 DEF WriteBlob, rowVars, cursorVars
<1>9. CASE ArchiveOne
  <2>1. fetched.uid \in Uid /\ fetched.raw \in Body
    BY <1>9 DEF ArchiveOne, ArchiveInv, SyncTypeOK
  <2>2. archivedAt' \in [Mailbox -> SUBSET Uid]
    BY <1>9, <2>1 DEF ArchiveOne, SetArchived, SyncTypeOK
  <2>3. blobSha256' \in [Mailbox -> [Uid -> Body \cup {NoBody}]]
    BY <1>9, <2>1 DEF ArchiveOne, SetArchived, SyncTypeOK
  <2> QED BY <1>9, <2>2, <2>3 DEF ArchiveOne, cursorVars
<1> QED
  BY <1>1, <1>3, <1>4, <1>5, <1>6, <1>7, <1>8, <1>9
  DEF SyncNext, SyncStart, IndexDone, SyncDone, SelectFails, ResetRefused, FetchMetadata,
      SearchAll, IndexFails, ArchiveSelect, NothingPending, FetchBody, ArchiveOneFails,
      FetchBodiesFails, ArchiveMailboxDone

(* A step of the synchronisation keeps the types of its own variables. *)
LEMMA SyncKeepsSyncTypes ==
  ASSUME ServerTypeOK, StoreTypeOK, SyncTypeOK, ArchiveInv, SyncNext
  PROVE  SyncTypeOK'
<1> USE DEF SyncTypeOK, Uid, indexVars
<1>1. faults' \in 0 .. MaxFaults
  BY SyncAssumption
  DEF SyncNext, SyncStart, IndexDone, SyncDone, SelectFails, ResetRefused, SelectEmpty,
      SelectMailbox, FetchMetadata, UpsertMetaBatch, AdvanceCursor, SearchAll, MarkMissing,
      IndexFails, ArchiveSelect, NothingPending, FetchBody, WriteBlob, ArchiveOne,
      ArchiveOneFails, FetchBodiesFails, ArchiveMailboxDone, CallFails, CallWorks, Fault
<1>2. ASSUME NEW mb, NEW pc \in {"index", "archive"}, NextMailbox(mb, pc),
             pending' \in SUBSET Uid, UNCHANGED fetched
      PROVE  SyncTypeOK'
  BY <1>1, <1>2, AnyMailboxType, ServerAssumption DEF NextMailbox, NoMetas
<1>3. CASE SyncStart \/ IndexDone \/ SyncDone
  BY <1>1, <1>3 DEF SyncStart, IndexDone, SyncDone
<1>4. ASSUME NEW mb \in Mailbox,
             \/ SelectFails(mb, "index") \/ SelectFails(mb, "archive")
             \/ ResetRefused(mb) \/ SelectEmpty(mb) \/ NothingPending(mb)
      PROVE  SyncTypeOK'
  BY <1>2, <1>4 DEF SelectFails, ResetRefused, SelectEmpty, NothingPending
<1>5. CASE IndexFails \/ MarkMissing \/ ArchiveMailboxDone
  BY <1>2, <1>5 DEF IndexFails, MarkMissing, ArchiveMailboxDone
<1>6. ASSUME NEW mb \in Mailbox, SelectMailbox(mb) \/ ArchiveSelect(mb) PROVE SyncTypeOK'
  <2>1. session' \in 0 .. MaxValidity
    BY <1>6, ServerAssumption DEF SelectMailbox, ArchiveSelect, ServerTypeOK
  <2>2. pending' \in SUBSET Uid
    BY <1>6 DEF SelectMailbox, ArchiveSelect, Unarchived, StoreTypeOK
  <2> QED BY <1>1, <1>6, <2>1, <2>2 DEF SelectMailbox, ArchiveSelect
<1>7. CASE FetchMetadata
  <2>1. metas' \in [Uid -> Body \cup {NoBody}]
    <3>1. PICK got : metas' = [u \in Uid |-> IF u \in got THEN msgs[box][u] ELSE NoBody]
      BY <1>7 DEF FetchMetadata
    <3>2. msgs[box] \in [Uid -> Body \cup {NoBody}]
      BY DEF ServerTypeOK
    <3> QED BY <3>1, <3>2
  <2>2. metaFlags' \in SUBSET Uid
    BY <1>7 DEF FetchMetadata, ServerTypeOK
  <2> QED BY <1>1, <1>7, <2>1, <2>2 DEF FetchMetadata
<1>8. CASE UpsertMetaBatch
  <2>1. PICK batch \in SUBSET Metas :
          /\ metas' = [u \in Uid |-> IF u \in batch THEN NoBody ELSE metas[u]]
          /\ newHighest' \in batch \cup {newHighest}
          /\ syncPc' = IF batch = Metas THEN "advance" ELSE "upsert"
    BY <1>8 DEF UpsertMetaBatch
  <2>2. newHighest' \in 0 .. MaxUid
    <3>1. batch \subseteq 1 .. MaxUid
      BY <2>1 DEF Metas
    <3> QED BY <2>1, <3>1, ServerAssumption
  <2>3. metas' \in [Uid -> Body \cup {NoBody}]
    BY <2>1
  <2> QED BY <1>1, <1>8, <2>1, <2>2, <2>3 DEF UpsertMetaBatch
<1>9. CASE AdvanceCursor BY <1>1, <1>9 DEF AdvanceCursor
<1>10. CASE SearchAll BY <1>1, <1>10 DEF SearchAll, Present
<1>11. ASSUME NEW u \in Uid, FetchBody(u) PROVE SyncTypeOK'
  <2>1. fetched' \in [uid : 0 .. MaxUid, raw : Body \cup {NoBody}]
    BY <1>11, ServerAssumption DEF FetchBody, ServerTypeOK
  <2> QED BY <1>1, <1>11, <2>1 DEF FetchBody
<1>12. CASE WriteBlob BY <1>1, <1>12 DEF WriteBlob
<1>13. CASE ArchiveOne \/ ArchiveOneFails
  <2>1. fetched' \in [uid : 0 .. MaxUid, raw : Body \cup {NoBody}]
    BY <1>13, ServerAssumption DEF ArchiveOne, ArchiveOneFails, NoFetch
  <2>2. pending' \in SUBSET Uid
    BY <1>13 DEF ArchiveOne, ArchiveOneFails
  <2> QED BY <1>1, <1>13, <2>1, <2>2 DEF ArchiveOne, ArchiveOneFails
<1>14. CASE FetchBodiesFails BY <1>1, <1>14 DEF FetchBodiesFails
<1> QED
  BY <1>3, <1>4, <1>5, <1>6, <1>7, <1>8, <1>9, <1>10, <1>11, <1>12, <1>13, <1>14 DEF SyncNext

(* Appending, moving, flagging and expunging keep the types of the server. *)
LEMMA ServerCommandTypes ==
  ASSUME ServerTypeOK, NEW mb \in Mailbox
  PROVE  /\ \A b \in Body, deleted \in BOOLEAN : AppendMessage(mb, b, deleted) => ServerTypeOK'
         /\ \A to \in Mailbox, u \in Present(mb) : MoveMessage(mb, u, to) => ServerTypeOK'
         /\ \A uids \in SUBSET Uid : StoreDeleted(mb, uids) => ServerTypeOK'
         /\ ExpungeFlagged(mb) => ServerTypeOK'
<1> USE ServerAssumption DEF ServerTypeOK, Uid
<1>1. ASSUME NEW b \in Body, NEW deleted \in BOOLEAN, AppendMessage(mb, b, deleted)
      PROVE  ServerTypeOK'
  <2>1. uidNext[mb] \in Uid
    BY <1>1 DEF AppendMessage, CanAppend
  <2>2. msgs' \in [Mailbox -> [Uid -> Body \cup {NoBody}]]
    BY <1>1, <2>1 DEF AppendMessage
  <2>3. uidNext' \in [Mailbox -> 1 .. MaxUid + 1]
    BY <1>1, <2>1 DEF AppendMessage
  <2>4. flagged' \in [Mailbox -> SUBSET Uid]
    BY <1>1, <2>1 DEF AppendMessage
  <2> QED BY <1>1, <2>2, <2>3, <2>4 DEF AppendMessage
<1>2. ASSUME NEW to \in Mailbox, NEW u \in Present(mb), MoveMessage(mb, u, to)
      PROVE  ServerTypeOK'
  <2>1. uidNext[to] \in Uid /\ u \in Uid /\ msgs[mb][u] \in Body
    BY <1>2 DEF MoveMessage, CanAppend, Present
  <2> DEFINE arrived == [msgs EXCEPT ![to][uidNext[to]] = msgs[mb][u]]
  <2>2. arrived \in [Mailbox -> [Uid -> Body \cup {NoBody}]]
    BY <2>1
  <2>3. msgs' = [arrived EXCEPT ![mb][u] = NoBody]
    BY <1>2 DEF MoveMessage
  <2>4. msgs' \in [Mailbox -> [Uid -> Body \cup {NoBody}]]
    <3> HIDE DEF arrived
    <3> QED BY <2>1, <2>2, <2>3
  <2>5. uidNext' \in [Mailbox -> 1 .. MaxUid + 1]
    BY <1>2, <2>1 DEF MoveMessage
  <2>6. flagged' \in [Mailbox -> SUBSET Uid]
    <3> DEFINE marked == [flagged EXCEPT ![to] =
                            IF u \in flagged[mb] THEN @ \cup {uidNext[to]} ELSE @]
    <3>1. marked \in [Mailbox -> SUBSET Uid]
      BY <2>1
    <3>2. flagged' = [marked EXCEPT ![mb] = @ \ {u}]
      BY <1>2 DEF MoveMessage
    <3> HIDE DEF marked
    <3> QED BY <3>1, <3>2
  <2> QED BY <1>2, <2>4, <2>5, <2>6 DEF MoveMessage
<1>3. ASSUME NEW uids \in SUBSET Uid, StoreDeleted(mb, uids) PROVE ServerTypeOK'
  BY <1>3 DEF StoreDeleted, Present
<1>4. ASSUME ExpungeFlagged(mb) PROVE ServerTypeOK'
  <2>1. msgs' \in [Mailbox -> [Uid -> Body \cup {NoBody}]]
    BY <1>4 DEF ExpungeFlagged
  <2>2. flagged' \in [Mailbox -> SUBSET Uid]
    BY <1>4 DEF ExpungeFlagged
  <2> QED BY <1>4, <2>1, <2>2 DEF ExpungeFlagged
<1> QED BY <1>1, <1>2, <1>3, <1>4

(* So does everything that happens on the server without the program. *)
LEMMA ServerKeepsTypes ==
  ASSUME ServerTypeOK, ServerNext
  PROVE  ServerTypeOK'
<1> PICK mb \in Mailbox :
      \/ \E b \in Body : Deliver(mb, b)
      \/ \E u \in Uid : ClientDelete(mb, u) \/ ClientFlag(mb, u) \/ ClientUnflag(mb, u)
      \/ Recreate(mb)
  BY DEF ServerNext
<1>1. ASSUME NEW b \in Body, Deliver(mb, b) PROVE ServerTypeOK'
  BY <1>1, ServerCommandTypes DEF Deliver
<1> USE ServerAssumption DEF ServerTypeOK, Uid
<1>2. ASSUME NEW u \in Uid, ClientDelete(mb, u) PROVE ServerTypeOK'
  <2>1. msgs' \in [Mailbox -> [Uid -> Body \cup {NoBody}]]
    BY <1>2 DEF ClientDelete
  <2>2. flagged' \in [Mailbox -> SUBSET Uid]
    BY <1>2 DEF ClientDelete
  <2> QED BY <1>2, <2>1, <2>2 DEF ClientDelete
<1>3. ASSUME NEW u \in Uid, ClientFlag(mb, u) \/ ClientUnflag(mb, u) PROVE ServerTypeOK'
  <2>1. flagged' \in [Mailbox -> SUBSET Uid]
    <3>1. PICK uids \in SUBSET Uid : flagged' = [flagged EXCEPT ![mb] = uids]
      <4>1. flagged[mb] \cup {u} \in SUBSET Uid /\ flagged[mb] \ {u} \in SUBSET Uid
        OBVIOUS
      <4> QED BY <1>3, <4>1 DEF ClientFlag, ClientUnflag
    <3> QED BY <3>1
  <2> QED BY <1>3, <2>1 DEF ClientFlag, ClientUnflag
<1>4. ASSUME Recreate(mb) PROVE ServerTypeOK'
  <2>1. uidValidity' \in [Mailbox -> 1 .. MaxValidity]
    BY <1>4 DEF Recreate
  <2>2. msgs' \in [Mailbox -> [Uid -> Body \cup {NoBody}]]
    BY <1>4 DEF Recreate
  <2>3. flagged' \in [Mailbox -> SUBSET Uid] /\ uidNext' \in [Mailbox -> 1 .. MaxUid + 1]
    BY <1>4 DEF Recreate
  <2> QED BY <2>1, <2>2, <2>3
<1> QED BY <1>1, <1>2, <1>3, <1>4

(* A step of a restore keeps the types. *)
LEMMA RestoreKeepsTypes ==
  ASSUME ServerTypeOK, StoreTypeOK, RestoreTypeOK, RestoreNext,
         restore.pc = "append" => restore.raw \in Body
  PROVE  ServerTypeOK' /\ StoreTypeOK' /\ RestoreTypeOK'
<1> USE ServerAssumption, RestoreAssumption, AnyMailboxType
<1> DEFINE Goal == ServerTypeOK' /\ StoreTypeOK' /\ RestoreTypeOK'
<1>1. UNCHANGED serverVars => ServerTypeOK'
  BY DEF serverVars, ServerTypeOK, Uid
<1>2. UNCHANGED storeVars => StoreTypeOK'
  BY DEF storeVars, rowVars, cursorVars, StoreTypeOK, Uid
<1>3. ASSUME NEW mb \in Mailbox, NEW u \in Uid, RestoreRequest(mb, u) PROVE Goal
  <2>1. blobSha256[mb][u] \in Body
    BY <1>3 DEF RestoreRequest, RestoreTargets, StoreTypeOK
  <2>2. restores' \in 0 .. MaxRestores
    BY <1>3 DEF RestoreRequest, RestoreTypeOK
  <2>3. u \in 0 .. MaxUid
    BY DEF Uid
  <2> QED BY <1>1, <1>2, <1>3, <2>1, <2>2, <2>3 DEF RestoreRequest, RestoreTypeOK
<1>4. CASE RestoreAppend
  <2>1. ServerTypeOK'
    BY <1>4, ServerCommandTypes DEF RestoreAppend, RestoreTypeOK
  <2>2. RestoreTypeOK'
    <3>1. CASE restore' = [restore EXCEPT !.pc = "mark"]
      BY <1>4, <3>1 DEF RestoreAppend, RestoreTypeOK
    <3>2. CASE restore' = NoRequest
      BY <1>4, <3>2 DEF RestoreAppend, RestoreTypeOK, NoRequest
    <3> QED BY <1>4, <3>1, <3>2 DEF RestoreAppend
  <2> QED BY <1>2, <1>4, <2>1, <2>2 DEF RestoreAppend
<1>5. CASE RestoreFails
  BY <1>1, <1>2, <1>5 DEF RestoreFails, RestoreTypeOK, NoRequest
<1>6. CASE RestoreMark
  <2>1. deletedFromServerAt' \in [Mailbox -> SUBSET Uid]
    <3>1. restore.box \in Mailbox
      BY DEF RestoreTypeOK
    <3>2. CASE MarkRestored(restore.box, restore.uid)
      BY <3>1, <3>2 DEF MarkRestored, StoreTypeOK
    <3>3. CASE UNCHANGED deletedFromServerAt
      BY <3>3 DEF StoreTypeOK
    <3> QED BY <1>6, <3>2, <3>3 DEF RestoreMark
  <2>2. StoreTypeOK'
    BY <1>6, <2>1 DEF RestoreMark, StoreTypeOK, rowVars, cursorVars, Uid
  <2> QED BY <1>1, <1>6, <2>2 DEF RestoreMark, RestoreTypeOK, NoRequest
<1> QED BY <1>3, <1>4, <1>5, <1>6 DEF RestoreNext

(* A step of a cleanup run keeps the types. *)
LEMMA RunKeepsTypes ==
  ASSUME ServerTypeOK, StoreTypeOK, CleanupTypeOK, NEW r \in Run, RunNext(r)
  PROVE  ServerTypeOK' /\ StoreTypeOK' /\ CleanupTypeOK'
<1> USE ServerAssumption, CleanupAssumption, AnyMailboxType
<1> DEFINE Goal == ServerTypeOK' /\ StoreTypeOK' /\ CleanupTypeOK'
<1>1. UNCHANGED serverVars => ServerTypeOK'
  BY DEF serverVars, ServerTypeOK, Uid
<1>2. UNCHANGED storeVars => StoreTypeOK'
  BY DEF storeVars, rowVars, cursorVars, StoreTypeOK, Uid
<1>3. /\ run[r] \in RunState
      /\ run[r].picks \in [Mailbox -> SUBSET Uid]
      /\ run[r].box \in Mailbox /\ run[r].target \in Mailbox
      /\ run[r].chunk \in SUBSET Uid /\ run[r].left \in SUBSET Uid
  BY DEF CleanupTypeOK, RunState
<1>4. ASSUME NEW state \in RunState, run' = [run EXCEPT ![r] = state],
             runFaults' \in 0 .. RunFaults,
             \/ UNCHANGED runStatus
             \/ \E status \in {"done", "failed"} : runStatus' = [runStatus EXCEPT ![r] = status]
      PROVE  CleanupTypeOK'
  BY <1>4 DEF CleanupTypeOK
<1>5. runFaults' \in 0 .. RunFaults
  <2>1. UNCHANGED runFaults \/ RunFault
    BY DEF RunNext, ListCandidates, ListOrOpenFails, SelectForCleanup,
           SelectForCleanupFails, NextChunk, ChunksDone, RunDone, MarkDeletedChunk,
           ExpungeMailbox, DeleteFails, MoveOne, CopyOne, MoveDone, MoveFails, CopyDone,
           CopyFails, MarkChunk, CommandFails, CommandWorks
  <2> QED BY <2>1 DEF RunFault, CleanupTypeOK
<1>6. CASE ListCandidates(r)
  <2>1. PICK listed \in [Mailbox -> SUBSET Uid] : run' = [run EXCEPT ![r] =
                [@ EXCEPT !.pc = "mailbox",
                          !.picks = [mb \in Mailbox |-> {u \in listed[mb] : IsSafe(mb, u)}]]]
    BY <1>6 DEF ListCandidates
  <2> DEFINE picks == [mb \in Mailbox |-> {u \in listed[mb] : IsSafe(mb, u)}]
  <2>2. picks \in [Mailbox -> SUBSET Uid]
    OBVIOUS
  <2> HIDE DEF picks
  <2>3. [run[r] EXCEPT !.pc = "mailbox", !.picks = picks] \in RunState
    BY <1>3, <2>2 DEF RunState, RunPc
  <2>4. CleanupTypeOK'
    BY <1>4, <1>5, <1>6, <2>1, <2>3 DEF ListCandidates, picks
  <2> QED BY <1>1, <1>2, <1>6, <2>4 DEF ListCandidates
<1>7. ASSUME GiveUpChunk(r), UNCHANGED runStatus PROVE CleanupTypeOK'
  <2>1. [run[r] EXCEPT !.pc = "chunk", !.chunk = {}, !.left = {}] \in RunState
    BY <1>3 DEF RunState, RunPc
  <2> QED BY <1>4, <1>5, <1>7, <2>1 DEF GiveUpChunk
<1>8. ASSUME NEW pc \in RunPc, Goto(r, pc), UNCHANGED runStatus PROVE CleanupTypeOK'
  <2>1. [run[r] EXCEPT !.pc = pc] \in RunState
    BY <1>3 DEF RunState, RunPc
  <2>2. run' = [run EXCEPT ![r] = [run[r] EXCEPT !.pc = pc]]
    BY <1>8 DEF Goto
  <2> QED BY <1>4, <1>5, <1>8, <2>1, <2>2
<1>9. CASE ListOrOpenFails(r) \/ RunDone(r)
  <2>1. NoRun \in RunState
    BY DEF NoRun, Goroutine, NoPicks, RunState, RunPc
  <2> QED BY <1>1, <1>2, <1>4, <1>5, <1>9, <2>1 DEF ListOrOpenFails, RunDone
<1>10. ASSUME NEW mb \in Mailbox, SelectForCleanup(r, mb) PROVE Goal
  <2>1. [run[r] EXCEPT !.pc = "chunk", !.box = mb, !.session = uidValidity[mb]] \in RunState
    <3>1. uidValidity[mb] \in 0 .. MaxValidity
      BY DEF ServerTypeOK
    <3> QED BY <1>3, <3>1 DEF RunState, RunPc
  <2> QED BY <1>1, <1>2, <1>4, <1>5, <1>10, <2>1 DEF SelectForCleanup
<1>11. ASSUME NEW mb \in Mailbox, SelectForCleanupFails(r, mb) PROVE Goal
  <2>1. [run[r] EXCEPT !.picks[mb] = {}] \in RunState
    BY <1>3 DEF RunState
  <2>2. run' = [run EXCEPT ![r] = [run[r] EXCEPT !.picks[mb] = {}]]
    BY <1>11 DEF SelectForCleanupFails
  <2> QED BY <1>1, <1>2, <1>4, <1>5, <1>11, <2>1, <2>2 DEF SelectForCleanupFails
<1>12. CASE NextChunk(r)
  <2> DEFINE picked == run[r].picks[run[r].box]
  <2>1. PICK chunk \in SUBSET picked :
          run' = [run EXCEPT ![r] =
                   [@ EXCEPT !.pc = IF run[r].action = "delete" THEN "store" ELSE "move",
                             !.chunk = chunk,
                             !.left = IF run[r].action = "delete" THEN {} ELSE chunk,
                             !.picks[run[r].box] = picked \ chunk]]
    BY <1>12 DEF NextChunk
  <2> DEFINE pc == IF run[r].action = "delete" THEN "store" ELSE "move"
             left == IF run[r].action = "delete" THEN {} ELSE chunk
  <2>2. picked \in SUBSET Uid
    BY <1>3
  <2>3. pc \in RunPc /\ left \in SUBSET Uid /\ chunk \in SUBSET Uid /\ picked \ chunk \in SUBSET Uid
    BY <2>1, <2>2 DEF RunPc
  <2> HIDE DEF pc, left
  <2>4. [run[r] EXCEPT !.pc = pc, !.chunk = chunk, !.left = left,
                       !.picks[run[r].box] = picked \ chunk] \in RunState
    BY <1>3, <2>3 DEF RunState
  <2> QED BY <1>1, <1>2, <1>4, <1>5, <1>12, <2>1, <2>4 DEF NextChunk, pc, left
<1>13. CASE ChunksDone(r)
  <2>1. [run[r] EXCEPT !.pc = "mailbox", !.box = AnyMailbox, !.session = 0] \in RunState
    <3>1. 0 \in 0 .. MaxValidity
      OBVIOUS
    <3> QED BY <1>3, <3>1 DEF RunState, RunPc
  <2> QED BY <1>1, <1>2, <1>4, <1>5, <1>13, <2>1 DEF ChunksDone
<1>14. CASE MarkDeletedChunk(r)
  <2>1. ServerTypeOK'
    BY <1>3, <1>14, ServerCommandTypes DEF MarkDeletedChunk
  <2>2. CleanupTypeOK'
    BY <1>7, <1>8, <1>14 DEF MarkDeletedChunk, RunPc
  <2> QED BY <1>2, <1>14, <2>1, <2>2 DEF MarkDeletedChunk
<1>15. CASE ExpungeMailbox(r)
  <2>1. ServerTypeOK'
    BY <1>3, <1>15, ServerCommandTypes DEF ExpungeMailbox
  <2>2. CleanupTypeOK'
    BY <1>7, <1>8, <1>15 DEF ExpungeMailbox, RunPc
  <2> QED BY <1>2, <1>15, <2>1, <2>2 DEF ExpungeMailbox
<1>16. CASE DeleteFails(r) \/ CopyFails(r)
  BY <1>1, <1>2, <1>7, <1>16 DEF DeleteFails, CopyFails
<1>17. ASSUME NEW u \in Uid, MoveOne(r, u) \/ CopyOne(r, u) PROVE Goal
  <2>1. u \in Present(run[r].box) /\ msgs[run[r].box][u] \in Body
    BY <1>3, <1>17 DEF MoveOne, CopyOne, Present, ServerTypeOK
  <2>2. ServerTypeOK'
    <3>1. CASE MoveOne(r, u)
      BY <1>3, <2>1, <3>1, ServerCommandTypes DEF MoveOne
    <3>2. CASE CopyOne(r, u)
      <4> DEFINE copied == AppendMessage(run[r].target, msgs[run[r].box][u], TRUE)
                 plain == AppendMessage(run[r].target, msgs[run[r].box][u], FALSE)
      <4>1. copied \/ plain
        BY <3>2 DEF CopyOne, CopyMessage, AppendMessage
      <4>2. copied \/ plain => ServerTypeOK'
        <5> HIDE DEF copied, plain
        <5>1. copied => ServerTypeOK'
          BY <1>3, <2>1, ServerCommandTypes DEF copied
        <5>2. plain => ServerTypeOK'
          BY <1>3, <2>1, ServerCommandTypes DEF plain
        <5> QED BY <5>1, <5>2
      <4> QED BY <4>1, <4>2
    <3> QED BY <1>17, <3>1, <3>2
  <2>3. [run[r] EXCEPT !.left = @ \ {u}] \in RunState
    BY <1>3 DEF RunState
  <2>4. run' = [run EXCEPT ![r] = [run[r] EXCEPT !.left = @ \ {u}]]
    BY <1>17 DEF MoveOne, CopyOne
  <2>5. CleanupTypeOK'
    BY <1>4, <1>5, <1>17, <2>3, <2>4 DEF MoveOne, CopyOne
  <2> QED BY <1>2, <1>17, <2>2, <2>5 DEF MoveOne, CopyOne
<1>18. CASE MoveDone(r)
  <2>1. [run[r] EXCEPT !.pc = "mark", !.left = {}] \in RunState
    BY <1>3 DEF RunState, RunPc
  <2> QED BY <1>1, <1>2, <1>4, <1>5, <1>18, <2>1 DEF MoveDone
<1>19. CASE MoveFails(r)
  <2>1. [run[r] EXCEPT !.pc = "copy", !.left = run[r].chunk] \in RunState
    BY <1>3 DEF RunState, RunPc
  <2> QED BY <1>1, <1>2, <1>4, <1>5, <1>19, <2>1 DEF MoveFails
<1>20. CASE CopyDone(r)
  <2>1. [run[r] EXCEPT !.pc = "store", !.left = {}] \in RunState
    BY <1>3 DEF RunState, RunPc
  <2> QED BY <1>1, <1>2, <1>4, <1>5, <1>20, <2>1 DEF CopyDone
<1>21. CASE MarkChunk(r)
  <2>1. deletedFromServerAt' \in [Mailbox -> SUBSET Uid]
    <3>1. CASE MarkDeletedFromServer(run[r].box, run[r].chunk)
      BY <1>3, <3>1 DEF MarkDeletedFromServer, StoreTypeOK
    <3>2. CASE UNCHANGED deletedFromServerAt
      BY <3>2 DEF StoreTypeOK
    <3> QED BY <1>21, <3>1, <3>2 DEF MarkChunk
  <2>2. StoreTypeOK'
    BY <1>21, <2>1 DEF MarkChunk, StoreTypeOK, rowVars, cursorVars, Uid
  <2> QED BY <1>1, <1>7, <1>21, <2>2 DEF MarkChunk
<1> QED
  BY <1>6, <1>9, <1>10, <1>11, <1>12, <1>13, <1>14, <1>15, <1>16, <1>17, <1>18, <1>19, <1>20,
     <1>21 DEF RunNext

(* Only the synchronisation writes rows and blobs. *)
LEMMA OthersLeaveTheArchive ==
  ASSUME \/ ServerStep \/ JobStep \/ (\E r \in Run : RunStep(r)) \/ RestoreStep
  PROVE  UNCHANGED <<rowVars, blobs, syncVars>>
<1>1. CASE ServerStep BY <1>1 DEF ServerStep, storeVars
<1>2. CASE JobStep BY <1>2 DEF JobStep, JobNext, RunJob, storeVars
<1>3. ASSUME NEW r \in Run, RunStep(r) PROVE UNCHANGED <<rowVars, blobs, syncVars>>
  BY <1>3
  DEF RunStep, RunNext, ListCandidates, ListOrOpenFails, SelectForCleanup,
      SelectForCleanupFails, NextChunk, ChunksDone, RunDone, MarkDeletedChunk,
      ExpungeMailbox, DeleteFails, MoveOne, CopyOne, MoveDone, MoveFails, CopyDone,
      CopyFails, MarkChunk, storeVars
<1>4. CASE RestoreStep
  BY <1>4 DEF RestoreStep, RestoreNext, RestoreRequest, RestoreAppend, RestoreFails,
              RestoreMark, storeVars
<1> QED BY <1>1, <1>2, <1>3, <1>4

(* A step of the synchronisation keeps ArchiveInv. *)
LEMMA SyncKeepsArchiveInv ==
  ASSUME ServerTypeOK, StoreTypeOK, SyncTypeOK, ArchiveInv, SyncNext, UNCHANGED restoreVars
  PROVE  ArchiveInv'
<1> USE DEF ArchiveInv, ArchivedHasBlob
<1>1. ASSUME UNCHANGED <<archivedAt, blobSha256, blobs>>,
             syncPc' \notin {"bodies", "blob", "row"}
      PROVE  ArchiveInv'
  BY <1>1 DEF restoreVars
<1>2. CASE SyncStart \/ IndexDone \/ SyncDone
  BY <1>1, <1>2 DEF SyncStart, IndexDone, SyncDone, storeVars, rowVars
<1>3. ASSUME NEW mb \in Mailbox,
             \/ SelectFails(mb, "index") \/ SelectFails(mb, "archive")
             \/ ResetRefused(mb) \/ SelectEmpty(mb) \/ NothingPending(mb) \/ SelectMailbox(mb)
      PROVE  ArchiveInv'
  BY <1>1, <1>3
  DEF SelectFails, ResetRefused, SelectEmpty, NothingPending, SelectMailbox, NextMailbox,
      storeVars, rowVars
<1>4. CASE IndexFails \/ MarkMissing \/ ArchiveMailboxDone
  BY <1>1, <1>4
  DEF IndexFails, MarkMissing, ArchiveMailboxDone, NextMailbox, storeVars, rowVars
<1>5. CASE FetchMetadata \/ UpsertMetaBatch \/ AdvanceCursor \/ SearchAll
  BY <1>1, <1>5 DEF FetchMetadata, UpsertMetaBatch, AdvanceCursor, SearchAll, storeVars, rowVars
<1>6. ASSUME NEW mb \in Mailbox, ArchiveSelect(mb) PROVE ArchiveInv'
  BY <1>6 DEF ArchiveSelect, Unarchived, storeVars, rowVars, restoreVars
<1>7. ASSUME NEW u \in Uid, FetchBody(u) PROVE ArchiveInv'
  <2>1. msgs[box][u] \in Body
    BY <1>7 DEF FetchBody, Present, ServerTypeOK, SyncTypeOK
  <2> QED BY <1>7, <2>1 DEF FetchBody, storeVars, rowVars, restoreVars
<1>8. CASE WriteBlob
  BY <1>8 DEF WriteBlob, rowVars, restoreVars
<1>9. CASE ArchiveOne
  <2>1. box \in Mailbox /\ fetched.uid \in Uid /\ fetched.uid \in pending /\ fetched.raw \in blobs
    BY <1>9 DEF ArchiveOne, SyncTypeOK
  <2>2. /\ archivedAt' = [archivedAt EXCEPT ![box] = @ \cup {fetched.uid}]
        /\ blobSha256' = [blobSha256 EXCEPT ![box][fetched.uid] = fetched.raw]
        /\ pending' = pending \ {fetched.uid}
        /\ syncPc' = "bodies"
        /\ UNCHANGED <<blobs, box, restore>>
    BY <1>9 DEF ArchiveOne, SetArchived, restoreVars
  <2>3. ASSUME NEW mb \in Mailbox, NEW u \in archivedAt'[mb] PROVE blobSha256'[mb][u] \in blobs'
    <3>1. CASE mb = box /\ u = fetched.uid
      BY <2>1, <2>2, <3>1 DEF StoreTypeOK
    <3>2. CASE ~(mb = box /\ u = fetched.uid)
      <4>1. u \in archivedAt[mb]
        BY <2>1, <2>2, <2>3, <3>2 DEF StoreTypeOK
      <4>2. blobSha256'[mb][u] = blobSha256[mb][u]
        BY <2>1, <2>2, <3>2 DEF StoreTypeOK
      <4> QED BY <2>2, <4>1, <4>2
    <3> QED BY <3>1, <3>2
  <2>4. pending' \cap archivedAt'[box'] = {}
    BY <1>9, <2>1, <2>2 DEF StoreTypeOK, ArchiveOne
  <2> QED BY <2>2, <2>3, <2>4
<1>10. CASE ArchiveOneFails
  BY <1>10 DEF ArchiveOneFails, storeVars, rowVars, restoreVars
<1>11. CASE FetchBodiesFails
  BY <1>11 DEF FetchBodiesFails, storeVars, rowVars, restoreVars
<1> QED
  BY <1>2, <1>3, <1>4, <1>5, <1>6, <1>7, <1>8, <1>9, <1>10, <1>11 DEF SyncNext

(* The inductive invariant: the types and what ArchivedHasBlob rests on. *)
IInv == TypeOK /\ ArchiveInv

(* It holds in the initial states ... *)
LEMMA InitIInv == Init => IInv
<1> USE ServerAssumption, SyncAssumption, CleanupAssumption, RestoreAssumption, AnyMailboxType
<1> SUFFICES ASSUME Init PROVE IInv
  OBVIOUS
<1> USE DEF Init
<1>1. ServerTypeOK
  BY DEF ServerInit, ServerTypeOK, Uid
<1>2. StoreTypeOK
  BY DEF StoreInit, StoreTypeOK, Uid
<1>3. SyncTypeOK
  BY DEF SyncInit, SyncTypeOK, NoMetas, NoFetch, Uid
<1>4. CleanupTypeOK
  BY DEF CleanupInit, CleanupTypeOK, NoRun, Goroutine, NoPicks, RunState, RunPc
<1>5. RestoreTypeOK
  BY DEF RestoreInit, RestoreTypeOK, NoRequest
<1>6. ArchiveInv
  BY DEF StoreInit, SyncInit, RestoreInit, NoRequest, ArchiveInv, ArchivedHasBlob
<1> QED BY <1>1, <1>2, <1>3, <1>4, <1>5, <1>6 DEF IInv, TypeOK

(* ... and every step keeps it. *)
LEMMA NextIInv == IInv /\ [Next]_vars => IInv'
<1> SUFFICES ASSUME IInv, [Next]_vars PROVE IInv'
  OBVIOUS
<1> USE DEF IInv, TypeOK
<1>1. UNCHANGED serverVars => ServerTypeOK'
  BY DEF serverVars, ServerTypeOK, Uid
<1>2. UNCHANGED storeVars => StoreTypeOK'
  BY DEF storeVars, rowVars, cursorVars, StoreTypeOK, Uid
<1>3. UNCHANGED <<syncVars, faults>> => SyncTypeOK'
  BY DEF syncVars, indexVars, SyncTypeOK, Uid
<1>4. UNCHANGED cleanupVars => CleanupTypeOK'
  BY DEF cleanupVars, CleanupTypeOK
<1>5. UNCHANGED restoreVars => RestoreTypeOK'
  BY DEF restoreVars, RestoreTypeOK
<1>6. UNCHANGED <<rowVars, blobs, syncVars, restoreVars>> => ArchiveInv'
  BY DEF rowVars, syncVars, indexVars, restoreVars, ArchiveInv, ArchivedHasBlob
<1>7. CASE ServerStep
  BY <1>2, <1>3, <1>4, <1>5, <1>6, <1>7, ServerKeepsTypes, OthersLeaveTheArchive DEF ServerStep
<1>8. CASE SyncStep
  <2>1. UNCHANGED serverVars
    BY <1>8
    DEF SyncStep, SyncNext, SyncStart, IndexDone, SyncDone, SelectFails, ResetRefused,
        SelectEmpty, SelectMailbox, FetchMetadata, UpsertMetaBatch, AdvanceCursor, SearchAll,
        MarkMissing, IndexFails, ArchiveSelect, NothingPending, FetchBody, WriteBlob,
        ArchiveOne, ArchiveOneFails, FetchBodiesFails, ArchiveMailboxDone
  <2> QED
    BY <1>1, <1>4, <1>5, <1>8, <2>1, SyncKeepsStoreTypes, SyncKeepsSyncTypes, SyncKeepsArchiveInv
    DEF SyncStep
<1>9. CASE JobStep
  <2>1. PICK r \in Run, action \in Action : \E target \in TargetsOf(action) : RunJob(r, action, target)
    BY <1>9 DEF JobStep, JobNext
  <2>2. PICK target \in Mailbox : RunJob(r, action, target)
    BY <2>1, AnyMailboxType DEF TargetsOf
  <2>3. Goroutine(action, target, "list") \in RunState
    BY CleanupAssumption, AnyMailboxType, ServerAssumption
    DEF Goroutine, NoPicks, RunState, RunPc
  <2>4. CleanupTypeOK'
    BY <2>2, <2>3 DEF RunJob, CleanupTypeOK
  <2> QED
    BY <1>1, <1>2, <1>3, <1>5, <1>6, <1>9, <2>2, <2>4, OthersLeaveTheArchive DEF JobStep, RunJob
<1>10. ASSUME NEW r \in Run, RunStep(r) PROVE IInv'
  <2>1. UNCHANGED <<rowVars, blobs, syncVars>>
    BY <1>10, OthersLeaveTheArchive
  <2> QED
    BY <1>3, <1>5, <1>6, <1>10, <2>1, RunKeepsTypes DEF RunStep
<1>11. CASE RestoreStep
  <2>1. restore.pc = "append" => restore.raw \in Body
    BY DEF ArchiveInv, StoreTypeOK
  <2>2. ServerTypeOK' /\ StoreTypeOK' /\ RestoreTypeOK'
    BY <1>11, <2>1, RestoreKeepsTypes DEF RestoreStep
  <2>3. restore'.pc = "append" => restore'.raw \in blobs
    BY <1>11
    DEF RestoreStep, RestoreNext, RestoreRequest, RestoreAppend, RestoreFails, RestoreMark,
        RestoreTypeOK, NoRequest
  <2>4. UNCHANGED <<rowVars, blobs, syncVars>>
    BY <1>11, OthersLeaveTheArchive
  <2>5. ArchiveInv'
    BY <2>3, <2>4 DEF rowVars, syncVars, ArchiveInv, ArchivedHasBlob
  <2> QED BY <1>3, <1>4, <1>11, <2>2, <2>5 DEF RestoreStep
<1>12. CASE Crash
  <2>1. SyncTypeOK'
    BY <1>12, SyncAssumption, ServerAssumption, AnyMailboxType
    DEF Crash, Fault, SyncTypeOK, NoMetas, NoFetch, Uid
  <2>2. NoRun \in RunState
    BY AnyMailboxType, ServerAssumption DEF NoRun, Goroutine, NoPicks, RunState, RunPc
  <2>3. CleanupTypeOK'
    BY <1>12, <2>2 DEF Crash, CleanupTypeOK
  <2>4. RestoreTypeOK'
    BY <1>12, AnyMailboxType, ServerAssumption DEF Crash, RestoreTypeOK, NoRequest
  <2>5. ArchiveInv'
    BY <1>12 DEF Crash, NoRequest, storeVars, rowVars, ArchiveInv, ArchivedHasBlob
  <2> QED BY <1>1, <1>2, <1>12, <2>1, <2>3, <2>4, <2>5 DEF Crash
<1>13. CASE UNCHANGED vars
  BY <1>1, <1>2, <1>3, <1>4, <1>5, <1>6, <1>13 DEF vars, storeVars
<1> QED BY <1>7, <1>8, <1>9, <1>10, <1>11, <1>12, <1>13 DEF Next

(* Every variable keeps its type, for all constants the assumptions admit. *)
THEOREM TypeCorrect == Spec => []TypeOK
<1>1. IInv => TypeOK
  BY DEF IInv
<1> QED BY InitIInv, NextIInv, <1>1, PTL DEF Spec

(* A row that says "archived" has its blob in the store: at every moment, for *)
(* any number of mailboxes, messages, runs, restores, failures and crashes,   *)
(* and also when mailboxes are recreated and other clients set flags.         *)
THEOREM ArchiveIsComplete == Spec => []ArchivedHasBlob
<1>1. IInv => ArchivedHasBlob
  BY DEF IInv, ArchiveInv
<1> QED BY InitIInv, NextIInv, <1>1, PTL DEF Spec

(* The archive mark is never taken back, in any step. *)
LEMMA ArchiveGrows ==
  ASSUME IInv, [Next]_vars
  PROVE  \A mb \in Mailbox :
           /\ archivedAt[mb] \subseteq archivedAt'[mb]
           /\ \A u \in archivedAt[mb] : blobSha256'[mb][u] = blobSha256[mb][u]
<1>1. CASE UNCHANGED <<archivedAt, blobSha256>>
  BY <1>1
<1>2. CASE ArchiveOne
  <2>1. box \in Mailbox /\ fetched.uid \in Uid /\ fetched.uid \notin archivedAt[box]
    BY <1>2 DEF ArchiveOne, IInv, TypeOK, SyncTypeOK, ArchiveInv
  <2> QED BY <1>2, <2>1 DEF ArchiveOne, SetArchived, IInv, TypeOK, StoreTypeOK
<1>3. CASE SyncStep
  BY <1>1, <1>2, <1>3
  DEF SyncStep, SyncNext, SyncStart, IndexDone, SyncDone, SelectFails, ResetRefused,
      SelectEmpty, SelectMailbox, FetchMetadata, UpsertMetaBatch, AdvanceCursor, SearchAll,
      MarkMissing, IndexFails, ArchiveSelect, NothingPending, FetchBody, WriteBlob,
      ArchiveOneFails, FetchBodiesFails, ArchiveMailboxDone, storeVars, rowVars
<1>4. CASE Crash \/ UNCHANGED vars
  BY <1>1, <1>4 DEF Crash, vars, storeVars, rowVars
<1> QED BY <1>1, <1>3, <1>4, OthersLeaveTheArchive DEF Next, rowVars

(* No step takes the archive mark from a row or changes its checksum. *)
THEOREM ArchiveIsWriteOnce == Spec => ArchiveIsImmutable
<1> DEFINE Kept == \A mb \in Mailbox : \A u \in archivedAt[mb] :
                      u \in archivedAt'[mb] /\ blobSha256'[mb][u] = blobSha256[mb][u]
<1>1. IInv /\ [Next]_vars => [Kept]_vars
  BY ArchiveGrows
<1> QED BY InitIInv, NextIInv, <1>1, PTL DEF Spec, ArchiveIsImmutable
=============================================================================
