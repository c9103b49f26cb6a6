---------------------------- MODULE IndexProofs ----------------------------
(***************************************************************************)
(* What the rows of the database say of the mailboxes, as theorems: for    *)
(* any number of mailboxes, messages, runs, restores, failures and crashes *)
(* as long as UIDVALIDITY does not change.                                 *)
(***************************************************************************)
EXTENDS GoldenRuleProofs

(* A row describes the message its UID was given to: the one that is there,  *)
(* or was.  An archived row is a row.                                        *)
RowsNameMessages ==
    \A mb \in Mailbox :
        /\ archivedAt[mb] \subseteq indexed[mb]
        /\ \A u \in indexed[mb] :
              u < uidNext[mb] /\ msgs[mb][u] \in {NoBody, envelope[mb][u]}

(* So does fetched metadata that has no row yet ... *)
MetasNameMessages ==
    syncPc = "upsert" =>
        \A u \in Metas : u < uidNext[box] /\ msgs[box][u] \in {NoBody, metas[u]}

(* ... and the body archiveOne works on is that of its row. *)
BodiesNameRows ==
    /\ syncPc \in {"bodies", "blob", "row"} => pending \subseteq indexed[box]
    /\ syncPc \in {"blob", "row"} => fetched.raw = envelope[box][fetched.uid]

(* What a restore read stays the text of its row. *)
RestoreNamesRow ==
    restore.pc = "append" => restore.uid \in indexed[restore.box] /\ RestoreExact

(* The inductive invariant of the index. *)
IndexInv ==
    /\ RowsNameMessages
    /\ MetasNameMessages
    /\ BodiesNameRows
    /\ ArchivedIsIndexedMessage
    /\ RestoreNamesRow

(* Every row was indexed below the cursor's next value, and whatever lies at *)
(* or below what the cursor is, or will be set to, has a row.                *)
CursorInv ==
    /\ CursorCovers
    /\ \A mb \in Mailbox : highestUid[mb] < uidNext[mb]
    /\ newHighest < uidNext[box]
    /\ newHighest = 0 \/ syncPc \in {"upsert", "advance", "search", "mark"}
    /\ syncPc = "upsert" => \A u \in Present(box) :
          \/ u \in indexed[box] \cup Metas
          \/ newHighest < u /\ \A w \in Metas : w < u
    /\ syncPc = "advance" => \A u \in Present(box) : u <= newHighest => u \in indexed[box]

(* What is marked as deleted, or about to be, is gone: the rows SEARCH did   *)
(* not return, and the chunk of a run, whose messages carry the flag before  *)
(* EXPUNGE and are moved one by one by MOVE.                                 *)
DeletedInv ==
    /\ DeletedIsGone
    /\ \A mb \in Mailbox : deletedFromServerAt[mb] \subseteq indexed[mb]
    /\ syncPc = "mark" => (indexed[box] \ seen) \cap Present(box) = {}
    /\ \A r \in Run :
          LET there == run[r].chunk \cap Present(run[r].box) IN
          /\ run[r].pc = "mark" => there = {}
          /\ run[r].pc = "expunge" => there \subseteq flagged[run[r].box]
          /\ run[r].pc = "move" => there \subseteq run[r].left

-----------------------------------------------------------------------------
(* Who writes what. *)

(* Only the upsert of IndexMailbox writes rows, and it takes none back; the   *)
(* archive columns are archiveOne's.                                          *)
LEMMA RowWriters ==
  ASSUME [Next]_vars
  PROVE  /\ UNCHANGED <<indexed, envelope>> \/ (UpsertMetaBatch /\ SyncStep)
         /\ UNCHANGED <<archivedAt, blobSha256>> \/ (ArchiveOne /\ SyncStep)
<1>1. CASE SyncStep
  BY <1>1
  DEF SyncStep, SyncNext, SyncStart, IndexDone, SyncDone, SelectFails, ResetRefused,
      SelectEmpty, SelectMailbox, FetchMetadata, AdvanceCursor, SearchAll, MarkMissing,
      UpsertMetaBatch, IndexFails, ArchiveSelect, NothingPending, FetchBody, WriteBlob,
      ArchiveOne, ArchiveOneFails, FetchBodiesFails, ArchiveMailboxDone, storeVars, rowVars
<1>2. CASE Crash BY <1>2 DEF Crash, storeVars, rowVars
<1>3. CASE UNCHANGED vars BY <1>3 DEF vars, storeVars, rowVars
<1> QED BY <1>1, <1>2, <1>3, OthersLeaveTheArchive DEF Next, rowVars

(* How the synchronisation gets to where it is: which steps lead into a phase. *)
LEMMA IndexPhases ==
  ASSUME [Next]_vars
  PROVE  /\ syncPc' = "upsert" =>
               \/ UNCHANGED syncVars
               \/ (FetchMetadata \/ UpsertMetaBatch) /\ SyncStep
         /\ syncPc' = "advance" => UNCHANGED syncVars \/ (UpsertMetaBatch /\ SyncStep)
         /\ syncPc' = "mark" => UNCHANGED syncVars \/ (SearchAll /\ SyncStep)
<1>1. CASE SyncStep
  BY <1>1
  DEF SyncStep, SyncNext, SyncStart, IndexDone, SyncDone, SelectFails, ResetRefused,
      SelectEmpty, SelectMailbox, FetchMetadata, AdvanceCursor, SearchAll, MarkMissing,
      IndexFails, ArchiveSelect, NothingPending, FetchBody, WriteBlob, UpsertMetaBatch,
      ArchiveOne, ArchiveOneFails, FetchBodiesFails, ArchiveMailboxDone, NextMailbox
<1>2. CASE Crash BY <1>2 DEF Crash
<1>3. CASE UNCHANGED vars BY <1>3 DEF vars
<1> QED BY <1>1, <1>2, <1>3, OthersLeaveTheArchive DEF Next

(* How archiving gets to where it holds a query, or a body. *)
LEMMA ArchivePhases ==
  ASSUME [Next]_vars
  PROVE  /\ syncPc' \in {"bodies", "blob", "row"} =>
               \/ UNCHANGED syncVars
               \/ (\E mb \in Mailbox : ArchiveSelect(mb)) /\ SyncStep
               \/ /\ SyncStep
                  /\ box' = box /\ pending' \subseteq pending
                  /\ syncPc \in {"bodies", "blob", "row"}
         /\ syncPc' \in {"blob", "row"} =>
               \/ UNCHANGED syncVars
               \/ (\E u \in Uid : FetchBody(u)) /\ SyncStep
               \/ WriteBlob /\ SyncStep
<1>1. CASE SyncStep
  <2>1. ASSUME syncPc' \in {"bodies", "blob", "row"}
        PROVE  \/ \E mb \in Mailbox : ArchiveSelect(mb)
               \/ \E u \in Uid : FetchBody(u)
               \/ WriteBlob \/ ArchiveOne \/ ArchiveOneFails \/ FetchBodiesFails
    BY <1>1, <2>1
    DEF SyncStep, SyncNext, SyncStart, IndexDone, SyncDone, SelectFails, ResetRefused,
        SelectEmpty, SelectMailbox, FetchMetadata, AdvanceCursor, SearchAll, MarkMissing,
        IndexFails, NothingPending, UpsertMetaBatch, ArchiveMailboxDone, NextMailbox
  <2>2. ASSUME NEW u \in Uid, FetchBody(u) \/ WriteBlob
        PROVE  box' = box /\ pending' = pending /\ syncPc \in {"bodies", "blob"}
    BY <2>2 DEF FetchBody, WriteBlob
  <2>3. ASSUME ArchiveOne \/ ArchiveOneFails \/ FetchBodiesFails
        PROVE  /\ box' = box /\ pending' \subseteq pending
               /\ syncPc \in {"bodies", "blob", "row"} /\ syncPc' = "bodies"
    BY <2>3 DEF ArchiveOne, ArchiveOneFails, FetchBodiesFails
  <2>4. (\E mb \in Mailbox : ArchiveSelect(mb)) => syncPc' = "bodies"
    BY DEF ArchiveSelect
  <2>5. WriteBlob => box' = box /\ pending' = pending /\ syncPc = "blob"
    BY DEF WriteBlob
  <2> QED BY <1>1, <2>1, <2>2, <2>3, <2>4, <2>5
<1>2. CASE Crash BY <1>2 DEF Crash
<1>3. CASE UNCHANGED vars BY <1>3 DEF vars
<1> QED BY <1>1, <1>2, <1>3, OthersLeaveTheArchive DEF Next

(* ON CONFLICT DO NOTHING: no step takes a row away or changes what it shows. *)
LEMMA RowsGrow ==
  ASSUME IInv, [Next]_vars
  PROVE  \A mb \in Mailbox :
            /\ indexed[mb] \subseteq indexed'[mb]
            /\ \A u \in indexed[mb] : envelope'[mb][u] = envelope[mb][u]
<1>1. CASE UpsertMetaBatch
  <2>1. PICK batch \in SUBSET Metas : InsertRows(box, batch, metas, metaFlags)
    BY <1>1 DEF UpsertMetaBatch
  <2> QED BY <2>1 DEF InsertRows, IInv, TypeOK, StoreTypeOK, SyncTypeOK
<1> QED BY <1>1, RowWriters

-----------------------------------------------------------------------------
(* The rows name the messages. *)

(* UIDs compare as numbers, before and after a step. *)
LEMMA UidNextIsNat ==
  ASSUME IInv, [Next]_vars
  PROVE  \A mb \in Mailbox : uidNext[mb] \in Nat /\ uidNext'[mb] \in Nat
  BY NextIInv DEF IInv, TypeOK, ServerTypeOK

(* A batch is inserted from the metadata that was fetched: a new row shows the *)
(* message its UID was given to.                                              *)
LEMMA RowsKept ==
  ASSUME IInv, UidsAreFresh, OnlyGrows, IndexInv, [Next]_vars
  PROVE  RowsNameMessages'
<1> USE DEF IInv, TypeOK, ServerTypeOK, StoreTypeOK
<1>1. ASSUME NEW mb \in Mailbox, NEW u \in indexed[mb]
      PROVE  u < uidNext'[mb] /\ msgs'[mb][u] \in {NoBody, envelope'[mb][u]}
  <2>1. u \in Uid /\ u < uidNext[mb] /\ msgs[mb][u] \in {NoBody, envelope[mb][u]}
    BY DEF IndexInv, RowsNameMessages
  <2>2. uidNext[mb] <= uidNext'[mb] /\ msgs'[mb][u] \in {NoBody, msgs[mb][u]}
    BY <2>1 DEF OnlyGrows
  <2>3. uidNext[mb] \in Nat /\ uidNext'[mb] \in Nat /\ u \in Nat
    BY <2>1, UidNextIsNat DEF Uid
  <2>4. envelope'[mb][u] = envelope[mb][u]
    BY RowsGrow
  <2>5. u < uidNext'[mb]
    BY <2>1, <2>2, <2>3
  <2> QED BY <2>1, <2>2, <2>4, <2>5
<1>2. ASSUME NEW mb \in Mailbox, NEW u \in indexed'[mb], u \notin indexed[mb]
      PROVE  u < uidNext'[mb] /\ msgs'[mb][u] \in {NoBody, envelope'[mb][u]}
  <2>1. UpsertMetaBatch /\ SyncStep
    BY <1>2, RowWriters
  <2>2. PICK batch \in SUBSET Metas : InsertRows(box, batch, metas, metaFlags)
    BY <2>1 DEF UpsertMetaBatch
  <2>3. mb = box /\ u \in batch /\ u \in Metas /\ u \in Uid
    BY <1>2, <2>2 DEF InsertRows, SyncTypeOK, Metas
  <2>4. envelope'[mb][u] = metas[u]
    BY <1>2, <2>2, <2>3 DEF InsertRows, SyncTypeOK
  <2>5. u < uidNext[mb] /\ msgs[mb][u] \in {NoBody, metas[u]}
    BY <2>1, <2>3 DEF UpsertMetaBatch, IndexInv, MetasNameMessages
  <2>6. UNCHANGED <<msgs, uidNext>>
    BY <2>1, ServerLeftAlone DEF serverVars
  <2> QED BY <2>4, <2>5, <2>6
<1>3. ASSUME NEW mb \in Mailbox PROVE archivedAt'[mb] \subseteq indexed'[mb]
  <2>1. archivedAt[mb] \subseteq indexed'[mb]
    BY RowsGrow DEF IndexInv, RowsNameMessages
  <2>2. CASE ArchiveOne
    <3>1. /\ archivedAt'[mb] \subseteq archivedAt[mb] \cup (IF mb = box THEN {fetched.uid} ELSE {})
          /\ fetched.uid \in indexed[box]
          /\ box \in Mailbox
      BY <2>2 DEF ArchiveOne, SetArchived, IndexInv, BodiesNameRows, ArchiveInv, SyncTypeOK
    <3> QED BY <2>1, <3>1, RowsGrow
  <2> QED BY <2>1, <2>2, RowWriters
<1> QED BY <1>1, <1>2, <1>3 DEF RowsNameMessages

(* FETCH reads UID and envelope of one message at once, and its UID is not    *)
(* given to another one before the upsert.                                    *)
LEMMA MetasKept ==
  ASSUME IInv, UidsAreFresh, OnlyGrows, IndexInv, [Next]_vars
  PROVE  MetasNameMessages'
<1> SUFFICES ASSUME syncPc' = "upsert", NEW u \in Metas'
             PROVE  u < uidNext'[box'] /\ msgs'[box'][u] \in {NoBody, metas'[u]}
  BY DEF MetasNameMessages
<1> USE DEF IInv, TypeOK, ServerTypeOK, SyncTypeOK, Metas
<1>1. u \in Uid /\ box \in Mailbox
  OBVIOUS
<1>2. ASSUME syncPc = "upsert", u \in Metas, box' = box, metas'[u] = metas[u]
      PROVE  u < uidNext'[box'] /\ msgs'[box'][u] \in {NoBody, metas'[u]}
  <2>1. u < uidNext[box] /\ msgs[box][u] \in {NoBody, metas[u]}
    BY <1>2 DEF IndexInv, MetasNameMessages
  <2>2. uidNext[box] <= uidNext'[box] /\ msgs'[box][u] \in {NoBody, msgs[box][u]}
    BY <1>1, <2>1 DEF OnlyGrows
  <2>3. uidNext[box] \in Nat /\ uidNext'[box] \in Nat /\ u \in Nat
    BY <1>1, UidNextIsNat DEF Uid
  <2>4. u < uidNext'[box]
    BY <2>1, <2>2, <2>3
  <2> QED BY <1>2, <2>1, <2>2, <2>4
<1>3. CASE UNCHANGED syncVars
  BY <1>2, <1>3 DEF syncVars, indexVars
<1>4. CASE UpsertMetaBatch /\ SyncStep
  <2>1. metas'[u] = metas[u] /\ u \in Metas /\ box' = box /\ syncPc = "upsert"
    BY <1>1, <1>4 DEF UpsertMetaBatch
  <2> QED BY <1>2, <2>1
<1>5. CASE FetchMetadata /\ SyncStep
  <2>1. metas'[u] = msgs[box][u] /\ metas'[u] # NoBody /\ box' = box
    BY <1>1, <1>5 DEF FetchMetadata
  <2>2. UNCHANGED <<msgs, uidNext>>
    BY <1>5, ServerLeftAlone DEF serverVars
  <2>3. u < uidNext[box]
    BY <1>1, <2>1 DEF UidsAreFresh, Present
  <2> QED BY <2>1, <2>2, <2>3
<1> QED BY <1>3, <1>4, <1>5, IndexPhases

(* archiveOne works on a row that exists, with the text the row was made from. *)
LEMMA BodiesKept ==
  ASSUME IInv, OnlyGrows, IndexInv, [Next]_vars
  PROVE  BodiesNameRows'
<1> USE DEF IInv, TypeOK, ServerTypeOK, StoreTypeOK, SyncTypeOK, IndexInv
<1>1. ASSUME syncPc' \in {"bodies", "blob", "row"} PROVE pending' \subseteq indexed'[box']
  <2>1. CASE /\ box' = box /\ pending' \subseteq pending
             /\ syncPc \in {"bodies", "blob", "row"}
    BY <2>1, RowsGrow DEF BodiesNameRows
  <2>2. ASSUME NEW mb \in Mailbox, ArchiveSelect(mb) PROVE pending' \subseteq indexed'[box']
    BY <2>2 DEF ArchiveSelect, Unarchived, storeVars, rowVars
  <2>3. UNCHANGED syncVars => box' = box /\ pending' = pending /\ syncPc' = syncPc
    BY DEF syncVars
  <2> QED BY <1>1, <2>1, <2>2, <2>3, ArchivePhases
<1>2. ASSUME syncPc' \in {"blob", "row"} PROVE fetched'.raw = envelope'[box'][fetched'.uid]
  <2>1. ASSUME syncPc \in {"blob", "row"}, UNCHANGED <<box, fetched>>
        PROVE  fetched'.raw = envelope'[box'][fetched'.uid]
    <3>1. fetched.uid \in indexed[box] /\ box \in Mailbox
      BY <2>1 DEF BodiesNameRows, ArchiveInv
    <3>2. envelope'[box][fetched.uid] = envelope[box][fetched.uid]
      BY <3>1, RowsGrow
    <3> QED BY <2>1, <3>2 DEF BodiesNameRows
  <2>2. ASSUME NEW u \in Uid, FetchBody(u) PROVE fetched'.raw = envelope'[box'][fetched'.uid]
    <3>1. /\ u \in indexed[box] /\ msgs[box][u] # NoBody /\ fetched' = [uid |-> u, raw |-> msgs[box][u]]
          /\ UNCHANGED <<box, envelope>>
      BY <2>2 DEF FetchBody, BodiesNameRows, Present, storeVars, rowVars
    <3>2. msgs[box][u] = envelope[box][u]
      BY <3>1 DEF RowsNameMessages
    <3> QED BY <3>1, <3>2
  <2>3. WriteBlob => syncPc = "blob" /\ UNCHANGED <<box, fetched>>
    BY DEF WriteBlob
  <2>4. UNCHANGED syncVars => UNCHANGED <<box, fetched, syncPc>>
    BY DEF syncVars
  <2> QED BY <1>2, <2>1, <2>2, <2>3, <2>4, ArchivePhases
<1> QED BY <1>1, <1>2 DEF BodiesNameRows

(* So the checksum that archiveOne sets is that of the indexed message. *)
LEMMA ArchivedNamesKept ==
  ASSUME IInv, IndexInv, [Next]_vars
  PROVE  ArchivedIsIndexedMessage'
<1> USE DEF IInv, TypeOK, StoreTypeOK, SyncTypeOK, IndexInv
<1>1. ASSUME NEW mb \in Mailbox, NEW u \in archivedAt[mb]
      PROVE  blobSha256'[mb][u] = envelope'[mb][u]
  <2>1. u \in indexed[mb] /\ blobSha256[mb][u] = envelope[mb][u]
    BY DEF RowsNameMessages, ArchivedIsIndexedMessage
  <2> QED BY <2>1, RowsGrow, ArchiveGrows
<1>2. ASSUME NEW mb \in Mailbox, NEW u \in archivedAt'[mb], u \notin archivedAt[mb]
      PROVE  blobSha256'[mb][u] = envelope'[mb][u]
  <2>1. ArchiveOne
    BY <1>2, RowWriters
  <2>2. mb = box /\ u = fetched.uid /\ u \in Uid /\ UNCHANGED envelope
    BY <1>2, <2>1 DEF ArchiveOne, SetArchived, ArchiveInv
  <2>3. syncPc = "row" /\ fetched.raw = envelope[box][fetched.uid]
    BY <2>1 DEF ArchiveOne, BodiesNameRows
  <2>4. blobSha256'[mb][u] = fetched.raw
    BY <2>1, <2>2 DEF ArchiveOne, SetArchived
  <2> QED BY <2>2, <2>3, <2>4
<1> QED BY <1>1, <1>2 DEF ArchivedIsIndexedMessage

(* A restore reads an archived row, whose blob and envelope both stay. *)
LEMMA RestoreRowKept ==
  ASSUME IInv, IndexInv, [Next]_vars
  PROVE  RestoreNamesRow'
<1> SUFFICES ASSUME restore'.pc = "append"
             PROVE  /\ restore'.uid \in indexed'[restore'.box]
                    /\ restore'.raw = envelope'[restore'.box][restore'.uid]
  BY DEF RestoreNamesRow, RestoreExact
<1> USE DEF IInv, TypeOK, StoreTypeOK, RestoreTypeOK, IndexInv
<1>1. CASE UNCHANGED restore
  <2>1. /\ restore.uid \in indexed[restore.box] /\ restore.box \in Mailbox
        /\ restore.raw = envelope[restore.box][restore.uid]
    BY <1>1 DEF RestoreNamesRow, RestoreExact
  <2> QED BY <1>1, <2>1, RowsGrow
<1>2. ASSUME NEW mb \in Mailbox, NEW u \in Uid, RestoreRequest(mb, u)
      PROVE  /\ restore'.uid \in indexed'[restore'.box]
             /\ restore'.raw = envelope'[restore'.box][restore'.uid]
  <2>1. /\ u \in archivedAt[mb] /\ u \in indexed[mb]
        /\ restore'.box = mb /\ restore'.uid = u /\ restore'.raw = blobSha256[mb][u]
        /\ UNCHANGED <<indexed, envelope>>
    BY <1>2 DEF RestoreRequest, RestoreTargets, storeVars, rowVars
  <2> QED BY <2>1 DEF ArchivedIsIndexedMessage
<1>3. UNCHANGED restore \/ (\E mb \in Mailbox, u \in Uid : RestoreRequest(mb, u)) \/ restore'.pc # "append"
  BY DEF Next, vars, restoreVars, ServerStep, SyncStep, JobStep, RunStep, RestoreStep, RestoreNext,
         RestoreAppend, RestoreFails, RestoreMark, Crash, NoRequest
<1> QED BY <1>1, <1>2, <1>3

(* The inductive step of the index. *)
LEMMA IndexKept ==
  ASSUME IInv, UidsAreFresh, OnlyGrows, IndexInv, [Next]_vars
  PROVE  IndexInv'
  BY RowsKept, MetasKept, BodiesKept, ArchivedNamesKept, RestoreRowKept DEF IndexInv

(* The invariant of the rows, where UIDVALIDITY stays. *)
LEMMA IndexInvariant ==
  ASSUME MaxValidity = 1
  PROVE  Spec => [](IInv /\ UidsAreFresh /\ IndexInv)
<1>1. Init => UidsAreFresh /\ IndexInv
  BY DEF Init, ServerInit, StoreInit, SyncInit, RestoreInit, NoRequest, UidsAreFresh, Present,
         IndexInv, RowsNameMessages, MetasNameMessages, BodiesNameRows,
         ArchivedIsIndexedMessage, RestoreNamesRow, RestoreExact
<1>2. IInv /\ UidsAreFresh /\ IndexInv /\ [Next]_vars => UidsAreFresh' /\ IndexInv'
  BY StepsOnlyGrow, FreshKept, IndexKept
<1> QED BY InitIInv, NextIInv, <1>1, <1>2, PTL DEF Spec

(* The blob of an archived row is the message whose metadata the row shows,   *)
(* though both were fetched in different sessions and tied by the UID only.   *)
THEOREM BodiesMatchRows ==
  ASSUME MaxValidity = 1
  PROVE  Spec => []ArchivedIsIndexedMessage
<1>1. IndexInv => ArchivedIsIndexedMessage
  BY DEF IndexInv
<1> QED BY IndexInvariant, <1>1, PTL

(* A restore appends the message of its row, whatever the synchronisation and *)
(* the runs did between reading the row and APPEND.                           *)
THEOREM RestoresAreExact ==
  ASSUME MaxValidity = 1
  PROVE  Spec => []RestoreExact
<1>1. IndexInv => RestoreExact
  BY DEF IndexInv, RestoreNamesRow, RestoreExact
<1> QED BY IndexInvariant, <1>1, PTL

-----------------------------------------------------------------------------
(* The cursor passes no message. *)

(* A message that a step brings has a UID at or above the old UIDNEXT. *)
LEMMA Newcomers ==
  ASSUME IInv, OnlyGrows, NEW mb \in Mailbox, NEW u \in Uid, msgs'[mb][u] # NoBody
  PROVE  u \in Present(mb) \/ uidNext[mb] <= u
<1>1. u \in Nat /\ uidNext[mb] \in Nat
  BY DEF IInv, TypeOK, ServerTypeOK, Uid
<1>2. u < uidNext[mb] => msgs'[mb][u] \in {NoBody, msgs[mb][u]}
  BY DEF OnlyGrows
<1>3. u < uidNext[mb] \/ uidNext[mb] <= u
  BY <1>1
<1> QED BY <1>2, <1>3 DEF Present

(* The cursor of a mailbox is written at its SELECT, which may reset it, and  *)
(* after the last batch.                                                      *)
LEMMA CursorWriters ==
  ASSUME IInv, [Next]_vars, NEW mb \in Mailbox
  PROVE  \/ highestUid'[mb] \in {0, highestUid[mb]}
         \/ AdvanceCursor /\ SyncStep /\ mb = box /\ highestUid'[mb] = newHighest
<1> USE DEF IInv, TypeOK, StoreTypeOK
<1>1. UNCHANGED highestUid => highestUid'[mb] = highestUid[mb]
  OBVIOUS
<1>2. CASE SyncStep
  <2>1. ASSUME NEW m \in Mailbox, Selected(m) PROVE highestUid'[mb] \in {0, highestUid[mb]}
    BY <2>1 DEF Selected, StartFrom
  <2>2. ASSUME AdvanceCursor
        PROVE  \/ highestUid'[mb] = highestUid[mb]
               \/ mb = box /\ highestUid'[mb] = newHighest
    BY <2>2 DEF AdvanceCursor, cursorVars, SyncTypeOK
  <2> QED
    BY <1>1, <1>2, <2>1, <2>2
    DEF SyncStep, SyncNext, SyncStart, IndexDone, SyncDone, SelectFails, ResetRefused,
        SelectEmpty, SelectMailbox, FetchMetadata, SearchAll, MarkMissing,
        IndexFails, ArchiveSelect, NothingPending, FetchBody, WriteBlob, UpsertMetaBatch,
        ArchiveOne, ArchiveOneFails, FetchBodiesFails, ArchiveMailboxDone, storeVars, cursorVars
<1>3. ASSUME NEW r \in Run, RunStep(r) PROVE UNCHANGED highestUid
  BY <1>3
  DEF RunStep, RunNext, ListCandidates, ListOrOpenFails, SelectForCleanup,
      SelectForCleanupFails, NextChunk, ChunksDone, RunDone, MarkDeletedChunk,
      ExpungeMailbox, DeleteFails, MoveOne, CopyOne, MoveDone, MoveFails, CopyDone,
      CopyFails, MarkChunk, storeVars, cursorVars
<1>4. CASE ServerStep \/ JobStep \/ RestoreStep \/ Crash \/ UNCHANGED vars
  BY <1>4
  DEF ServerStep, JobStep, JobNext, RunJob, RestoreStep, RestoreNext, RestoreRequest,
      RestoreAppend, RestoreFails, RestoreMark, Crash, vars, storeVars, cursorVars
<1> QED BY <1>1, <1>2, <1>3, <1>4 DEF Next

(* The highest UID upserted so far belongs to the mailbox that is indexed. *)
LEMMA HighestWriters ==
  ASSUME CursorInv, [Next]_vars
  PROVE  \/ newHighest' = 0
         \/ newHighest' = newHighest /\ box' = box
         \/ UpsertMetaBatch /\ SyncStep
<1>1. CASE SyncStep
  <2>1. ASSUME NEW mb \in Mailbox, SelectMailbox(mb) \/ ArchiveSelect(mb) PROVE newHighest' = 0
    <3>1. newHighest = 0 \/ syncPc \in {"upsert", "advance", "search", "mark"}
      BY DEF CursorInv
    <3> QED BY <2>1, <3>1 DEF SelectMailbox, Selected, ArchiveSelect, indexVars
  <2> QED
    BY <1>1, <2>1
    DEF SyncStep, SyncNext, SyncStart, IndexDone, SyncDone, SelectFails, ResetRefused,
        SelectEmpty, FetchMetadata, AdvanceCursor, SearchAll, MarkMissing,
        IndexFails, NothingPending, FetchBody, WriteBlob,
        ArchiveOne, ArchiveOneFails, FetchBodiesFails, ArchiveMailboxDone, NextMailbox, indexVars
<1>2. CASE Crash BY <1>2 DEF Crash
<1>3. CASE UNCHANGED vars BY <1>3 DEF vars, syncVars, indexVars
<1> QED BY <1>1, <1>2, <1>3, OthersLeaveTheArchive DEF Next, syncVars, indexVars

(* Each part of CursorInv is kept: first the cursor itself and its bound ... *)
LEMMA CursorKeepsCovering ==
  ASSUME IInv, UidsAreFresh, IndexInv, OnlyGrows, CursorInv, [Next]_vars, NEW mb \in Mailbox
  PROVE  /\ highestUid'[mb] < uidNext'[mb]
         /\ \A u \in Uid : msgs'[mb][u] # NoBody /\ u <= highestUid'[mb] => u \in indexed'[mb]
<1>1. /\ highestUid[mb] \in Nat /\ uidNext[mb] \in Nat /\ uidNext'[mb] \in Nat
      /\ uidNext[mb] <= uidNext'[mb] /\ newHighest \in Nat /\ 0 < uidNext[mb]
  BY UidNextIsNat
  DEF OnlyGrows, IInv, TypeOK, ServerTypeOK, StoreTypeOK, SyncTypeOK
<1>2. highestUid[mb] < uidNext[mb] /\ newHighest < uidNext[box]
  BY DEF CursorInv
<1>3. \A u \in Present(mb) : u <= highestUid[mb] => u \in indexed'[mb]
  BY RowsGrow DEF CursorInv, CursorCovers
<1>4. \A u \in Uid : /\ u \in Nat /\ u > 0
                     /\ msgs'[mb][u] # NoBody => u \in Present(mb) \/ uidNext[mb] <= u
  BY Newcomers DEF Uid
<1>5. CASE highestUid'[mb] \in {0, highestUid[mb]}
  BY <1>1, <1>2, <1>3, <1>4, <1>5
<1>6. CASE AdvanceCursor /\ mb = box /\ highestUid'[mb] = newHighest
  <2>1. \A u \in Present(box) : u <= newHighest => u \in indexed[box]
    BY <1>6 DEF AdvanceCursor, CursorInv
  <2> QED BY <1>1, <1>2, <1>4, <1>6, <2>1, RowsGrow
<1> QED BY <1>5, <1>6, CursorWriters

(* ... then the highest UID upserted, which is one of a fetched message, ... *)
LEMMA HighestKept ==
  ASSUME IInv, UidsAreFresh, IndexInv, OnlyGrows, CursorInv, [Next]_vars
  PROVE  newHighest' < uidNext'[box']
<1>1. /\ box \in Mailbox /\ box' \in Mailbox /\ newHighest \in Nat
      /\ uidNext'[box'] \in Nat /\ 0 < uidNext'[box']
      /\ uidNext[box] \in Nat /\ uidNext'[box] \in Nat /\ uidNext[box] <= uidNext'[box]
  BY NextIInv DEF OnlyGrows, IInv, TypeOK, ServerTypeOK, SyncTypeOK
<1>2. newHighest < uidNext[box]
  BY DEF CursorInv
<1>3. CASE newHighest' = 0
  BY <1>1, <1>3
<1>4. CASE newHighest' = newHighest /\ box' = box
  BY <1>1, <1>2, <1>4
<1>5. CASE UpsertMetaBatch
  <2>1. box' = box /\ (newHighest' \in Metas \/ newHighest' = newHighest)
    BY <1>5 DEF UpsertMetaBatch
  <2>2. \A u \in Metas : u \in Nat /\ u < uidNext[box]
    BY <1>5 DEF UpsertMetaBatch, IndexInv, MetasNameMessages, Metas, Uid
  <2> QED BY <1>1, <1>2, <2>1, <2>2
<1> QED BY <1>3, <1>4, <1>5, HighestWriters

(* ... and what a batch leaves to do lies above it or is still in metas. *)
LEMMA BatchesCover ==
  ASSUME IInv, UidsAreFresh, IndexInv, CursorInv, SyncStep, UpsertMetaBatch,
         NEW u \in Present(box)
  PROVE  \/ u \in indexed'[box] \cup Metas'
         \/ newHighest' < u /\ (\A w \in Metas' : w < u)
<1> USE DEF IInv, TypeOK, StoreTypeOK, SyncTypeOK
<1>1. PICK batch \in SUBSET Metas :
        /\ InsertRows(box, batch, metas, metaFlags)
        /\ metas' = [x \in Uid |-> IF x \in batch THEN NoBody ELSE metas[x]]
        /\ newHighest' \in batch \cup {newHighest}
  BY DEF UpsertMetaBatch
<1>2. Metas' = Metas \ batch
  BY <1>1 DEF Metas
<1>3. indexed'[box] = indexed[box] \cup batch
  BY <1>1 DEF InsertRows
<1>4. u \in indexed[box] \cup Metas \/ (newHighest < u /\ \A w \in Metas : w < u)
  BY DEF CursorInv, UpsertMetaBatch
<1> QED BY <1>1, <1>2, <1>3, <1>4

(* While batches are upserted: a message that arrives meanwhile has a UID     *)
(* above all of them.                                                         *)
LEMMA UpsertCovers ==
  ASSUME IInv, UidsAreFresh, IndexInv, OnlyGrows, CursorInv, [Next]_vars,
         syncPc' = "upsert", NEW u \in Uid, msgs'[box'][u] # NoBody
  PROVE  \/ u \in indexed'[box'] \cup Metas'
         \/ newHighest' < u /\ (\A w \in Metas' : w < u)
<1>1. box \in Mailbox /\ newHighest \in Nat /\ uidNext[box] \in Nat /\ Metas \subseteq Nat
  BY DEF IInv, TypeOK, ServerTypeOK, SyncTypeOK, Metas, Uid
<1>2. CASE UNCHANGED syncVars
  <2>1. box' = box /\ newHighest' = newHighest /\ Metas' = Metas /\ syncPc = "upsert"
    BY <1>2 DEF syncVars, indexVars, Metas
  <2>2. u \in Nat /\ (u \in Present(box) \/ uidNext[box] <= u)
    BY <1>1, <2>1, Newcomers DEF Uid
  <2>3. CASE u \in Present(box)
    BY <1>1, <2>1, <2>3, RowsGrow DEF CursorInv
  <2>4. CASE uidNext[box] <= u
    <3>1. newHighest < uidNext[box] /\ \A w \in Metas : w < uidNext[box]
      BY <2>1 DEF CursorInv, IndexInv, MetasNameMessages
    <3> QED BY <1>1, <2>1, <2>2, <2>4, <3>1
  <2> QED BY <2>2, <2>3, <2>4
<1>3. CASE FetchMetadata /\ SyncStep
  <2>1. box' = box /\ UNCHANGED <<msgs, newHighest, indexed>>
    BY <1>3, ServerLeftAlone DEF FetchMetadata, serverVars, storeVars, rowVars
  <2>2. u \in Present(box) /\ u \in Uid /\ msgs[box][u] # NoBody
    BY <2>1 DEF Present
  <2>3. metas' = [x \in Uid |-> IF x \in FromUid(box, highestUid[box] + 1)
                                THEN msgs[box][x] ELSE NoBody]
    BY <1>3 DEF FetchMetadata
  <2>4. CASE u \in FromUid(box, highestUid[box] + 1)
    BY <2>2, <2>3, <2>4 DEF Metas
  <2>5. CASE u \notin FromUid(box, highestUid[box] + 1)
    <3>1. ~(u >= highestUid[box] + 1) /\ highestUid[box] \in Nat /\ u \in Nat
      BY <1>1, <2>2, <2>5 DEF FromUid, IInv, TypeOK, StoreTypeOK, Uid
    <3>2. u <= highestUid[box]
      BY <3>1
    <3> QED BY <1>1, <2>1, <2>2, <3>2 DEF CursorInv, CursorCovers
  <2> QED BY <2>4, <2>5
<1>4. CASE UpsertMetaBatch /\ SyncStep
  <2>1. box' = box /\ u \in Present(box)
    BY <1>4, ServerLeftAlone DEF UpsertMetaBatch, serverVars, Present
  <2> QED BY <1>4, <2>1, BatchesCover
<1> QED BY <1>2, <1>3, <1>4, IndexPhases

(* After the last batch everything up to the highest UID has a row. *)
LEMMA AdvanceCovers ==
  ASSUME IInv, UidsAreFresh, IndexInv, OnlyGrows, CursorInv, [Next]_vars,
         syncPc' = "advance", NEW u \in Uid, msgs'[box'][u] # NoBody, u <= newHighest'
  PROVE  u \in indexed'[box']
<1>1. box \in Mailbox /\ newHighest \in Nat /\ uidNext[box] \in Nat
  BY DEF IInv, TypeOK, ServerTypeOK, SyncTypeOK
<1>2. CASE UNCHANGED syncVars
  <2>1. box' = box /\ newHighest' = newHighest /\ syncPc = "advance"
    BY <1>2 DEF syncVars, indexVars
  <2>2. u \in Nat /\ (u \in Present(box) \/ uidNext[box] <= u)
    BY <1>1, <2>1, Newcomers DEF Uid
  <2>3. u \in Present(box)
    BY <1>1, <2>1, <2>2 DEF CursorInv
  <2> QED BY <1>1, <2>1, <2>3, RowsGrow DEF CursorInv
<1>3. CASE UpsertMetaBatch /\ SyncStep
  <2>1. box' = box /\ u \in Present(box)
    BY <1>3, ServerLeftAlone DEF UpsertMetaBatch, serverVars, Present
  <2>2. u \in Nat /\ newHighest' \in Nat
    BY <2>1, NextIInv DEF IInv, TypeOK, SyncTypeOK, Present, Uid
  <2>3. Metas' = {}
    BY <1>3 DEF UpsertMetaBatch, Metas
  <2> QED BY <1>3, <2>1, <2>2, <2>3, BatchesCover
<1> QED BY <1>2, <1>3, IndexPhases

(* newHighest goes back to 0 before another mailbox is selected. *)
LEMMA HighestIsReset ==
  ASSUME CursorInv, [Next]_vars
  PROVE  newHighest' = 0 \/ syncPc' \in {"upsert", "advance", "search", "mark"}
<1>1. newHighest = 0 \/ syncPc \in {"upsert", "advance", "search", "mark"}
  BY DEF CursorInv
<1>2. CASE SyncStep
  <2>1. CASE UpsertMetaBatch
    BY <2>1 DEF UpsertMetaBatch
  <2> QED
    BY <1>1, <1>2, <2>1
    DEF SyncStep, SyncNext, SyncStart, IndexDone, SyncDone, SelectFails, ResetRefused,
        SelectEmpty, SelectMailbox, Selected, FetchMetadata, AdvanceCursor, SearchAll,
        MarkMissing, IndexFails, ArchiveSelect, NothingPending, FetchBody, WriteBlob,
        ArchiveOne, ArchiveOneFails, FetchBodiesFails, ArchiveMailboxDone, NextMailbox,
        indexVars
<1>3. CASE Crash BY <1>3 DEF Crash
<1>4. CASE UNCHANGED vars BY <1>1, <1>4 DEF vars, syncVars, indexVars
<1> QED BY <1>1, <1>2, <1>3, <1>4, OthersLeaveTheArchive DEF Next, syncVars, indexVars

(* The inductive step of the cursor: what FETCH, the batches and the     *)
(* write of the cursor each leave below it.                              *)
LEMMA CursorKept ==
  ASSUME IInv, UidsAreFresh, IndexInv, OnlyGrows, CursorInv, [Next]_vars
  PROVE  CursorInv'
<1>1. CursorCovers' /\ \A mb \in Mailbox : highestUid'[mb] < uidNext'[mb]
  BY CursorKeepsCovering DEF CursorCovers, Present
<1> QED BY <1>1, HighestKept, HighestIsReset, UpsertCovers, AdvanceCovers DEF CursorInv, Present

(* No message is passed by: one that is present at or below highest_uid has a *)
(* row, whatever batches failed, and whenever messages arrived or the process *)
(* stopped.                                                                   *)
THEOREM CursorPassesNothing ==
  ASSUME MaxValidity = 1
  PROVE  Spec => []CursorCovers
<1>1. Init => CursorInv
  BY AnyMailboxType
  DEF Init, ServerInit, StoreInit, SyncInit, CursorInv, CursorCovers, Present
<1>2. IInv /\ UidsAreFresh /\ IndexInv /\ CursorInv /\ [Next]_vars => CursorInv'
  BY StepsOnlyGrow, CursorKept
<1>3. CursorInv => CursorCovers
  BY DEF CursorInv
<1> QED BY IndexInvariant, <1>1, <1>2, <1>3, PTL DEF Spec

-----------------------------------------------------------------------------
(* What is marked as deleted is gone. *)

(* A message keeps its \Deleted flag as long as it is there, when no other    *)
(* client takes flags back.                                                   *)
FlagsStay ==
    \A mb \in Mailbox, u \in Uid :
        u \in flagged[mb] /\ msgs'[mb][u] # NoBody => u \in flagged'[mb]

(* No command but that of a client takes a flag off a message that stays. *)
LEMMA CommandsKeepFlags ==
  ASSUME ServerTypeOK, NEW mb \in Mailbox
  PROVE  /\ UNCHANGED flagged => FlagsStay
         /\ \A b \in Body, deleted \in BOOLEAN : AppendMessage(mb, b, deleted) => FlagsStay
         /\ \A to \in Mailbox, u \in Present(mb) : CopyMessage(mb, u, to) => FlagsStay
         /\ \A to \in Mailbox, u \in Present(mb) : MoveMessage(mb, u, to) => FlagsStay
         /\ \A uids \in SUBSET Uid : StoreDeleted(mb, uids) => FlagsStay
         /\ ExpungeFlagged(mb) => FlagsStay
         /\ \A u \in Uid : ClientDelete(mb, u) => FlagsStay
<1> USE DEF FlagsStay, ServerTypeOK
<1>1. ASSUME \A m \in Mailbox : flagged[m] \subseteq flagged'[m] PROVE FlagsStay
  BY <1>1
<1>2. UNCHANGED flagged => FlagsStay
  OBVIOUS
<1>3. ASSUME NEW b, NEW deleted, AppendMessage(mb, b, deleted) PROVE FlagsStay
  BY <1>1, <1>3 DEF AppendMessage
<1>4. ASSUME NEW to \in Mailbox, NEW u, CopyMessage(mb, u, to) PROVE FlagsStay
  BY <1>1, <1>4 DEF CopyMessage, AppendMessage
<1>5. ASSUME NEW to \in Mailbox, NEW u \in Present(mb), MoveMessage(mb, u, to) PROVE FlagsStay
  <2> DEFINE arrived == [msgs EXCEPT ![to][uidNext[to]] = msgs[mb][u]]
             marked == [flagged EXCEPT ![to] =
                           IF u \in flagged[mb] THEN @ \cup {uidNext[to]} ELSE @]
  <2>1. u \in Uid /\ msgs[mb][u] \in Body /\ uidNext[to] \in Uid
    BY <1>5, ServerAssumption DEF MoveMessage, CanAppend, Present, Uid
  <2>2. arrived \in [Mailbox -> [Uid -> Body \cup {NoBody}]]
    BY <2>1
  <2>3. \A m \in Mailbox : flagged[m] \subseteq marked[m]
    OBVIOUS
  <2>4. marked = [m \in Mailbox |-> marked[m]]
    OBVIOUS
  <2>5. msgs' = [arrived EXCEPT ![mb][u] = NoBody] /\ flagged' = [marked EXCEPT ![mb] = @ \ {u}]
    BY <1>5 DEF MoveMessage
  <2> HIDE DEF arrived, marked
  <2>6. msgs'[mb][u] = NoBody
    BY <2>1, <2>2, <2>5
  <2>7. \A m \in Mailbox : \A w \in flagged[m] : w \in flagged'[m] \/ (m = mb /\ w = u)
    BY <2>3, <2>4, <2>5
  <2> QED BY <2>6, <2>7
<1>6. ASSUME NEW uids, StoreDeleted(mb, uids) PROVE FlagsStay
  BY <1>1, <1>6 DEF StoreDeleted
<1>7. ASSUME ExpungeFlagged(mb) PROVE FlagsStay
  BY <1>7 DEF ExpungeFlagged
<1>8. ASSUME NEW u \in Uid, ClientDelete(mb, u) PROVE FlagsStay
  BY <1>8 DEF ClientDelete
<1> QED BY <1>2, <1>3, <1>4, <1>5, <1>6, <1>7, <1>8

(* Neither does a step of the system, when no client flags or unflags. *)
LEMMA StepsKeepFlags ==
  ASSUME IInv, MaxValidity = 1, "flag" \notin ClientActs, [Next]_vars
  PROVE  FlagsStay
<1> USE DEF IInv, TypeOK
<1>1. UNCHANGED serverVars => FlagsStay
  BY CommandsKeepFlags, AnyMailboxType DEF serverVars
<1>2. CASE ServerStep
  <2> PICK mb \in Mailbox :
        \/ \E b \in Body : Deliver(mb, b)
        \/ \E u \in Uid : ClientDelete(mb, u) \/ ClientFlag(mb, u) \/ ClientUnflag(mb, u)
        \/ Recreate(mb)
    BY <1>2 DEF ServerStep, ServerNext
  <2>1. ~Recreate(mb)
    BY ServerAssumption DEF Recreate, ServerTypeOK
  <2>2. \A u \in Uid : ~ClientFlag(mb, u) /\ ~ClientUnflag(mb, u)
    BY DEF ClientFlag, ClientUnflag
  <2> QED BY <2>1, <2>2, CommandsKeepFlags DEF Deliver
<1>3. CASE SyncStep \/ JobStep \/ Crash
  BY <1>1, <1>3, ServerLeftAlone
<1>4. ASSUME NEW r \in Run, RunStep(r) PROVE FlagsStay
  <2>1. run[r].box \in Mailbox /\ run[r].target \in Mailbox /\ run[r].chunk \in SUBSET Uid
    BY DEF CleanupTypeOK, RunState
  <2> QED BY <1>1, <1>4, <2>1, RunCommands, CommandsKeepFlags DEF RunStep
<1>5. CASE RestoreStep
  <2>1. CASE RestoreAppend
    BY <1>5, <2>1, CommandsKeepFlags DEF RestoreAppend, RestoreTypeOK, ArchiveInv, StoreTypeOK
  <2>2. CASE ~RestoreAppend
    BY <1>1, <1>5, <2>2 DEF RestoreStep, RestoreNext, RestoreRequest, RestoreFails, RestoreMark
  <2> QED BY <2>1, <2>2
<1>6. CASE UNCHANGED vars
  BY <1>1, <1>6 DEF vars
<1> QED BY <1>2, <1>3, <1>4, <1>5, <1>6 DEF Next

(* Only reconcileDeletions, with what SEARCH returned, and a cleanup run,     *)
(* with its chunk, mark rows as deleted.                                      *)
LEMMA DeletionWriters ==
  ASSUME IInv, [Next]_vars, NEW mb \in Mailbox,
         NEW u \in deletedFromServerAt'[mb], u \notin deletedFromServerAt[mb]
  PROVE  \/ MarkMissing /\ SyncStep /\ mb = box /\ u \in indexed[box] \ seen
         \/ \E r \in Run : /\ RunStep(r) /\ run[r].pc = "mark" /\ UNCHANGED serverVars
                           /\ mb = run[r].box /\ u \in run[r].chunk
<1> USE DEF IInv, TypeOK, StoreTypeOK
<1>1. ~UNCHANGED deletedFromServerAt
  OBVIOUS
<1>2. CASE SyncStep
  <2>1. MarkMissing
    BY <1>1, <1>2
    DEF SyncStep, SyncNext, SyncStart, IndexDone, SyncDone, SelectFails, ResetRefused,
        SelectEmpty, SelectMailbox, FetchMetadata, AdvanceCursor, SearchAll,
        IndexFails, ArchiveSelect, NothingPending, FetchBody, WriteBlob, UpsertMetaBatch,
        ArchiveOne, ArchiveOneFails, FetchBodiesFails, ArchiveMailboxDone, storeVars
  <2>2. PICK part \in SUBSET Missing : MarkDeletedFromServer(box, part)
    BY <2>1 DEF MarkMissing
  <2>3. mb = box /\ u \in part
    BY <2>2 DEF MarkDeletedFromServer, SyncTypeOK
  <2> QED BY <1>2, <2>1, <2>3 DEF Missing
<1>3. ASSUME NEW r \in Run, RunStep(r)
      PROVE  /\ run[r].pc = "mark" /\ UNCHANGED serverVars
             /\ mb = run[r].box /\ u \in run[r].chunk
  <2>1. MarkChunk(r)
    BY <1>1, <1>3
    DEF RunStep, RunNext, ListCandidates, ListOrOpenFails, SelectForCleanup,
        SelectForCleanupFails, NextChunk, ChunksDone, RunDone, MarkDeletedChunk,
        ExpungeMailbox, DeleteFails, MoveOne, CopyOne, MoveDone, MoveFails, CopyDone,
        CopyFails, storeVars
  <2>2. run[r].box \in Mailbox
    BY DEF CleanupTypeOK, RunState
  <2>3. run[r].pc = "mark" /\ UNCHANGED serverVars /\ MarkDeletedFromServer(run[r].box, run[r].chunk)
    BY <1>1, <2>1 DEF MarkChunk
  <2> QED BY <2>2, <2>3 DEF MarkDeletedFromServer
<1>4. CASE RestoreStep
  <2>1. RestoreMark /\ MarkRestored(restore.box, restore.uid)
    BY <1>1, <1>4 DEF RestoreStep, RestoreNext, RestoreRequest, RestoreAppend, RestoreFails,
                      RestoreMark, storeVars
  <2>2. restore.box \in Mailbox
    BY DEF RestoreTypeOK
  <2> QED BY <2>1, <2>2 DEF MarkRestored
<1>5. ~(ServerStep \/ JobStep \/ Crash \/ UNCHANGED vars)
  BY <1>1 DEF ServerStep, JobStep, JobNext, RunJob, Crash, vars, storeVars
<1> QED BY <1>2, <1>3, <1>4, <1>5 DEF Next

(* A message under the UID of a row never comes back to that UID. *)
LEMMA RowsDoNotReturn ==
  ASSUME IInv, OnlyGrows, IndexInv, NEW mb \in Mailbox, NEW u \in indexed[mb],
         msgs'[mb][u] # NoBody
  PROVE  u \in Present(mb)
  BY DEF OnlyGrows, IndexInv, RowsNameMessages, Present, IInv, TypeOK, StoreTypeOK

(* Whoever marks rows, reconciliation or a run, marks what is gone. *)
LEMMA DeletedGoneKept ==
  ASSUME IInv, OnlyGrows, IndexInv, PickedIsArchived, DeletedInv, [Next]_vars
  PROVE  /\ DeletedIsGone'
         /\ \A mb \in Mailbox : deletedFromServerAt'[mb] \subseteq indexed'[mb]
<1> SUFFICES ASSUME NEW mb \in Mailbox, NEW u \in deletedFromServerAt'[mb]
             PROVE  u \in indexed'[mb] /\ msgs'[mb][u] = NoBody
  BY DEF DeletedIsGone, Present
<1>1. CASE u \in deletedFromServerAt[mb]
  <2>1. u \in indexed[mb] /\ u \notin Present(mb)
    BY <1>1 DEF DeletedInv, DeletedIsGone
  <2> QED BY <2>1, RowsGrow, RowsDoNotReturn
<1>2. CASE u \notin deletedFromServerAt[mb]
  <2>1. CASE MarkMissing /\ SyncStep /\ mb = box /\ u \in indexed[box] \ seen
    <3>1. u \notin Present(box)
      BY <2>1 DEF DeletedInv, MarkMissing
    <3> QED BY <2>1, <3>1, RowsGrow, RowsDoNotReturn
  <2>2. ASSUME NEW r \in Run, run[r].pc = "mark", mb = run[r].box, u \in run[r].chunk
        PROVE  u \in indexed'[mb] /\ msgs'[mb][u] = NoBody
    <3>1. u \notin Present(mb)
      BY <2>2 DEF DeletedInv
    <3>2. u \in indexed[mb]
      BY <2>2 DEF PickedIsArchived, IndexInv, RowsNameMessages
    <3> QED BY <3>1, <3>2, RowsGrow, RowsDoNotReturn
  <2> QED BY <1>2, <2>1, <2>2, DeletionWriters
<1> QED BY <1>1, <1>2

(* What SEARCH did not return is gone until the mark, whatever arrives.       *)
LEMMA SearchKept ==
  ASSUME IInv, OnlyGrows, IndexInv, DeletedInv, [Next]_vars, syncPc' = "mark",
         NEW u \in indexed'[box'], u \notin seen'
  PROVE  msgs'[box'][u] = NoBody
<1>1. box \in Mailbox
  BY DEF IInv, TypeOK, SyncTypeOK
<1>2. UNCHANGED indexed
  BY RowWriters DEF UpsertMetaBatch
<1>3. CASE UNCHANGED syncVars
  <2>1. syncPc = "mark" /\ box' = box /\ seen' = seen
    BY <1>3 DEF syncVars, indexVars
  <2>2. u \in indexed[box] /\ u \notin Present(box)
    BY <1>2, <2>1 DEF DeletedInv
  <2> QED BY <1>1, <2>1, <2>2, RowsDoNotReturn
<1>4. CASE SearchAll /\ SyncStep
  BY <1>1, <1>2, <1>4, RowsDoNotReturn DEF SearchAll
<1> QED BY <1>3, <1>4, IndexPhases

(* Which steps bring a run to MOVE, to EXPUNGE and to the mark. *)
LEMMA RunPhases ==
  ASSUME CleanupTypeOK, NEW r \in Run, RunNext(r)
  PROVE  \/ run'[r].pc \notin {"mark", "expunge", "move"}
         \/ run'[r].pc = "move" /\ run'[r].left = run'[r].chunk
         \/ /\ run'[r].chunk = run[r].chunk /\ run'[r].box = run[r].box
            /\ \/ run'[r].pc = "expunge" /\ StoreDeleted(run[r].box, run[r].chunk)
               \/ /\ run'[r].pc = "mark" /\ run[r].pc = "expunge"
                  /\ ExpungeFlagged(run[r].box)
               \/ /\ run'[r].pc = "mark" /\ run[r].pc = "move" /\ UNCHANGED serverVars
                  /\ run[r].left \cap Present(run[r].box) = {}
               \/ /\ run'[r].pc = "move" /\ run[r].pc = "move"
                  /\ \E u \in run[r].left \cap Present(run[r].box) :
                        /\ run'[r].left = run[r].left \ {u}
                        /\ MoveMessage(run[r].box, u, run[r].target)
<1> USE DEF CleanupTypeOK, RunState
<1>1. CASE NextChunk(r)
  BY <1>1 DEF NextChunk
<1> DEFINE kept == run'[r].chunk = run[r].chunk /\ run'[r].box = run[r].box
<1>2. GiveUpChunk(r) => run'[r].pc = "chunk"
  BY DEF GiveUpChunk
<1>3. ASSUME NEW pc, Goto(r, pc) PROVE run'[r].pc = pc /\ kept
  BY <1>3 DEF Goto
<1>4. ASSUME MarkDeletedChunk(r)
      PROVE  \/ run'[r].pc = "chunk"
             \/ kept /\ run'[r].pc = "expunge" /\ StoreDeleted(run[r].box, run[r].chunk)
  BY <1>4, <1>2, <1>3 DEF MarkDeletedChunk
<1>5. ASSUME ExpungeMailbox(r)
      PROVE  \/ run'[r].pc = "chunk"
             \/ /\ kept /\ run'[r].pc = "mark" /\ run[r].pc = "expunge"
                /\ ExpungeFlagged(run[r].box)
  BY <1>5, <1>2, <1>3 DEF ExpungeMailbox
<1>6. ASSUME MoveDone(r)
      PROVE  /\ kept /\ run'[r].pc = "mark" /\ run[r].pc = "move" /\ UNCHANGED serverVars
             /\ run[r].left \cap Present(run[r].box) = {}
  BY <1>6 DEF MoveDone
<1>7. ASSUME NEW u \in Uid, MoveOne(r, u)
      PROVE  /\ run'[r].chunk = run[r].chunk /\ run'[r].box = run[r].box
             /\ run'[r].pc = "move" /\ run[r].pc = "move"
             /\ u \in run[r].left \cap Present(run[r].box)
             /\ run'[r].left = run[r].left \ {u}
             /\ MoveMessage(run[r].box, u, run[r].target)
  BY <1>7 DEF MoveOne
<1>8. ASSUME NEW u \in Uid, CopyOne(r, u) PROVE run'[r].pc = "copy"
  BY <1>8 DEF CopyOne
<1>9. CASE ListCandidates(r)
  BY <1>9 DEF ListCandidates
<1>10. ASSUME NEW mb \in Mailbox, SelectForCleanup(r, mb) \/ SelectForCleanupFails(r, mb)
      PROVE  run'[r].pc \in {"chunk", "mailbox"}
  BY <1>10 DEF SelectForCleanup, SelectForCleanupFails
<1>11. ListOrOpenFails(r) \/ RunDone(r) => run'[r].pc = "none"
  BY DEF ListOrOpenFails, RunDone, NoRun, Goroutine
<1>12. ChunksDone(r) => run'[r].pc = "mailbox"
  BY DEF ChunksDone
<1>13. DeleteFails(r) \/ CopyFails(r) \/ MarkChunk(r) => run'[r].pc = "chunk"
  BY <1>2 DEF DeleteFails, CopyFails, MarkChunk
<1>14. MoveFails(r) => run'[r].pc = "copy"
  BY DEF MoveFails
<1>15. CopyDone(r) => run'[r].pc = "store"
  BY DEF CopyDone
<1> QED
  BY <1>1, <1>2, <1>3, <1>4, <1>5, <1>6, <1>7, <1>8, <1>9, <1>10,
     <1>11, <1>12, <1>13, <1>14, <1>15 DEF RunNext

(* A step changes one run at most. *)
LEMMA OneRunMoves ==
  ASSUME IInv, [Next]_vars, NEW r \in Run
  PROVE  run'[r] = run[r] \/ run'[r].pc \in {"none", "list"} \/ RunStep(r)
<1> USE DEF IInv, TypeOK, CleanupTypeOK
<1>1. ASSUME NEW q \in Run, RunStep(q) PROVE q = r \/ run'[r] = run[r]
  BY <1>1
  DEF RunStep, RunNext, ListCandidates, ListOrOpenFails, SelectForCleanup,
      SelectForCleanupFails, NextChunk, ChunksDone, RunDone, MarkDeletedChunk,
      ExpungeMailbox, DeleteFails, MoveOne, CopyOne, MoveDone, MoveFails, CopyDone,
      CopyFails, MarkChunk, Goto, GiveUpChunk
<1>2. CASE JobStep
  BY <1>2 DEF JobStep, JobNext, RunJob, Goroutine
<1>3. CASE Crash
  BY <1>3 DEF Crash, NoRun, Goroutine
<1>4. CASE ServerStep \/ SyncStep \/ RestoreStep \/ UNCHANGED vars
  BY <1>4 DEF ServerStep, SyncStep, RestoreStep, vars, cleanupVars
<1> QED BY <1>1, <1>2, <1>3, <1>4 DEF Next

(* The chunk of a run, up to the mark. *)
LEMMA ChunkKept ==
  ASSUME IInv, OnlyGrows, FlagsStay, IndexInv, PickedIsArchived, DeletedInv, [Next]_vars,
         NEW r \in Run, NEW u \in run'[r].chunk, msgs'[run'[r].box][u] # NoBody
  PROVE  /\ run'[r].pc # "mark"
         /\ run'[r].pc = "expunge" => u \in flagged'[run'[r].box]
         /\ run'[r].pc = "move" => u \in run'[r].left
<1>1. /\ run[r].box \in Mailbox /\ run[r].target \in Mailbox
      /\ run[r].chunk \in SUBSET Uid /\ run[r].chunk \subseteq indexed[run[r].box]
      /\ run[r].left \subseteq run[r].chunk
  BY DEF IInv, TypeOK, CleanupTypeOK, RunState, PickedIsArchived, IndexInv, RowsNameMessages
<1> DEFINE there == u \in run[r].chunk /\ u \in Present(run[r].box)
<1>2. ASSUME run'[r].chunk = run[r].chunk, run'[r].box = run[r].box PROVE there
  BY <1>1, <1>2, RowsDoNotReturn
<1>3. there => /\ run[r].pc # "mark"
               /\ run[r].pc = "expunge" => u \in flagged[run[r].box]
               /\ run[r].pc = "move" => u \in run[r].left
  BY DEF DeletedInv
<1> HIDE DEF there
<1>4. CASE run'[r] = run[r]
  BY <1>1, <1>2, <1>3, <1>4 DEF FlagsStay
<1>5. CASE run'[r].pc \in {"none", "list"}
  BY <1>5
<1>6. CASE RunStep(r)
  <2> USE DEF IInv, TypeOK, ServerTypeOK
  <2>1. CASE run'[r].pc = "move" /\ run'[r].left = run'[r].chunk
    BY <2>1
  <2>2. ASSUME run'[r].chunk = run[r].chunk, run'[r].box = run[r].box,
               run'[r].pc = "expunge", StoreDeleted(run[r].box, run[r].chunk)
        PROVE  u \in flagged'[run'[r].box]
    BY <1>1, <1>2, <2>2 DEF StoreDeleted, there
  <2>3. ASSUME run'[r].chunk = run[r].chunk, run'[r].box = run[r].box,
               run[r].pc = "expunge", ExpungeFlagged(run[r].box)
        PROVE  FALSE
    <3>1. u \in flagged[run[r].box] /\ u \in Uid
      BY <1>1, <1>2, <1>3, <2>3
    <3> QED BY <1>1, <2>3, <3>1 DEF ExpungeFlagged
  <2>4. ASSUME run'[r].chunk = run[r].chunk, run'[r].box = run[r].box,
               run[r].pc = "move", run[r].left \cap Present(run[r].box) = {}
        PROVE  FALSE
    BY <1>2, <1>3, <2>4 DEF there
  <2>5. ASSUME run'[r].chunk = run[r].chunk, run'[r].box = run[r].box, run[r].pc = "move",
               NEW w \in run[r].left \cap Present(run[r].box),
               run'[r].left = run[r].left \ {w}, MoveMessage(run[r].box, w, run[r].target)
        PROVE  u \in run'[r].left
    <3>1. msgs'[run[r].box][w] = NoBody
      <4>1. w \in Uid /\ uidNext[run[r].target] \in Uid /\ msgs[run[r].box][w] \in Body
        <5>1. w \in Uid /\ msgs[run[r].box][w] \in Body
          BY <1>1, <2>5 DEF Present
        <5>2. uidNext[run[r].target] <= MaxUid
          BY <2>5 DEF MoveMessage, CanAppend
        <5> QED BY <1>1, <5>1, <5>2, ServerAssumption DEF Uid
      <4> DEFINE arrived ==
            [msgs EXCEPT ![run[r].target][uidNext[run[r].target]] = msgs[run[r].box][w]]
      <4>2. arrived \in [Mailbox -> [Uid -> Body \cup {NoBody}]]
        BY <1>1, <4>1
      <4>3. msgs' = [arrived EXCEPT ![run[r].box][w] = NoBody]
        BY <2>5 DEF MoveMessage
      <4> HIDE DEF arrived
      <4> QED BY <1>1, <4>1, <4>2, <4>3
    <3>2. u # w
      BY <2>5, <3>1
    <3> QED BY <1>2, <1>3, <2>5, <3>2
  <2>6. CASE run'[r].pc \notin {"mark", "expunge", "move"}
    BY <2>6
  <2> QED BY <1>6, <2>1, <2>2, <2>3, <2>4, <2>5, <2>6, RunPhases DEF RunStep
<1> QED BY <1>4, <1>5, <1>6, OneRunMoves

(* The inductive step of the marks. *)
LEMMA DeletedKept ==
  ASSUME IInv, OnlyGrows, FlagsStay, IndexInv, PickedIsArchived, DeletedInv, [Next]_vars
  PROVE  DeletedInv'
<1>1. ASSUME syncPc' = "mark" PROVE (indexed'[box'] \ seen') \cap Present(box)' = {}
  BY <1>1, SearchKept DEF Present
<1>2. ASSUME NEW r \in Run
      PROVE  LET there == run'[r].chunk \cap {u \in Uid : msgs'[run'[r].box][u] # NoBody} IN
             /\ run'[r].pc = "mark" => there = {}
             /\ run'[r].pc = "expunge" => there \subseteq flagged'[run'[r].box]
             /\ run'[r].pc = "move" => there \subseteq run'[r].left
  BY ChunkKept
<1> QED BY <1>1, <1>2, DeletedGoneKept DEF DeletedInv, Present

(* deleted_from_server_at is the truth: a row that has it names no message of *)
(* its mailbox.  SEARCH, STORE, EXPUNGE and MOVE happen before the mark, in   *)
(* other sessions, with other runs and restores in between.                   *)
THEOREM MarkedIsGone ==
  ASSUME MaxValidity = 1, "flag" \notin ClientActs
  PROVE  Spec => []DeletedIsGone
<1>1. Init => DeletedInv /\ PickedIsArchived
  BY DEF Init, ServerInit, StoreInit, SyncInit, CleanupInit, NoRun, Goroutine, NoPicks,
         DeletedInv, DeletedIsGone, PickedIsArchived
<1>2. /\ IInv /\ UidsAreFresh /\ IndexInv /\ PickedIsArchived /\ DeletedInv /\ [Next]_vars
      => PickedIsArchived' /\ DeletedInv'
  BY StepsOnlyGrow, StepsKeepFlags, PickedKept, DeletedKept
<1>3. DeletedInv => DeletedIsGone
  BY DEF DeletedInv
<1> QED BY IndexInvariant, <1>1, <1>2, <1>3, PTL DEF Spec
=============================================================================
