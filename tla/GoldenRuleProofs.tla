-------------------------- MODULE GoldenRuleProofs --------------------------
(***************************************************************************)
(* The golden rule as a theorem: for any number of mailboxes, messages,    *)
(* runs, restores, failures and crashes, as long as UIDVALIDITY does not   *)
(* change and no other client leaves \Deleted flags behind.                *)
(***************************************************************************)
EXTENDS GiraffeMailProofs

(* What a step does to the messages: UIDs are only handed out upwards, and *)
(* the message under a UID once handed out stays or goes.                  *)
OnlyGrows ==
    \A mb \in Mailbox :
        /\ uidNext[mb] <= uidNext'[mb]
        /\ \A u \in Uid :
              /\ u < uidNext[mb] => msgs'[mb][u] \in {NoBody, msgs[mb][u]}
              /\ msgs'[mb][u] # NoBody => u < uidNext'[mb]

(* The commands of the program only grow the server in that sense. *)
LEMMA CommandsOnlyGrow ==
  ASSUME ServerTypeOK, UidsAreFresh, NEW mb \in Mailbox
  PROVE  /\ UNCHANGED <<msgs, uidNext>> => OnlyGrows
         /\ \A b \in Body, deleted \in BOOLEAN : AppendMessage(mb, b, deleted) => OnlyGrows
         /\ \A to \in Mailbox, u \in Present(mb) : CopyMessage(mb, u, to) => OnlyGrows
         /\ \A to \in Mailbox, u \in Present(mb) : MoveMessage(mb, u, to) => OnlyGrows
         /\ ExpungeFlagged(mb) => OnlyGrows
         /\ \A u \in Uid : ClientDelete(mb, u) => OnlyGrows
<1> USE ServerAssumption DEF OnlyGrows, ServerTypeOK, Uid
<1>1. \A m \in Mailbox, u \in Uid : msgs[m][u] # NoBody => u < uidNext[m]
  BY DEF UidsAreFresh, Present
<1>2. ASSUME UNCHANGED <<msgs, uidNext>> PROVE OnlyGrows
  BY <1>1, <1>2
<1>3. ASSUME NEW to \in Mailbox, NEW b \in Body, CanAppend(to),
             msgs' = [msgs EXCEPT ![to][uidNext[to]] = b],
             uidNext' = [uidNext EXCEPT ![to] = @ + 1]
      PROVE  OnlyGrows
  BY <1>1, <1>3 DEF CanAppend
<1>7. ASSUME NEW b \in Body, NEW deleted \in BOOLEAN, AppendMessage(mb, b, deleted)
      PROVE  OnlyGrows
  BY <1>3, <1>7 DEF AppendMessage
<1>8. ASSUME NEW to \in Mailbox, NEW u \in Present(mb), CopyMessage(mb, u, to) PROVE OnlyGrows
  <2>1. msgs[mb][u] \in Body
    BY DEF Present
  <2>2. /\ CanAppend(to)
        /\ msgs' = [msgs EXCEPT ![to][uidNext[to]] = msgs[mb][u]]
        /\ uidNext' = [uidNext EXCEPT ![to] = @ + 1]
    BY <1>8 DEF CopyMessage, AppendMessage
  <2> QED BY <1>3, <2>1, <2>2
<1>4. ASSUME NEW to \in Mailbox, NEW u \in Present(mb), MoveMessage(mb, u, to) PROVE OnlyGrows
  <2>1. u \in Uid /\ u < uidNext[mb] /\ uidNext[to] \in Uid
    BY <1>1, <1>4 DEF MoveMessage, CanAppend, Present
  <2> DEFINE arrived == [msgs EXCEPT ![to][uidNext[to]] = msgs[mb][u]]
  <2>2. arrived \in [Mailbox -> [Uid -> Body \cup {NoBody}]]
    BY <2>1 DEF Present
  <2>3. \A m \in Mailbox, w \in Uid :
           arrived[m][w] = IF m = to /\ w = uidNext[to] THEN msgs[mb][u] ELSE msgs[m][w]
    BY <2>1
  <2>4. msgs' = [arrived EXCEPT ![mb][u] = NoBody]
    BY <1>4 DEF MoveMessage
  <2> HIDE DEF arrived
  <2>5. \A m \in Mailbox, w \in Uid :
           msgs'[m][w] = IF m = mb /\ w = u THEN NoBody ELSE arrived[m][w]
    BY <2>1, <2>2, <2>4
  <2>6. /\ uidNext' = [uidNext EXCEPT ![to] = @ + 1]
        /\ \A m \in Mailbox : uidNext'[m] = IF m = to THEN uidNext[m] + 1 ELSE uidNext[m]
    BY <1>4 DEF MoveMessage
  <2>7. ASSUME NEW m \in Mailbox, NEW w \in Uid
        PROVE  /\ w < uidNext[m] => msgs'[m][w] \in {NoBody, msgs[m][w]}
               /\ msgs'[m][w] # NoBody => w < uidNext'[m]
    <3>1. w \in Nat /\ uidNext[m] \in Nat
      OBVIOUS
    <3>2. CASE m = to /\ w = uidNext[to]
      BY <2>6, <3>1, <3>2
    <3>3. CASE ~(m = to /\ w = uidNext[to])
      <4>1. msgs'[m][w] \in {NoBody, msgs[m][w]}
        BY <2>3, <2>5, <3>3
      <4> QED BY <1>1, <2>6, <3>1, <4>1
    <3> QED BY <3>2, <3>3
  <2>8. \A m \in Mailbox : uidNext[m] <= uidNext'[m]
    BY <2>6
  <2> QED BY <2>7, <2>8
<1>5. ASSUME ExpungeFlagged(mb) PROVE OnlyGrows
  BY <1>1, <1>5 DEF ExpungeFlagged
<1>6. ASSUME NEW u \in Uid, ClientDelete(mb, u) PROVE OnlyGrows
  BY <1>1, <1>6 DEF ClientDelete
<1> QED BY <1>2, <1>4, <1>5, <1>6, <1>7, <1>8

(* The synchronisation, a crash and the start of a job leave the server alone. *)
LEMMA ServerLeftAlone ==
  ASSUME SyncStep \/ JobStep \/ Crash
  PROVE  UNCHANGED serverVars
<1>1. CASE SyncStep
  BY <1>1
  DEF SyncStep, SyncNext, SyncStart, IndexDone, SyncDone, SelectFails, ResetRefused,
      SelectEmpty, SelectMailbox, FetchMetadata, UpsertMetaBatch, AdvanceCursor, SearchAll,
      MarkMissing, IndexFails, ArchiveSelect, NothingPending, FetchBody, WriteBlob,
      ArchiveOne, ArchiveOneFails, FetchBodiesFails, ArchiveMailboxDone
<1>2. CASE JobStep BY <1>2 DEF JobStep, JobNext, RunJob
<1>3. CASE Crash BY <1>3 DEF Crash
<1> QED BY <1>1, <1>2, <1>3

(* A step of a run changes the server by one command on its own mailbox. *)
LEMMA RunCommands ==
  ASSUME NEW r \in Run, RunNext(r)
  PROVE  \/ UNCHANGED serverVars
         \/ run[r].pc = "store" /\ StoreDeleted(run[r].box, run[r].chunk)
         \/ run[r].pc = "expunge" /\ ExpungeFlagged(run[r].box)
         \/ run[r].pc = "move" /\ \E u \in run[r].left \cap Present(run[r].box) :
               MoveMessage(run[r].box, u, run[r].target)
         \/ run[r].pc = "copy" /\ \E u \in run[r].left \cap Present(run[r].box) :
               CopyMessage(run[r].box, u, run[r].target)
  BY DEF RunNext, ListCandidates, ListOrOpenFails, SelectForCleanup, SelectForCleanupFails,
         NextChunk, ChunksDone, RunDone, MarkDeletedChunk, ExpungeMailbox, DeleteFails,
         MoveOne, CopyOne, MoveDone, MoveFails, CopyDone, CopyFails, MarkChunk

(* So does every step, while mailboxes are not recreated. *)
LEMMA StepsOnlyGrow ==
  ASSUME IInv, UidsAreFresh, MaxValidity = 1, [Next]_vars
  PROVE  OnlyGrows
<1> USE DEF IInv, TypeOK
<1>1. UNCHANGED serverVars => OnlyGrows
  BY CommandsOnlyGrow, AnyMailboxType DEF serverVars
<1>2. CASE ServerStep
  <2> PICK mb \in Mailbox :
        \/ \E b \in Body : Deliver(mb, b)
        \/ \E u \in Uid : ClientDelete(mb, u) \/ ClientFlag(mb, u) \/ ClientUnflag(mb, u)
        \/ Recreate(mb)
    BY <1>2 DEF ServerStep, ServerNext
  <2>1. ~Recreate(mb)
    BY ServerAssumption DEF Recreate, ServerTypeOK
  <2>2. ASSUME NEW u \in Uid, ClientFlag(mb, u) \/ ClientUnflag(mb, u)
        PROVE  UNCHANGED <<msgs, uidNext>>
    BY <2>2 DEF ClientFlag, ClientUnflag
  <2> QED BY <2>1, <2>2, CommandsOnlyGrow DEF Deliver
<1>3. CASE SyncStep \/ JobStep \/ Crash
  BY <1>1, <1>3, ServerLeftAlone
<1>4. ASSUME NEW r \in Run, RunStep(r) PROVE OnlyGrows
  <2>1. run[r].box \in Mailbox /\ run[r].target \in Mailbox
    BY DEF CleanupTypeOK, RunState
  <2>2. \A u \in Present(run[r].box) : msgs[run[r].box][u] \in Body
    BY <2>1 DEF Present, ServerTypeOK
  <2>3. \A uids : StoreDeleted(run[r].box, uids) => UNCHANGED <<msgs, uidNext>>
    BY DEF StoreDeleted
  <2> QED BY <1>1, <1>4, <2>1, <2>2, <2>3, RunCommands, CommandsOnlyGrow DEF RunStep
<1>5. CASE RestoreStep
  <2>1. CASE RestoreAppend
    BY <1>5, <2>1, CommandsOnlyGrow DEF RestoreAppend, RestoreTypeOK, ArchiveInv, StoreTypeOK
  <2>2. CASE ~RestoreAppend
    BY <1>1, <1>5, <2>2 DEF RestoreStep, RestoreNext, RestoreRequest, RestoreFails, RestoreMark
  <2> QED BY <2>1, <2>2
<1>6. CASE UNCHANGED vars
  BY <1>1, <1>6 DEF vars
<1> QED BY <1>2, <1>3, <1>4, <1>5, <1>6 DEF Next

(* UIDs of archived rows, and of the message being archived, were handed out. *)
LEMMA FreshKept ==
  ASSUME IInv, UidsAreFresh, OnlyGrows, [Next]_vars
  PROVE  UidsAreFresh'
<1> USE DEF IInv, TypeOK, ServerTypeOK, StoreTypeOK
<1>1. \A mb \in Mailbox : \A u \in Present(mb)' : u < uidNext'[mb]
  BY DEF OnlyGrows, Present
<1>2. ASSUME UNCHANGED <<archivedAt, syncVars>> PROVE UidsAreFresh'
  <2>1. \A mb \in Mailbox : \A u \in archivedAt'[mb] : u < uidNext'[mb]
    <3>1. ASSUME NEW mb \in Mailbox, NEW u \in archivedAt[mb] PROVE u < uidNext'[mb]
      <4>1. u \in Nat /\ u < uidNext[mb] /\ uidNext[mb] <= uidNext'[mb]
        BY <3>1 DEF UidsAreFresh, OnlyGrows, Uid
      <4>2. uidNext[mb] \in Nat /\ uidNext'[mb] \in Nat
        BY NextIInv
      <4> QED BY <4>1, <4>2
    <3> QED BY <1>2, <3>1
  <2>2. syncPc' \in {"blob", "row"} => fetched'.uid < uidNext'[box']
    BY <1>2, NextIInv, ServerAssumption DEF syncVars, UidsAreFresh, OnlyGrows, SyncTypeOK
  <2> QED BY <1>1, <2>1, <2>2 DEF UidsAreFresh
<1>3. CASE SyncStep
  <2>1. UNCHANGED <<msgs, uidNext>>
    BY <1>3, ServerLeftAlone DEF serverVars
  <2>2. ASSUME UNCHANGED archivedAt, syncPc' \notin {"blob", "row"} PROVE UidsAreFresh'
    BY <1>1, <2>1, <2>2 DEF UidsAreFresh
  <2>3. ASSUME NEW u \in Uid, FetchBody(u) PROVE UidsAreFresh'
    <3>1. u < uidNext[box]
      BY <2>3 DEF FetchBody, UidsAreFresh, SyncTypeOK
    <3>2. UNCHANGED <<archivedAt, box>> /\ fetched'.uid = u
      BY <2>3 DEF FetchBody, storeVars, rowVars
    <3> QED BY <1>1, <2>1, <3>1, <3>2 DEF UidsAreFresh
  <2>4. CASE WriteBlob
    BY <1>1, <2>1, <2>4 DEF WriteBlob, rowVars, UidsAreFresh
  <2>5. CASE ArchiveOne
    <3>1. fetched.uid < uidNext[box] /\ box \in Mailbox
      BY <2>5 DEF ArchiveOne, UidsAreFresh, SyncTypeOK
    <3>2. archivedAt' = [archivedAt EXCEPT ![box] = @ \cup {fetched.uid}] /\ syncPc' = "bodies"
      BY <2>5 DEF ArchiveOne, SetArchived
    <3>3. \A mb \in Mailbox : \A u \in archivedAt'[mb] :
             u \in archivedAt[mb] \/ (mb = box /\ u = fetched.uid)
      BY <3>2
    <3> QED BY <1>1, <2>1, <3>1, <3>2, <3>3 DEF UidsAreFresh
  <2> QED
    BY <1>3, <2>2, <2>3, <2>4, <2>5
    DEF SyncStep, SyncNext, SyncStart, IndexDone, SyncDone, SelectFails, ResetRefused,
        SelectEmpty, SelectMailbox, FetchMetadata, UpsertMetaBatch, AdvanceCursor, SearchAll,
        MarkMissing, IndexFails, ArchiveSelect, NothingPending, ArchiveOneFails,
        FetchBodiesFails, ArchiveMailboxDone, NextMailbox, storeVars, rowVars
<1>4. CASE Crash
  <2>1. syncPc' = "idle" /\ UNCHANGED <<archivedAt, msgs, uidNext>>
    BY <1>4 DEF Crash, serverVars, storeVars, rowVars
  <2> QED BY <1>1, <2>1 DEF UidsAreFresh
<1>5. CASE UNCHANGED vars
  BY <1>2, <1>5 DEF vars, storeVars, rowVars
<1> QED BY <1>2, <1>3, <1>4, <1>5, OthersLeaveTheArchive DEF Next, rowVars

(* The message under the UID of an archived row is the archived one. *)
LEMMA NamesKept ==
  ASSUME IInv, UidsAreFresh, UidsNameOneMessage, OnlyGrows, [Next]_vars
  PROVE  UidsNameOneMessage'
<1> USE DEF IInv, TypeOK, ServerTypeOK, StoreTypeOK
<1>1. ASSUME UNCHANGED <<archivedAt, blobSha256, syncVars>> PROVE UidsNameOneMessage'
  <2>1. ASSUME NEW mb \in Mailbox, NEW u \in archivedAt'[mb]
        PROVE  msgs'[mb][u] \in {NoBody, blobSha256'[mb][u]}
    <3>1. u \in archivedAt[mb] /\ u \in Uid /\ u < uidNext[mb]
      BY <1>1, <2>1 DEF UidsAreFresh
    <3>2. msgs'[mb][u] \in {NoBody, msgs[mb][u]}
      BY <3>1 DEF OnlyGrows
    <3> QED BY <1>1, <3>1, <3>2 DEF UidsNameOneMessage
  <2>2. ASSUME syncPc' \in {"blob", "row"}
        PROVE  msgs'[box'][fetched'.uid] \in {NoBody, fetched'.raw}
    <3>1. /\ syncPc \in {"blob", "row"} /\ box \in Mailbox
          /\ fetched' = fetched /\ box' = box
          /\ fetched.uid \in Uid /\ fetched.uid < uidNext[box]
      BY <1>1, <2>2 DEF syncVars, ArchiveInv, SyncTypeOK, UidsAreFresh
    <3>2. msgs'[box][fetched.uid] \in {NoBody, msgs[box][fetched.uid]}
      BY <3>1 DEF OnlyGrows
    <3> QED BY <3>1, <3>2 DEF UidsNameOneMessage
  <2> QED BY <2>1, <2>2 DEF UidsNameOneMessage
<1>2. CASE SyncStep
  <2>1. UNCHANGED msgs
    BY <1>2, ServerLeftAlone DEF serverVars
  <2>2. ASSUME UNCHANGED <<archivedAt, blobSha256>>, syncPc' \notin {"blob", "row"}
        PROVE  UidsNameOneMessage'
    BY <2>1, <2>2 DEF UidsNameOneMessage
  <2>3. ASSUME NEW u \in Uid, FetchBody(u) PROVE UidsNameOneMessage'
    BY <2>1, <2>3 DEF FetchBody, storeVars, rowVars, UidsNameOneMessage
  <2>4. CASE WriteBlob
    BY <2>1, <2>4 DEF WriteBlob, rowVars, UidsNameOneMessage
  <2>5. CASE ArchiveOne
    <3>1. /\ box \in Mailbox /\ fetched.uid \in Uid
          /\ msgs[box][fetched.uid] \in {NoBody, fetched.raw}
      BY <2>5 DEF ArchiveOne, UidsNameOneMessage, ArchiveInv, SyncTypeOK
    <3>2. /\ archivedAt' = [archivedAt EXCEPT ![box] = @ \cup {fetched.uid}]
          /\ blobSha256' = [blobSha256 EXCEPT ![box][fetched.uid] = fetched.raw]
          /\ syncPc' = "bodies"
      BY <2>5 DEF ArchiveOne, SetArchived
    <3>3. ASSUME NEW mb \in Mailbox, NEW u \in archivedAt'[mb]
          PROVE  msgs'[mb][u] \in {NoBody, blobSha256'[mb][u]}
      <4>1. CASE mb = box /\ u = fetched.uid
        BY <2>1, <3>1, <3>2, <4>1
      <4>2. CASE ~(mb = box /\ u = fetched.uid)
        BY <2>1, <3>1, <3>2, <3>3, <4>2 DEF UidsNameOneMessage
      <4> QED BY <4>1, <4>2
    <3> QED BY <3>2, <3>3 DEF UidsNameOneMessage
  <2> QED
    BY <1>2, <2>2, <2>3, <2>4, <2>5
    DEF SyncStep, SyncNext, SyncStart, IndexDone, SyncDone, SelectFails, ResetRefused,
        SelectEmpty, SelectMailbox, FetchMetadata, UpsertMetaBatch, AdvanceCursor, SearchAll,
        MarkMissing, IndexFails, ArchiveSelect, NothingPending, ArchiveOneFails,
        FetchBodiesFails, ArchiveMailboxDone, NextMailbox, storeVars, rowVars
<1>3. CASE Crash
  BY <1>3 DEF Crash, serverVars, storeVars, rowVars, UidsNameOneMessage
<1>4. CASE UNCHANGED vars
  BY <1>1, <1>4 DEF vars, storeVars, rowVars
<1> QED BY <1>1, <1>2, <1>3, <1>4, OthersLeaveTheArchive DEF Next, rowVars

(* What a run has picked is archived: ListCandidates admits nothing else, and *)
(* the archive mark stays.                                                    *)
LEMMA PickedKept ==
  ASSUME IInv, PickedIsArchived, [Next]_vars
  PROVE  PickedIsArchived'
<1> USE DEF IInv, TypeOK, PickedIsArchived
<1>1. ASSUME NEW r \in Run, UNCHANGED run
      PROVE  /\ \A mb \in Mailbox : run'[r].picks[mb] \subseteq archivedAt'[mb]
             /\ run'[r].chunk \subseteq archivedAt'[run'[r].box]
             /\ run'[r].left \subseteq run'[r].chunk
             /\ run'[r].pc \in {"list", "mailbox", "chunk"} => run'[r].chunk = {}
  BY <1>1, ArchiveGrows DEF CleanupTypeOK, RunState
<1>2. UNCHANGED run => PickedIsArchived'
  BY <1>1
<1>3. CASE JobStep
  <2> PICK r \in Run, action \in Action : \E target \in TargetsOf(action) : RunJob(r, action, target)
    BY <1>3 DEF JobStep, JobNext
  <2>1. PICK target : run' = [run EXCEPT ![r] = Goroutine(action, target, "list")]
    BY DEF RunJob
  <2>2. UNCHANGED archivedAt
    BY <1>3, OthersLeaveTheArchive DEF rowVars
  <2> QED BY <2>1, <2>2 DEF CleanupTypeOK, Goroutine, NoPicks
<1>4. ASSUME NEW r \in Run, RunStep(r) PROVE PickedIsArchived'
  <2> DEFINE Picked(state) ==
               /\ \A mb \in Mailbox : state.picks[mb] \subseteq archivedAt[mb]
               /\ state.chunk \subseteq archivedAt[state.box]
               /\ state.left \subseteq state.chunk
               /\ state.pc \in {"list", "mailbox", "chunk"} => state.chunk = {}
  <2>1. UNCHANGED archivedAt
    BY <1>4, OthersLeaveTheArchive DEF rowVars
  <2>2. ASSUME NEW state, run' = [run EXCEPT ![r] = state], Picked(state)
        PROVE  PickedIsArchived'
    BY <2>1, <2>2 DEF CleanupTypeOK
  <2>3. Picked(run[r]) /\ run[r] \in RunState
    BY DEF CleanupTypeOK
  <2> HIDE DEF Picked
  <2>4. CASE ListCandidates(r)
    <3>1. PICK listed : run' = [run EXCEPT ![r] =
                [@ EXCEPT !.pc = "mailbox",
                          !.picks = [mb \in Mailbox |-> {u \in listed[mb] : IsSafe(mb, u)}]]]
      BY <2>4 DEF ListCandidates
    <3> DEFINE new == [run[r] EXCEPT !.pc = "mailbox",
                          !.picks = [mb \in Mailbox |-> {u \in listed[mb] : IsSafe(mb, u)}]]
    <3>2. Picked(new)
      <4>1. run[r].chunk = {}
        BY <2>3, <2>4 DEF ListCandidates, Picked
      <4> QED BY <2>3, <4>1 DEF RunState, IsSafe, Picked
    <3> QED BY <2>2, <3>1, <3>2
  <2>5. CASE ListOrOpenFails(r) \/ RunDone(r)
    <3>1. Picked(NoRun)
      BY DEF Picked, NoRun, Goroutine, NoPicks
    <3> QED BY <2>2, <2>5, <3>1 DEF ListOrOpenFails, RunDone
  <2>6. ASSUME NEW mb \in Mailbox, SelectForCleanup(r, mb) PROVE PickedIsArchived'
    <3> DEFINE new == [run[r] EXCEPT !.pc = "chunk", !.box = mb, !.session = uidValidity[mb]]
    <3>1. run' = [run EXCEPT ![r] = new] /\ run[r].pc = "mailbox"
      BY <2>6 DEF SelectForCleanup
    <3>2. Picked(new)
      BY <2>3, <3>1 DEF RunState, Picked
    <3> QED BY <2>2, <3>1, <3>2
  <2>7. ASSUME NEW mb \in Mailbox, SelectForCleanupFails(r, mb) PROVE PickedIsArchived'
    <3> DEFINE new == [run[r] EXCEPT !.picks[mb] = {}]
    <3>1. run' = [run EXCEPT ![r] = new]
      BY <2>7 DEF SelectForCleanupFails
    <3>2. Picked(new)
      BY <2>3 DEF RunState, Picked
    <3> QED BY <2>2, <3>1, <3>2
  <2>8. CASE NextChunk(r)
    <3> DEFINE picked == run[r].picks[run[r].box]
    <3>1. PICK chunk \in SUBSET picked :
            run' = [run EXCEPT ![r] =
                     [@ EXCEPT !.pc = IF run[r].action = "delete" THEN "store" ELSE "move",
                               !.chunk = chunk,
                               !.left = IF run[r].action = "delete" THEN {} ELSE chunk,
                               !.picks[run[r].box] = picked \ chunk]]
      BY <2>8 DEF NextChunk
    <3> DEFINE new == [run[r] EXCEPT
                         !.pc = IF run[r].action = "delete" THEN "store" ELSE "move",
                         !.chunk = chunk,
                         !.left = IF run[r].action = "delete" THEN {} ELSE chunk,
                         !.picks[run[r].box] = picked \ chunk]
    <3>2. /\ new.chunk = chunk /\ new.box = run[r].box
          /\ new.left \subseteq chunk
          /\ new.pc \in {"store", "move"}
          /\ new.picks = [run[r].picks EXCEPT ![run[r].box] = picked \ chunk]
      BY <2>3 DEF RunState
    <3> HIDE DEF new
    <3>3. \A mb \in Mailbox : new.picks[mb] \subseteq run[r].picks[mb]
      BY <2>3, <3>2 DEF RunState
    <3>4. Picked(new)
      BY <2>3, <3>1, <3>2, <3>3 DEF Picked, RunState
    <3> QED BY <2>2, <3>1, <3>4 DEF new
  <2>9. CASE ChunksDone(r)
    <3> DEFINE new == [run[r] EXCEPT !.pc = "mailbox", !.box = AnyMailbox, !.session = 0]
    <3>1. run' = [run EXCEPT ![r] = new] /\ run[r].pc = "chunk"
      BY <2>9 DEF ChunksDone
    <3>2. Picked(new)
      BY <2>3, <3>1 DEF RunState, Picked
    <3> QED BY <2>2, <3>1, <3>2
  <2>10. ASSUME GiveUpChunk(r) PROVE PickedIsArchived'
    <3> DEFINE new == [run[r] EXCEPT !.pc = "chunk", !.chunk = {}, !.left = {}]
    <3>1. run' = [run EXCEPT ![r] = new]
      BY <2>10 DEF GiveUpChunk
    <3>2. Picked(new)
      BY <2>3 DEF RunState, Picked
    <3> QED BY <2>2, <3>1, <3>2
  <2>11. ASSUME NEW pc \in {"expunge", "mark"}, Goto(r, pc) PROVE PickedIsArchived'
    <3> DEFINE new == [run[r] EXCEPT !.pc = pc]
    <3>1. run' = [run EXCEPT ![r] = new]
      BY <2>11 DEF Goto
    <3>2. Picked(new)
      BY <2>3, <2>11 DEF RunState, Picked
    <3> QED BY <2>2, <3>1, <3>2
  <2>12. ASSUME NEW u \in Uid, MoveOne(r, u) \/ CopyOne(r, u) PROVE PickedIsArchived'
    <3> DEFINE new == [run[r] EXCEPT !.left = @ \ {u}]
    <3>1. run' = [run EXCEPT ![r] = new] /\ run[r].pc \in {"move", "copy"}
      BY <2>12 DEF MoveOne, CopyOne
    <3>2. Picked(new)
      BY <2>3, <3>1 DEF RunState, Picked
    <3> QED BY <2>2, <3>1, <3>2
  <2>13. ASSUME NEW pc \in {"mark", "copy", "store"}, NEW left \in SUBSET run[r].chunk,
                run' = [run EXCEPT ![r] = [@ EXCEPT !.pc = pc, !.left = left]]
         PROVE  PickedIsArchived'
    <3> DEFINE new == [run[r] EXCEPT !.pc = pc, !.left = left]
    <3>1. Picked(new)
      BY <2>3, <2>13 DEF RunState, Picked
    <3> QED BY <2>2, <2>13, <3>1
  <2>14. CASE MoveDone(r) \/ MoveFails(r) \/ CopyDone(r)
    <3>1. {} \in SUBSET run[r].chunk /\ run[r].chunk \in SUBSET run[r].chunk
      OBVIOUS
    <3> QED BY <2>13, <2>14, <3>1 DEF MoveDone, MoveFails, CopyDone
  <2> QED
    BY <1>4, <2>4, <2>5, <2>6, <2>7, <2>8, <2>9, <2>10, <2>11, <2>12, <2>14
    DEF RunStep, RunNext, MarkDeletedChunk, ExpungeMailbox, DeleteFails, CopyFails, MarkChunk
<1>5. CASE Crash
  BY <1>5 DEF Crash, NoRun, Goroutine, NoPicks
<1>6. CASE ServerStep \/ SyncStep \/ RestoreStep \/ UNCHANGED vars
  BY <1>2, <1>6 DEF ServerStep, SyncStep, RestoreStep, cleanupVars, vars
<1> QED BY <1>3, <1>4, <1>5, <1>6 DEF Next

(* A text that is in the archive stays there. *)
LEMMA ArchiveKeepsTexts ==
  ASSUME IInv, [Next]_vars
  PROVE  \A b \in Body : InArchive(b) => InArchive(b)'
<1>1. blobs \subseteq blobs'
  <2>1. CASE SyncStep
    BY <2>1
    DEF SyncStep, SyncNext, SyncStart, IndexDone, SyncDone, SelectFails, ResetRefused,
        SelectEmpty, SelectMailbox, FetchMetadata, UpsertMetaBatch, AdvanceCursor, SearchAll,
        MarkMissing, IndexFails, ArchiveSelect, NothingPending, FetchBody, WriteBlob,
        ArchiveOne, ArchiveOneFails, FetchBodiesFails, ArchiveMailboxDone, storeVars
  <2>2. CASE Crash \/ UNCHANGED vars
    BY <2>2 DEF Crash, vars, storeVars
  <2> QED BY <2>1, <2>2, OthersLeaveTheArchive DEF Next
<1>2. ASSUME NEW mb \in Mailbox, NEW u \in archivedAt[mb]
      PROVE  u \in archivedAt'[mb] /\ blobSha256'[mb][u] = blobSha256[mb][u]
  BY ArchiveGrows
<1> QED BY <1>1, <1>2 DEF InArchive

(* The message, if there is one, under the UID of an archived row is archived. *)
LEMMA ArchivedTextIsKept ==
  ASSUME IInv, UidsNameOneMessage, NEW mb \in Mailbox, NEW u \in archivedAt[mb],
         msgs[mb][u] # NoBody
  PROVE  InArchive(msgs[mb][u])
<1>1. msgs[mb][u] = blobSha256[mb][u]
  BY DEF UidsNameOneMessage
<1>2. blobSha256[mb][u] \in blobs
  BY DEF IInv, ArchiveInv, ArchivedHasBlob
<1> QED BY <1>1, <1>2 DEF InArchive

(* What a command does to the flags: flagged messages keep their text, new    *)
(* flags go to messages that are in the archive.                              *)
FlagsCarryTexts ==
    \A mb \in Mailbox : \A u \in flagged'[mb] :
        /\ msgs'[mb][u] \in Body
        /\ InArchive(msgs'[mb][u])

(* The commands of the program do that much, given what they are used on. *)
LEMMA CommandsCarryTexts ==
  ASSUME IInv, UidsAreFresh, UidsNameOneMessage, FlaggedIsArchived, NEW mb \in Mailbox
  PROVE  /\ UNCHANGED <<msgs, flagged>> => FlagsCarryTexts
         /\ \A b \in Body, deleted \in BOOLEAN :
               (deleted => InArchive(b)) /\ AppendMessage(mb, b, deleted) => FlagsCarryTexts
         /\ \A to \in Mailbox, u \in Present(mb) : CopyMessage(mb, u, to) => FlagsCarryTexts
         /\ \A to \in Mailbox, u \in Present(mb) : MoveMessage(mb, u, to) => FlagsCarryTexts
         /\ \A uids \in SUBSET archivedAt[mb] : StoreDeleted(mb, uids) => FlagsCarryTexts
         /\ ExpungeFlagged(mb) => FlagsCarryTexts
         /\ \A u \in Uid : ClientDelete(mb, u) => FlagsCarryTexts
<1> USE ServerAssumption DEF IInv, TypeOK, ServerTypeOK, FlagsCarryTexts
<1>1. ASSUME NEW m \in Mailbox, NEW w \in flagged[m]
      PROVE  /\ w \in Uid /\ w \in Nat /\ w < uidNext[m]
             /\ msgs[m][w] \in Body /\ InArchive(msgs[m][w])
  <2>1. InArchive(msgs[m][w]) /\ w \in Uid
    BY DEF FlaggedIsArchived
  <2>2. msgs[m][w] \in Body
    BY <2>1 DEF InArchive, StoreTypeOK
  <2> QED BY <2>1, <2>2 DEF UidsAreFresh, Present, Uid
<1>2. ASSUME UNCHANGED <<msgs, flagged>> PROVE FlagsCarryTexts
  BY <1>1, <1>2
<1>3. ASSUME NEW to \in Mailbox, NEW b \in Body, CanAppend(to),
             msgs' = [msgs EXCEPT ![to][uidNext[to]] = b],
             flagged' = flagged
                 \/ (InArchive(b) /\ flagged' = [flagged EXCEPT ![to] = @ \cup {uidNext[to]}])
      PROVE  FlagsCarryTexts
  <2> SUFFICES ASSUME NEW m \in Mailbox, NEW w \in flagged'[m]
               PROVE  msgs'[m][w] \in Body /\ InArchive(msgs'[m][w])
    OBVIOUS
  <2>1. uidNext[to] \in Uid
    BY <1>3 DEF CanAppend, Uid
  <2>2. CASE w \in flagged[m]
    <3>1. ~(m = to /\ w = uidNext[to])
      BY <1>1, <2>1, <2>2 DEF Uid
    <3>2. msgs'[m][w] = msgs[m][w]
      BY <1>1, <1>3, <2>1, <2>2, <3>1
    <3> QED BY <1>1, <2>2, <3>2
  <2>3. CASE w \notin flagged[m]
    <3>1. m = to /\ w = uidNext[to] /\ InArchive(b)
      BY <1>3, <2>3
    <3>2. msgs'[m][w] = b
      BY <1>3, <2>1, <3>1
    <3> QED BY <3>1, <3>2
  <2> QED BY <2>2, <2>3
<1>4. ASSUME NEW b \in Body, NEW deleted \in BOOLEAN, deleted => InArchive(b),
             AppendMessage(mb, b, deleted)
      PROVE  FlagsCarryTexts
  <2>1. CASE deleted
    BY <1>3, <1>4, <2>1 DEF AppendMessage
  <2>2. CASE ~deleted
    BY <1>3, <1>4, <2>2 DEF AppendMessage
  <2> QED BY <2>1, <2>2
<1>5. ASSUME NEW to \in Mailbox, NEW u \in Present(mb), CopyMessage(mb, u, to)
      PROVE  FlagsCarryTexts
  <2>1. msgs[mb][u] \in Body
    BY DEF Present
  <2>2. CASE u \in flagged[mb]
    <3>1. InArchive(msgs[mb][u])
      BY <1>1, <2>2
    <3> QED BY <1>3, <1>5, <2>1, <2>2, <3>1 DEF CopyMessage, AppendMessage
  <2>3. CASE u \notin flagged[mb]
    BY <1>3, <1>5, <2>1, <2>3 DEF CopyMessage, AppendMessage
  <2> QED BY <2>2, <2>3
<1>6. ASSUME NEW to \in Mailbox, NEW u \in Present(mb), MoveMessage(mb, u, to)
      PROVE  FlagsCarryTexts
  <2> SUFFICES ASSUME NEW m \in Mailbox, NEW w \in flagged'[m]
               PROVE  msgs'[m][w] \in Body /\ InArchive(msgs'[m][w])
    OBVIOUS
  <2>1. msgs[mb][u] \in Body /\ u \in Uid /\ uidNext[to] \in Uid /\ u < uidNext[mb]
    BY <1>6 DEF MoveMessage, CanAppend, Present, Uid, UidsAreFresh
  <2> DEFINE arrived == [msgs EXCEPT ![to][uidNext[to]] = msgs[mb][u]]
             marked == [flagged EXCEPT ![to] =
                           IF u \in flagged[mb] THEN @ \cup {uidNext[to]} ELSE @]
  <2>2. /\ arrived \in [Mailbox -> [Uid -> Body \cup {NoBody}]]
        /\ arrived[m][w] = IF m = to /\ w = uidNext[to] THEN msgs[mb][u] ELSE msgs[m][w]
    BY <2>1
  <2>3. /\ marked \in [Mailbox -> SUBSET Uid]
        /\ \A x \in marked[m] :
              x \in flagged[m] \/ (m = to /\ x = uidNext[to] /\ u \in flagged[mb])
    BY <2>1
  <2>4. msgs' = [arrived EXCEPT ![mb][u] = NoBody] /\ flagged' = [marked EXCEPT ![mb] = @ \ {u}]
    BY <1>6 DEF MoveMessage
  <2> HIDE DEF arrived, marked
  <2>5. w \in marked[m] /\ ~(m = mb /\ w = u)
    BY <2>3, <2>4
  <2>6. w \in Uid
    BY <2>3, <2>5
  <2>7. msgs'[m][w] = arrived[m][w]
    BY <2>1, <2>2, <2>4, <2>5, <2>6
  <2>8. CASE w \in flagged[m]
    <3>1. ~(m = to /\ w = uidNext[to])
      BY <1>1, <2>1, <2>8 DEF Uid
    <3> QED BY <1>1, <2>2, <2>7, <2>8, <3>1
  <2>9. CASE w \notin flagged[m]
    <3>1. m = to /\ w = uidNext[to] /\ u \in flagged[mb]
      BY <2>3, <2>5, <2>9
    <3> QED BY <1>1, <2>2, <2>7, <3>1
  <2> QED BY <2>8, <2>9
<1>7. ASSUME NEW uids \in SUBSET archivedAt[mb], StoreDeleted(mb, uids) PROVE FlagsCarryTexts
  <2>1. ASSUME NEW m \in Mailbox, NEW w \in flagged'[m], w \notin flagged[m]
        PROVE  m = mb /\ w \in archivedAt[mb] /\ msgs[mb][w] \in Body
    BY <1>7, <2>1 DEF StoreDeleted, Present
  <2>2. \A w \in archivedAt[mb] : msgs[mb][w] \in Body => InArchive(msgs[mb][w])
    BY ArchivedTextIsKept
  <2> QED BY <1>1, <1>7, <2>1, <2>2 DEF StoreDeleted
<1>8. ASSUME ExpungeFlagged(mb) PROVE FlagsCarryTexts
  <2>1. \A m \in Mailbox : \A w \in flagged'[m] : w \in flagged[m] /\ m # mb
    BY <1>8 DEF ExpungeFlagged
  <2>2. \A m \in Mailbox : m # mb => msgs'[m] = msgs[m]
    BY <1>8 DEF ExpungeFlagged
  <2> QED BY <1>1, <2>1, <2>2
<1>9. ASSUME NEW u \in Uid, ClientDelete(mb, u) PROVE FlagsCarryTexts
  <2>1. \A m \in Mailbox : \A w \in flagged'[m] : w \in flagged[m] /\ ~(m = mb /\ w = u)
    BY <1>9 DEF ClientDelete
  <2>2. \A m \in Mailbox, w \in Uid : ~(m = mb /\ w = u) => msgs'[m][w] = msgs[m][w]
    BY <1>9 DEF ClientDelete
  <2> QED BY <1>1, <2>1, <2>2
<1> QED BY <1>2, <1>4, <1>5, <1>6, <1>7, <1>8, <1>9

(* What carries the \Deleted flag is archived: without other clients that set *)
(* it, only runs, copies of such messages and restores of archived ones do.   *)
LEMMA FlaggedKept ==
  ASSUME IInv, UidsAreFresh, UidsNameOneMessage, PickedIsArchived, FlaggedIsArchived,
         "flag" \notin ClientActs, [Next]_vars
  PROVE  FlaggedIsArchived'
<1> DEFINE RestoresText == restore'.pc = "append" => restore'.raw \in Body /\ InArchive(restore'.raw)
<1>1. ASSUME FlagsCarryTexts, RestoresText PROVE FlaggedIsArchived'
  BY <1>1, ArchiveKeepsTexts DEF FlaggedIsArchived, FlagsCarryTexts, InArchive
<1>2. UNCHANGED <<msgs, flagged>> => FlagsCarryTexts
  BY CommandsCarryTexts, AnyMailboxType
<1>3. UNCHANGED restore => RestoresText
  BY DEF FlaggedIsArchived, InArchive, IInv, TypeOK, StoreTypeOK
<1> HIDE DEF RestoresText
<1>4. CASE ServerStep
  <2> PICK mb \in Mailbox :
        \/ \E b \in Body : Deliver(mb, b)
        \/ \E u \in Uid : ClientDelete(mb, u) \/ ClientFlag(mb, u) \/ ClientUnflag(mb, u)
        \/ Recreate(mb)
    BY <1>4 DEF ServerStep, ServerNext
  <2>1. UNCHANGED restore
    BY <1>4 DEF ServerStep, restoreVars
  <2>2. ASSUME NEW b \in Body, Deliver(mb, b) PROVE FlagsCarryTexts
    BY <2>2, CommandsCarryTexts DEF Deliver
  <2>3. ASSUME NEW u \in Uid, ClientDelete(mb, u) PROVE FlagsCarryTexts
    BY <2>3, CommandsCarryTexts
  <2>4. \A u \in Uid : ~ClientFlag(mb, u) /\ ~ClientUnflag(mb, u)
    BY DEF ClientFlag, ClientUnflag
  <2>5. ASSUME Recreate(mb) PROVE FlagsCarryTexts
    <3>1. \A m \in Mailbox : \A w \in flagged'[m] : w \in flagged[m] /\ m # mb /\ msgs'[m] = msgs[m]
      BY <2>5 DEF Recreate, IInv, TypeOK, ServerTypeOK
    <3>2. \A m \in Mailbox : \A w \in flagged[m] : msgs[m][w] \in Body /\ InArchive(msgs[m][w])
      BY DEF FlaggedIsArchived, InArchive, IInv, TypeOK, StoreTypeOK
    <3> QED BY <3>1, <3>2 DEF FlagsCarryTexts
  <2> QED BY <1>1, <1>3, <2>1, <2>2, <2>3, <2>4, <2>5
<1>5. CASE SyncStep \/ JobStep
  BY <1>1, <1>2, <1>3, <1>5, ServerLeftAlone DEF SyncStep, JobStep, restoreVars, serverVars
<1>6. CASE Crash
  <2>1. RestoresText
    BY <1>6 DEF Crash, NoRequest, RestoresText
  <2> QED BY <1>1, <1>2, <1>6, <2>1, ServerLeftAlone DEF serverVars
<1>7. ASSUME NEW r \in Run, RunStep(r) PROVE FlaggedIsArchived'
  <2>1. /\ run[r].box \in Mailbox /\ run[r].target \in Mailbox
        /\ run[r].chunk \in SUBSET archivedAt[run[r].box]
    BY DEF IInv, TypeOK, CleanupTypeOK, RunState, PickedIsArchived
  <2>2. FlagsCarryTexts
    BY <1>2, <1>7, <2>1, RunCommands, CommandsCarryTexts DEF RunStep, serverVars
  <2> QED BY <1>1, <1>3, <1>7, <2>2 DEF RunStep, restoreVars
<1>8. CASE RestoreStep
  <2>1. ASSUME NEW mb \in Mailbox, NEW u \in Uid, RestoreRequest(mb, u) PROVE FlaggedIsArchived'
    <3>1. /\ u \in archivedAt[mb] /\ blobSha256[mb][u] \in blobs
          /\ restore'.raw = blobSha256[mb][u]
      BY <2>1 DEF RestoreRequest, RestoreTargets
    <3>2. RestoresText
      BY <3>1 DEF RestoresText, InArchive, IInv, TypeOK, StoreTypeOK
    <3>3. UNCHANGED <<msgs, flagged>>
      BY <2>1 DEF RestoreRequest, serverVars
    <3> QED BY <1>1, <1>2, <3>2, <3>3
  <2>2. CASE RestoreAppend
    <3>1. /\ restore.box \in Mailbox /\ restore.deleted \in BOOLEAN
          /\ restore.raw \in Body /\ InArchive(restore.raw)
      BY <2>2 DEF RestoreAppend, FlaggedIsArchived, InArchive, IInv, TypeOK, RestoreTypeOK,
                  StoreTypeOK
    <3>2. FlagsCarryTexts
      BY <2>2, <3>1, CommandsCarryTexts DEF RestoreAppend
    <3>3. RestoresText
      BY <2>2 DEF RestoreAppend, NoRequest, RestoresText, IInv, TypeOK, RestoreTypeOK
    <3> QED BY <1>1, <3>2, <3>3
  <2>3. CASE RestoreFails \/ RestoreMark
    <3>1. RestoresText
      BY <2>3 DEF RestoreFails, RestoreMark, NoRequest, RestoresText
    <3>2. UNCHANGED <<msgs, flagged>>
      BY <2>3 DEF RestoreFails, RestoreMark, serverVars
    <3> QED BY <1>1, <1>2, <3>1, <3>2
  <2> QED BY <1>8, <2>1, <2>2, <2>3 DEF RestoreStep, RestoreNext
<1>9. CASE UNCHANGED vars
  BY <1>1, <1>2, <1>3, <1>9 DEF vars, serverVars, restoreVars
<1> QED BY <1>4, <1>5, <1>6, <1>7, <1>8, <1>9 DEF Next

(* The inductive invariant of the golden rule. *)
LEMMA GoldenInvariant ==
  ASSUME MaxValidity = 1, "flag" \notin ClientActs
  PROVE  Spec => [](IInv /\ GoldenInv)
<1>1. Init => GoldenInv
  BY DEF Init, ServerInit, StoreInit, SyncInit, CleanupInit, RestoreInit, NoRun, Goroutine,
         NoPicks, NoRequest, GoldenInv, UidsAreFresh, UidsNameOneMessage, PickedIsArchived,
         FlaggedIsArchived, Present
<1>2. IInv /\ GoldenInv /\ [Next]_vars => GoldenInv'
  BY StepsOnlyGrow, FreshKept, NamesKept, PickedKept, FlaggedKept DEF GoldenInv
<1> QED BY InitIInv, NextIInv, <1>1, <1>2, PTL DEF Spec

(* The text of what a step of a run takes away is archived: EXPUNGE takes what *)
(* carries the flag, MOVE what was picked, COPY uses a UID that was unused.    *)
LEMMA TakenIsArchived ==
  ASSUME IInv, GoldenInv, NEW r \in Run, RunNext(r),
         NEW mb \in Mailbox, NEW u \in Present(mb), msgs'[mb][u] # msgs[mb][u]
  PROVE  InArchive(msgs[mb][u])
<1> USE DEF IInv, TypeOK, ServerTypeOK, GoldenInv
<1>1. /\ run[r].box \in Mailbox /\ run[r].target \in Mailbox
      /\ run[r].left \subseteq archivedAt[run[r].box]
  BY DEF CleanupTypeOK, RunState, PickedIsArchived
<1>2. u \in Uid /\ u < uidNext[mb] /\ msgs[mb][u] \in Body /\ msgs[mb][u] # NoBody
  BY DEF Present, UidsAreFresh
<1>3. CASE StoreDeleted(run[r].box, run[r].chunk)
  BY <1>3 DEF StoreDeleted
<1>4. CASE ExpungeFlagged(run[r].box)
  <2>1. u \in flagged[mb]
    BY <1>1, <1>2, <1>4 DEF ExpungeFlagged
  <2> QED BY <2>1 DEF FlaggedIsArchived
<1>5. ASSUME NEW w, CopyMessage(run[r].box, w, run[r].target) PROVE FALSE
  <2>1. msgs' = [msgs EXCEPT ![run[r].target][uidNext[run[r].target]] = msgs[run[r].box][w]]
    BY <1>5 DEF CopyMessage, AppendMessage
  <2>2. CASE mb = run[r].target
    BY <1>1, <1>2, <2>1, <2>2
  <2>3. CASE mb # run[r].target
    BY <1>1, <2>1, <2>3
  <2> QED BY <2>2, <2>3
<1>6. ASSUME NEW w \in run[r].left \cap Present(run[r].box),
             MoveMessage(run[r].box, w, run[r].target)
      PROVE  mb = run[r].box /\ u = w
  <2> DEFINE to == run[r].target
             arrived == [msgs EXCEPT ![to][uidNext[to]] = msgs[run[r].box][w]]
  <2>1. arrived[mb][u] = msgs[mb][u] /\ arrived \in [Mailbox -> [Uid -> Body \cup {NoBody}]]
    <3>1. uidNext[to] \in Uid /\ msgs[run[r].box][w] \in Body
      <4>1. to \in Mailbox /\ uidNext[to] <= MaxUid
        BY <1>1, <1>6 DEF MoveMessage, CanAppend
      <4>2. uidNext[to] \in Uid
        BY <4>1, ServerAssumption DEF Uid
      <4>3. msgs[run[r].box][w] \in Body
        BY <1>1 DEF Present
      <4> QED BY <4>2, <4>3
    <3> QED BY <1>1, <1>2, <3>1
  <2>2. msgs' = [arrived EXCEPT ![run[r].box][w] = NoBody]
    BY <1>6 DEF MoveMessage
  <2> HIDE DEF arrived
  <2> QED BY <1>1, <1>2, <2>1, <2>2
<1>7. \A w \in run[r].left : mb = run[r].box /\ u = w => InArchive(msgs[mb][u])
  BY <1>1, <1>2, ArchivedTextIsKept
<1> QED BY <1>1, <1>3, <1>4, <1>5, <1>6, <1>7, RunCommands DEF serverVars

(* The golden rule itself: the text of what a step of a cleanup run takes off *)
(* the server is in a blob, and the row of an archived message names it.      *)
THEOREM GoldenRuleHolds ==
  ASSUME MaxValidity = 1, "flag" \notin ClientActs
  PROVE  Spec => GoldenRule
<1> DEFINE Rule == run' # run =>
             \A mb \in Mailbox, u \in Uid :
                 u \in Present(mb) /\ msgs'[mb][u] # msgs[mb][u] => InArchive(msgs[mb][u])
<1>1. ASSUME IInv, GoldenInv, [Next]_vars PROVE [Rule]_vars
  <2> SUFFICES ASSUME run' # run, NEW mb \in Mailbox, NEW u \in Present(mb),
                      msgs'[mb][u] # msgs[mb][u]
               PROVE  InArchive(msgs[mb][u])
    OBVIOUS
  <2>1. CASE \E r \in Run : RunStep(r)
    BY <1>1, <2>1, TakenIsArchived DEF RunStep
  <2>2. CASE SyncStep \/ JobStep \/ Crash
    BY <2>2, ServerLeftAlone DEF serverVars
  <2>3. CASE ServerStep \/ RestoreStep \/ UNCHANGED vars
    BY <2>3 DEF ServerStep, RestoreStep, vars, cleanupVars
  <2> QED BY <1>1, <2>1, <2>2, <2>3 DEF Next
<1> QED BY GoldenInvariant, <1>1, PTL DEF Spec, GoldenRule

(* What a step of a run flags is archived: the chunk of a STORE, and the      *)
(* picked messages that MOVE or COPY takes along with the flag they have.     *)
LEMMA NewFlagsAreArchived ==
  ASSUME IInv, UidsAreFresh, UidsNameOneMessage, PickedIsArchived, NEW r \in Run, RunNext(r),
         NEW mb \in Mailbox, NEW u \in flagged'[mb], u \notin flagged[mb]
  PROVE  InArchive(msgs'[mb][u])
<1> USE DEF IInv, TypeOK, ServerTypeOK
<1>1. /\ run[r].box \in Mailbox /\ run[r].target \in Mailbox
      /\ run[r].chunk \subseteq archivedAt[run[r].box]
      /\ run[r].left \subseteq archivedAt[run[r].box]
  BY DEF CleanupTypeOK, RunState, PickedIsArchived
<1>2. \A w \in archivedAt[run[r].box] :
         msgs[run[r].box][w] # NoBody => InArchive(msgs[run[r].box][w])
  BY <1>1, ArchivedTextIsKept
<1>3. CASE StoreDeleted(run[r].box, run[r].chunk)
  <2>1. mb = run[r].box /\ u \in run[r].chunk \cap Present(mb) /\ msgs' = msgs
    BY <1>1, <1>3 DEF StoreDeleted
  <2> QED BY <1>1, <1>2, <2>1 DEF Present
<1>4. ~ExpungeFlagged(run[r].box)
  BY <1>1 DEF ExpungeFlagged
<1>5. ASSUME NEW w \in run[r].left \cap Present(run[r].box),
             CopyMessage(run[r].box, w, run[r].target)
      PROVE  InArchive(msgs'[mb][u])
  <2>1. mb = run[r].target /\ u = uidNext[mb]
    BY <1>1, <1>5 DEF CopyMessage, AppendMessage
  <2>2. /\ msgs' = [msgs EXCEPT ![mb][uidNext[mb]] = msgs[run[r].box][w]]
        /\ uidNext[mb] \in Uid
    BY <1>5, <2>1, ServerAssumption DEF CopyMessage, AppendMessage, CanAppend, Uid
  <2>3. msgs'[mb][u] = msgs[run[r].box][w]
    BY <2>1, <2>2
  <2> QED BY <1>1, <1>2, <2>3 DEF Present
<1>6. ASSUME NEW w \in run[r].left \cap Present(run[r].box),
             MoveMessage(run[r].box, w, run[r].target)
      PROVE  InArchive(msgs'[mb][u])
  <2> DEFINE from == run[r].box
             to == run[r].target
             arrived == [msgs EXCEPT ![to][uidNext[to]] = msgs[from][w]]
             marked == [flagged EXCEPT ![to] =
                           IF w \in flagged[from] THEN @ \cup {uidNext[to]} ELSE @]
  <2>1. w \in Uid /\ msgs[from][w] \in Body /\ w < uidNext[from] /\ uidNext[to] \in Uid
    <3>1. w \in Uid /\ msgs[from][w] \in Body /\ w < uidNext[from]
      BY <1>1 DEF Present, UidsAreFresh
    <3>2. CanAppend(to)
      BY <1>6 DEF MoveMessage
    <3>3. uidNext[to] \in Uid
      BY <1>1, <3>2, ServerAssumption DEF CanAppend, Uid
    <3> QED BY <3>1, <3>3
  <2>2. /\ arrived \in [Mailbox -> [Uid -> Body \cup {NoBody}]]
        /\ arrived[to][uidNext[to]] = msgs[from][w]
    BY <1>1, <2>1
  <2>3. /\ marked \in [Mailbox -> SUBSET Uid]
        /\ \A x \in marked[mb] : x \in flagged[mb] \/ (mb = to /\ x = uidNext[to])
    BY <1>1, <2>1
  <2>4. /\ msgs' = [arrived EXCEPT ![from][w] = NoBody]
        /\ flagged' = [marked EXCEPT ![from] = @ \ {w}]
    BY <1>6 DEF MoveMessage
  <2> HIDE DEF arrived, marked
  <2>5. u \in marked[mb] /\ ~(mb = from /\ u = w)
    BY <1>1, <2>3, <2>4
  <2>6. mb = to /\ u = uidNext[to]
    BY <2>3, <2>5
  <2>7. msgs'[mb][u] = msgs[from][w]
    BY <1>1, <2>1, <2>2, <2>4, <2>5, <2>6
  <2> QED BY <1>1, <1>2, <2>7 DEF Present
<1> QED BY <1>1, <1>3, <1>4, <1>5, <1>6, RunCommands DEF serverVars

(* A cleanup run flags archived messages only, also when other clients flag   *)
(* in the same mailbox: this needs no assumption about them.                  *)
THEOREM FlagsOnlyArchivedHolds ==
  ASSUME MaxValidity = 1
  PROVE  Spec => FlagsOnlyArchived
<1> DEFINE Inv == IInv /\ UidsAreFresh /\ UidsNameOneMessage /\ PickedIsArchived
           Rule == run' # run =>
             \A mb \in Mailbox : \A u \in flagged'[mb] \ flagged[mb] : InArchive(msgs'[mb][u])
<1>1. Init => Inv
  BY InitIInv
  DEF Init, ServerInit, StoreInit, SyncInit, CleanupInit, NoRun, Goroutine, NoPicks,
      UidsAreFresh, UidsNameOneMessage, PickedIsArchived, Present
<1>2. Inv /\ [Next]_vars => Inv'
  BY NextIInv, StepsOnlyGrow, FreshKept, NamesKept, PickedKept
<1>3. ASSUME Inv, [Next]_vars PROVE [Rule]_vars
  <2> SUFFICES ASSUME run' # run, NEW mb \in Mailbox, NEW u \in flagged'[mb] \ flagged[mb]
               PROVE  InArchive(msgs'[mb][u])
    OBVIOUS
  <2>1. CASE \E r \in Run : RunStep(r)
    BY <1>3, <2>1, NewFlagsAreArchived DEF RunStep
  <2>2. CASE SyncStep \/ JobStep \/ Crash
    BY <2>2, ServerLeftAlone DEF serverVars
  <2>3. CASE ServerStep \/ RestoreStep \/ UNCHANGED vars
    BY <2>3 DEF ServerStep, RestoreStep, vars, cleanupVars
  <2> QED BY <1>3, <2>1, <2>2, <2>3 DEF Next
<1> QED BY <1>1, <1>2, <1>3, PTL DEF Spec, FlagsOnlyArchived

=============================================================================
