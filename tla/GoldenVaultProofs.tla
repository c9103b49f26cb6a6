------------------------- MODULE GoldenVaultProofs -------------------------
(***************************************************************************)
(* The composition implements GoldenVault: as long as UIDVALIDITY does not *)
(* change and no other client deletes or flags, a text leaves the server   *)
(* only when it is in the archive.  A text may be on the server several    *)
(* times: COPY and MOVE leave the texts as they are, and what FETCH        *)
(* brought may be gone when its row is written, but then it is archived.   *)
(*                                                                         *)
(* The last section is about moves: whatever fails and however many runs,  *)
(* restores and crashes interleave, a move takes no text off the server.   *)
(***************************************************************************)
EXTENDS IndexProofs

(* The text b is in some mailbox, under some UID. *)
OnServer(b) == \E mb \in Mailbox, u \in Uid : msgs[mb][u] = b

(* What archiveOne works on is on the server or, taken by a run that found it *)
(* under another UID, in the archive.                                         *)
FetchedIsSomewhere ==
    syncPc \in {"blob", "row"} => OnServer(fetched.raw) \/ InArchive(fetched.raw)

(* A step that brings one text at most. *)
TextArrives == \E b \in Body : \A c \in Body : OnServer(c)' <=> OnServer(c) \/ c = b

(* A step that takes only texts that are archived. *)
TextsAreFreed ==
    \A c \in Body : /\ OnServer(c)' => OnServer(c)
                    /\ OnServer(c) => OnServer(c)' \/ InArchive(c)

-----------------------------------------------------------------------------
(* A new message takes a UID under which there was none. *)
LEMMA AppendBringsText ==
  ASSUME ServerTypeOK, UidsAreFresh, NEW mb \in Mailbox, NEW b \in Body, CanAppend(mb),
         msgs' = [msgs EXCEPT ![mb][uidNext[mb]] = b]
  PROVE  \A c \in Body : OnServer(c)' <=> OnServer(c) \/ c = b
<1> USE ServerAssumption DEF ServerTypeOK, OnServer
<1>1. uidNext[mb] \in Uid
  BY DEF CanAppend, Uid
<1>2. msgs[mb][uidNext[mb]] = NoBody
  BY <1>1 DEF UidsAreFresh, Present
<1>3. \A m \in Mailbox, u \in Uid :
         msgs'[m][u] = IF m = mb /\ u = uidNext[mb] THEN b ELSE msgs[m][u]
  BY <1>1
<1>4. ASSUME NEW c \in Body, OnServer(c) PROVE OnServer(c)'
  <2>1. PICK m \in Mailbox, u \in Uid : msgs[m][u] = c
    BY <1>4
  <2>2. msgs'[m][u] = c
    BY <1>2, <1>3, <2>1
  <2> QED BY <2>2
<1>5. OnServer(b)'
  BY <1>1, <1>3
<1>6. ASSUME NEW c \in Body, OnServer(c)' PROVE OnServer(c) \/ c = b
  BY <1>3, <1>6
<1> QED BY <1>4, <1>5, <1>6

(* MOVE puts the message under a new UID, with its flag, and takes the old one. *)
LEMMA MoveEffect ==
  ASSUME ServerTypeOK, UidsAreFresh, NEW mb \in Mailbox, NEW to \in Mailbox,
         NEW u \in Present(mb), MoveMessage(mb, u, to)
  PROVE  /\ u \in Uid /\ msgs[mb][u] \in Body
         /\ uidNext[to] \in Uid /\ msgs[to][uidNext[to]] = NoBody
         /\ ~(to = mb /\ uidNext[to] = u)
         /\ \A m \in Mailbox, w \in Uid :
               msgs'[m][w] = IF m = mb /\ w = u THEN NoBody
                             ELSE IF m = to /\ w = uidNext[to] THEN msgs[mb][u]
                             ELSE msgs[m][w]
         /\ \A m \in Mailbox, w \in Uid :
               w \in flagged'[m] => \/ w \in flagged[m]
                                    \/ m = to /\ w = uidNext[to] /\ u \in flagged[mb]
<1> USE ServerAssumption DEF ServerTypeOK
<1> DEFINE arrived == [msgs EXCEPT ![to][uidNext[to]] = msgs[mb][u]]
           marked == [flagged EXCEPT ![to] =
                         IF u \in flagged[mb] THEN @ \cup {uidNext[to]} ELSE @]
<1>1. u \in Uid /\ msgs[mb][u] \in Body /\ u < uidNext[mb]
  BY DEF UidsAreFresh, Present
<1>2. uidNext[to] \in Uid
  BY DEF MoveMessage, CanAppend, Uid
<1>3. msgs[to][uidNext[to]] = NoBody
  BY <1>2 DEF UidsAreFresh, Present
<1>4. /\ arrived \in [Mailbox -> [Uid -> Body \cup {NoBody}]]
      /\ \A m \in Mailbox, w \in Uid :
            arrived[m][w] = IF m = to /\ w = uidNext[to] THEN msgs[mb][u] ELSE msgs[m][w]
  BY <1>1, <1>2
<1>5. /\ marked \in [Mailbox -> SUBSET Uid]
      /\ \A m \in Mailbox, w \in Uid :
            w \in marked[m] => \/ w \in flagged[m]
                               \/ m = to /\ w = uidNext[to] /\ u \in flagged[mb]
  BY <1>2
<1>6. /\ msgs' = [arrived EXCEPT ![mb][u] = NoBody]
      /\ flagged' = [marked EXCEPT ![mb] = @ \ {u}]
  BY DEF MoveMessage
<1> HIDE DEF arrived, marked
<1>7. \A m \in Mailbox, w \in Uid :
         msgs'[m][w] = IF m = mb /\ w = u THEN NoBody ELSE arrived[m][w]
  BY <1>1, <1>4, <1>6
<1>8. \A m \in Mailbox : flagged'[m] \subseteq marked[m]
  BY <1>5, <1>6
<1>9. ~(to = mb /\ uidNext[to] = u)
  BY <1>1, <1>3
<1> QED BY <1>1, <1>2, <1>3, <1>4, <1>5, <1>7, <1>8, <1>9

(* MOVE takes a message from one mailbox and has it in the other. *)
LEMMA MoveKeepsTexts ==
  ASSUME ServerTypeOK, UidsAreFresh, NEW mb \in Mailbox, NEW to \in Mailbox,
         NEW u \in Present(mb), MoveMessage(mb, u, to)
  PROVE  \A c \in Body : OnServer(c)' <=> OnServer(c)
<1> USE ServerAssumption DEF OnServer
<1> DEFINE new == uidNext[to]
<1>1. /\ u \in Uid /\ msgs[mb][u] \in Body
      /\ new \in Uid /\ msgs[to][new] = NoBody /\ ~(to = mb /\ new = u)
      /\ \A m \in Mailbox, w \in Uid :
            msgs'[m][w] = IF m = mb /\ w = u THEN NoBody
                          ELSE IF m = to /\ w = new THEN msgs[mb][u] ELSE msgs[m][w]
  BY MoveEffect
<1> HIDE DEF new
<1>2. ASSUME NEW c \in Body, OnServer(c) PROVE OnServer(c)'
  <2>1. PICK m \in Mailbox, w \in Uid : msgs[m][w] = c
    BY <1>2
  <2>2. CASE m = mb /\ w = u
    <3>1. msgs'[to][new] = c
      BY <1>1, <2>1, <2>2
    <3> QED BY <1>1, <3>1
  <2>3. CASE ~(m = mb /\ w = u)
    <3>1. msgs'[m][w] = c
      BY <1>1, <2>1, <2>3
    <3> QED BY <3>1
  <2> QED BY <2>2, <2>3
<1>3. ASSUME NEW c \in Body, OnServer(c)' PROVE OnServer(c)
  <2>1. PICK m \in Mailbox, w \in Uid : msgs'[m][w] = c
    BY <1>3
  <2>2. c \in {msgs[mb][u], msgs[m][w]}
    BY <1>1, <2>1
  <2> QED BY <1>1, <2>2
<1> QED BY <1>2, <1>3

(* EXPUNGE takes what carries the flag. *)
LEMMA ExpungeFreesArchived ==
  ASSUME ServerTypeOK, FlaggedIsArchived, NEW mb \in Mailbox, ExpungeFlagged(mb)
  PROVE  TextsAreFreed
<1> USE ServerAssumption DEF ServerTypeOK, OnServer
<1>1. \A m \in Mailbox, w \in Uid :
         msgs'[m][w] = IF m = mb /\ w \in flagged[mb] THEN NoBody ELSE msgs[m][w]
  BY DEF ExpungeFlagged
<1>2. ASSUME NEW c \in Body, OnServer(c)' PROVE OnServer(c)
  BY <1>1, <1>2
<1>3. ASSUME NEW c \in Body, OnServer(c) PROVE OnServer(c)' \/ InArchive(c)
  <2>1. PICK m \in Mailbox, w \in Uid : msgs[m][w] = c
    BY <1>3
  <2>2. CASE m = mb /\ w \in flagged[mb]
    BY <2>1, <2>2 DEF FlaggedIsArchived
  <2>3. CASE ~(m = mb /\ w \in flagged[mb])
    BY <1>1, <2>1, <2>3
  <2> QED BY <2>2, <2>3
<1> QED BY <1>2, <1>3 DEF TextsAreFreed

(* What a step does to the texts on the server, and that it leaves the        *)
(* archive alone when it does anything.                                       *)
LEMMA StepMovesTexts ==
  ASSUME IInv, GoldenInv, MaxValidity = 1, ClientActs = {}, [Next]_vars
  PROVE  \/ UNCHANGED msgs
         \/ UNCHANGED <<rowVars, blobs>> /\ (TextArrives \/ TextsAreFreed)
<1> USE DEF IInv, TypeOK, GoldenInv
<1>1. CASE ServerStep
  <2> PICK mb \in Mailbox :
        \/ \E b \in Body : Deliver(mb, b)
        \/ \E u \in Uid : ClientDelete(mb, u) \/ ClientFlag(mb, u) \/ ClientUnflag(mb, u)
        \/ Recreate(mb)
    BY <1>1 DEF ServerStep, ServerNext
  <2>1. ~Recreate(mb)
    BY ServerAssumption DEF Recreate, ServerTypeOK
  <2>2. \A u \in Uid : ~ClientDelete(mb, u) /\ ~ClientFlag(mb, u) /\ ~ClientUnflag(mb, u)
    BY DEF ClientDelete, ClientFlag, ClientUnflag
  <2>3. ASSUME NEW b \in Body, Deliver(mb, b) PROVE TextArrives
    <3>1. CanAppend(mb) /\ msgs' = [msgs EXCEPT ![mb][uidNext[mb]] = b]
      BY <2>3 DEF Deliver, AppendMessage
    <3> QED BY <3>1, AppendBringsText DEF TextArrives
  <2> QED BY <1>1, <2>1, <2>2, <2>3, OthersLeaveTheArchive
<1>2. CASE SyncStep \/ JobStep \/ Crash
  BY <1>2, ServerLeftAlone DEF serverVars
<1>3. ASSUME NEW r \in Run, RunStep(r), ~UNCHANGED msgs
      PROVE  UNCHANGED <<rowVars, blobs>> /\ (TextArrives \/ TextsAreFreed)
  <2>1. run[r].box \in Mailbox /\ run[r].target \in Mailbox
    BY DEF CleanupTypeOK, RunState
  <2>2. ASSUME ExpungeFlagged(run[r].box) PROVE TextsAreFreed
    BY <2>1, <2>2, ExpungeFreesArchived
  <2>3. ASSUME NEW u \in Present(run[r].box), MoveMessage(run[r].box, u, run[r].target)
        PROVE  TextsAreFreed
    BY <2>1, <2>3, MoveKeepsTexts DEF TextsAreFreed
  <2>4. ASSUME NEW u \in Present(run[r].box), CopyMessage(run[r].box, u, run[r].target)
        PROVE  TextArrives
    <3> DEFINE to == run[r].target
               b == msgs[run[r].box][u]
    <3>1. CanAppend(to) /\ msgs' = [msgs EXCEPT ![to][uidNext[to]] = b]
      BY <2>4 DEF CopyMessage, AppendMessage
    <3>2. b \in Body
      BY <2>1 DEF Present, ServerTypeOK
    <3> QED BY <2>1, <3>1, <3>2, AppendBringsText DEF TextArrives
  <2>5. ~StoreDeleted(run[r].box, run[r].chunk)
    BY <1>3 DEF StoreDeleted
  <2> QED
    BY <1>3, <2>2, <2>3, <2>4, <2>5, RunCommands, OthersLeaveTheArchive DEF RunStep, serverVars
<1>4. CASE RestoreStep
  <2>1. CASE RestoreAppend
    <3>1. /\ restore.box \in Mailbox /\ restore.raw \in Body /\ CanAppend(restore.box)
          /\ msgs' = [msgs EXCEPT ![restore.box][uidNext[restore.box]] = restore.raw]
      BY <2>1 DEF RestoreAppend, AppendMessage, RestoreTypeOK, ArchiveInv, StoreTypeOK
    <3>2. TextArrives
      BY <3>1, AppendBringsText DEF TextArrives
    <3> QED BY <1>4, <3>2, OthersLeaveTheArchive
  <2>2. CASE ~RestoreAppend
    BY <1>4, <2>2
    DEF RestoreStep, RestoreNext, RestoreRequest, RestoreFails, RestoreMark, serverVars
  <2> QED BY <2>1, <2>2
<1>5. CASE UNCHANGED vars
  BY <1>5 DEF vars, serverVars
<1> QED BY <1>1, <1>2, <1>3, <1>4, <1>5 DEF Next

(* What was fetched stays on the server or in the archive. *)
LEMMA FetchedKept ==
  ASSUME IInv, GoldenInv, FetchedIsSomewhere, MaxValidity = 1, ClientActs = {}, [Next]_vars
  PROVE  FetchedIsSomewhere'
<1>1. \A b \in Body : OnServer(b) \/ InArchive(b) => OnServer(b)' \/ InArchive(b)'
  BY StepMovesTexts, ArchiveKeepsTexts DEF TextArrives, TextsAreFreed, OnServer
<1>2. SUFFICES ASSUME syncPc' \in {"blob", "row"}, NEW c \in Body, c = fetched'.raw
               PROVE  OnServer(c)' \/ InArchive(c)'
  <2>1. syncPc' \in {"blob", "row"} => fetched'.raw \in Body
    BY NextIInv DEF IInv, ArchiveInv
  <2> QED BY <2>1 DEF FetchedIsSomewhere, OnServer, InArchive
<1>3. CASE syncPc \in {"blob", "row"} /\ fetched' = fetched
  BY <1>1, <1>2, <1>3 DEF FetchedIsSomewhere
<1>4. UNCHANGED syncVars \/ WriteBlob => syncPc \in {"blob", "row"} /\ fetched' = fetched
  BY <1>2 DEF syncVars, WriteBlob
<1>5. ASSUME NEW u \in Uid, FetchBody(u), SyncStep PROVE OnServer(c)
  BY <1>2, <1>5 DEF FetchBody, OnServer, IInv, TypeOK, SyncTypeOK
<1> QED BY <1>1, <1>3, <1>4, <1>5, <1>2, ArchivePhases

(* The archive gains a text when archiveOne sets the checksum, and no other.  *)
LEMMA ArchiveGainsText ==
  ASSUME IInv, [Next]_vars, NEW c \in Body, InArchive(c)', ~InArchive(c)
  PROVE  ArchiveOne /\ SyncStep /\ c = fetched.raw
<1> USE DEF IInv, TypeOK, StoreTypeOK, SyncTypeOK
<1>1. PICK mb \in Mailbox : \E u \in archivedAt'[mb] : blobSha256'[mb][u] = c
  BY DEF InArchive
<1>2. PICK u \in archivedAt'[mb] : blobSha256'[mb][u] = c
  BY <1>1
<1>3. ~(u \in archivedAt[mb] /\ blobSha256[mb][u] = c)
  BY DEF InArchive, ArchiveInv, ArchivedHasBlob
<1>4. ArchiveOne /\ SyncStep
  BY <1>2, <1>3, RowWriters
<1>5. fetched.uid \in Uid
  BY <1>4 DEF ArchiveOne, ArchiveInv
<1>6. u = fetched.uid /\ mb = box
  BY <1>2, <1>3, <1>4, <1>5 DEF ArchiveOne, SetArchived
<1>7. blobSha256'[mb][u] = fetched.raw
  BY <1>4, <1>5, <1>6 DEF ArchiveOne, SetArchived
<1> QED BY <1>2, <1>4, <1>7

-----------------------------------------------------------------------------
(* The refinement. *)

(* The variables of GoldenVault, as sets of texts. *)
LEMMA MappedVariables ==
  ASSUME ServerTypeOK, StoreTypeOK
  PROVE  /\ UNION {{msgs[mb][u] : u \in Present(mb)} : mb \in Mailbox} = {c \in Body : OnServer(c)}
         /\ {b \in blobs : InArchive(b)} = {c \in Body : InArchive(c)}
<1> USE ServerAssumption DEF ServerTypeOK, StoreTypeOK
<1>1. ASSUME NEW c
      PROVE  c \in UNION {{msgs[mb][u] : u \in Present(mb)} : mb \in Mailbox}
                <=> c \in Body /\ OnServer(c)
  BY DEF Present, OnServer
<1> QED BY <1>1 DEF InArchive

(* The same of the two sets after a step. *)
LEMMA MappedVariablesNext ==
  ASSUME IInv, [Next]_vars
  PROVE  /\ UNION {{msgs'[mb][u] : u \in {w \in Uid : msgs'[mb][w] # NoBody}} : mb \in Mailbox}
              = {c \in Body : OnServer(c)'}
         /\ {b \in blobs' : InArchive(b)'} = {c \in Body : InArchive(c)'}
<1>1. /\ msgs' \in [Mailbox -> [Uid -> Body \cup {NoBody}]] /\ blobs' \in SUBSET Body
      /\ NoBody \notin Body
  BY NextIInv, ServerAssumption DEF IInv, TypeOK, ServerTypeOK, StoreTypeOK
<1>2. ASSUME NEW c
      PROVE  c \in UNION {{msgs'[mb][u] : u \in {w \in Uid : msgs'[mb][w] # NoBody}} : mb \in Mailbox}
                <=> c \in Body /\ \E mb \in Mailbox, u \in Uid : msgs'[mb][u] = c
  BY <1>1
<1> QED BY <1>1, <1>2 DEF InArchive, OnServer

(* A delivery and a restore are arrivals, archiveOne keeps a text, EXPUNGE    *)
(* frees some; COPY, MOVE and everything else are stutters.                   *)
LEMMA StepIsGoldenStep ==
  ASSUME IInv, GoldenInv, FetchedIsSomewhere, MaxValidity = 1, ClientActs = {}, [Next]_vars
  PROVE  [Golden!GoldenNext]_(Golden!goldenVars)
<1> DEFINE server == {c \in Body : OnServer(c)}
           serverNext == {c \in Body : OnServer(c)'}
           archive == {c \in Body : InArchive(c)}
           archiveNext == {c \in Body : InArchive(c)'}
<1>1. /\ UNION {{msgs[mb][u] : u \in Present(mb)} : mb \in Mailbox} = server
      /\ {b \in blobs : InArchive(b)} = archive
      /\ (UNION {{msgs[mb][u] : u \in Present(mb)} : mb \in Mailbox})' = serverNext
      /\ {b \in blobs : InArchive(b)}' = archiveNext
  BY MappedVariables, MappedVariablesNext DEF Present, IInv, TypeOK
<1>2. ASSUME \/ serverNext = server /\ archiveNext = archive
             \/ \E b \in Body : serverNext = server \cup {b} /\ archiveNext = archive
             \/ \E b \in server : archiveNext = archive \cup {b} /\ serverNext = server
             \/ archiveNext = archive /\ serverNext \subseteq server
                                      /\ server \ serverNext \subseteq archive
      PROVE  [Golden!GoldenNext]_(Golden!goldenVars)
  BY <1>1, <1>2
  DEF Golden!GoldenNext, Golden!goldenVars, Golden!Arrive, Golden!Keep, Golden!Free
<1>3. archive \subseteq archiveNext
  BY ArchiveKeepsTexts
<1>4. CASE UNCHANGED <<rowVars, blobs>> /\ (TextArrives \/ TextsAreFreed)
  <2>1. archiveNext = archive
    BY <1>4 DEF InArchive, rowVars
  <2>2. CASE TextArrives
    <3>1. PICK b \in Body : \A c \in Body : OnServer(c)' <=> OnServer(c) \/ c = b
      BY <2>2 DEF TextArrives
    <3>2. serverNext = server \cup {b}
      BY <3>1
    <3> QED BY <1>2, <2>1, <3>2
  <2>3. CASE TextsAreFreed
    <3>1. serverNext \subseteq server /\ server \ serverNext \subseteq archive
      BY <2>3 DEF TextsAreFreed
    <3> QED BY <1>2, <2>1, <3>1
  <2> QED BY <1>4, <2>2, <2>3
<1>5. CASE UNCHANGED msgs
  <2>1. serverNext = server
    BY <1>5 DEF OnServer
  <2>2. CASE archiveNext = archive
    BY <1>2, <2>1, <2>2
  <2>3. CASE archiveNext # archive
    <3>1. PICK c \in Body : InArchive(c)' /\ ~InArchive(c)
      BY <1>3, <2>3
    <3>2. ArchiveOne /\ c = fetched.raw
      BY <3>1, ArchiveGainsText
    <3>3. \A d \in archiveNext \ archive : d = fetched.raw
      BY ArchiveGainsText
    <3>4. archiveNext = archive \cup {c}
      BY <1>3, <3>1, <3>2, <3>3
    <3>5. c \in server
      BY <3>1, <3>2 DEF FetchedIsSomewhere, ArchiveOne
    <3> QED BY <1>2, <2>1, <3>4, <3>5
  <2> QED BY <2>2, <2>3
<1> QED BY <1>4, <1>5, StepMovesTexts

(* Everything there is, taken together, keeps the golden rule as GoldenVault  *)
(* states it: also across runs, crashes and moves in several steps.           *)
THEOREM CompositionIsGoldenVault ==
  ASSUME MaxValidity = 1, ClientActs = {}
  PROVE  Spec => ImplementsGoldenVault
<1>1. Init => FetchedIsSomewhere /\ Golden!GoldenInit
  BY DEF Init, ServerInit, StoreInit, SyncInit, FetchedIsSomewhere, Golden!GoldenInit, Present
<1>2. IInv /\ GoldenInv /\ FetchedIsSomewhere /\ [Next]_vars
      => FetchedIsSomewhere' /\ [Golden!GoldenNext]_(Golden!goldenVars)
  BY FetchedKept, StepIsGoldenStep
<1>3. "flag" \notin ClientActs
  OBVIOUS
<1> QED
  BY GoldenInvariant, <1>1, <1>2, <1>3, PTL DEF Spec, ImplementsGoldenVault, Golden!GoldenSpec

-----------------------------------------------------------------------------
(* A move keeps the message, as long as nothing but moves takes messages off *)
(* the server: no other client, and no run that deletes.                     *)

(* A run in this state will flag and expunge message u of mb: it is about to *)
(* STORE its chunk, or has copied u and goes on to STORE when all is copied. *)
Endangers(state, mb, u) ==
    /\ state.box = mb /\ u \in state.chunk
    /\ \/ state.pc = "store"
       \/ state.pc = "copy" /\ u \notin state.left

(* A text has a message that no EXPUNGE takes, not even one to come. *)
Safe(b) ==
    \E mb \in Mailbox, u \in Uid :
        /\ msgs[mb][u] = b /\ u \notin flagged[mb]
        /\ \A r \in Run : ~Endangers(run[r], mb, u)

(* The texts that were on the server once. *)
Known(b) ==
    \/ OnServer(b)
    \/ b \in blobs
    \/ syncPc \in {"blob", "row"} /\ fetched.raw = b

(* What was on the server once still is, and will be. *)
TextsAreSafe == \A b \in Body : Known(b) => Safe(b)

(* The runs at work are moves. *)
OnlyMoves == \A r \in Run : run[r].pc # "none" => run[r].action = "move"

(* No run has deleted yet: none does, or the only one moves or did not start. *)
Spared ==
    \/ "delete" \notin Action
    \/ \E r \in Run : run[r].action = "move"
    \/ \A r \in Run : runStatus[r] = "none"

(* The inductive invariant of moves. *)
MoveInv == Spared => TextsAreSafe /\ OnlyMoves

(* A step of a run endangers a message only when it has copied it.            *)
LEMMA RunEndangers ==
  ASSUME CleanupTypeOK, NEW r \in Run, RunNext(r), run[r].action = "move",
         NEW mb \in Mailbox, NEW u \in Present(mb), Endangers(run'[r], mb, u)
  PROVE  Endangers(run[r], mb, u) \/ (CopyOne(r, u) /\ run[r].box = mb)
<1> USE DEF CleanupTypeOK, RunState
<1>1. run'[r].pc \in {"store", "copy"}
  BY DEF Endangers
<1>2. GiveUpChunk(r) => run'[r].pc = "chunk"
  BY DEF GiveUpChunk
<1>3. ASSUME NEW pc, Goto(r, pc) PROVE run'[r].pc = pc
  BY <1>3 DEF Goto
<1>4. ~(MarkDeletedChunk(r) \/ ExpungeMailbox(r) \/ DeleteFails(r) \/ CopyFails(r) \/ MarkChunk(r))
  BY <1>1, <1>2, <1>3
  DEF MarkDeletedChunk, ExpungeMailbox, DeleteFails, CopyFails, MarkChunk
<1>5. ~(ListOrOpenFails(r) \/ ChunksDone(r) \/ RunDone(r) \/ NextChunk(r))
  <2>1. ~(ListOrOpenFails(r) \/ RunDone(r))
    BY <1>1 DEF ListOrOpenFails, RunDone, NoRun, Goroutine
  <2>2. ~ChunksDone(r)
    BY <1>1 DEF ChunksDone
  <2>3. NextChunk(r) => run'[r].pc = "move"
    BY DEF NextChunk
  <2> QED BY <1>1, <2>1, <2>2, <2>3
<1>6. /\ ~ListCandidates(r)
      /\ \A m \in Mailbox : ~SelectForCleanup(r, m) /\ ~SelectForCleanupFails(r, m)
  <2>1. ~ListCandidates(r)
    BY <1>1 DEF ListCandidates
  <2>2. ASSUME NEW m \in Mailbox, SelectForCleanup(r, m) PROVE FALSE
    <3>1. run'[r].pc = "chunk"
      BY <2>2 DEF SelectForCleanup
    <3> QED BY <1>1, <3>1
  <2>3. ASSUME NEW m \in Mailbox, SelectForCleanupFails(r, m) PROVE FALSE
    <3>1. run'[r].pc = run[r].pc /\ run[r].pc = "mailbox"
      BY <2>3 DEF SelectForCleanupFails
    <3> QED BY <1>1, <3>1
  <2> QED BY <2>1, <2>2, <2>3
<1>7. ASSUME NEW w \in Uid, MoveOne(r, w) PROVE FALSE
  BY <1>1, <1>7 DEF MoveOne
<1>8. ~(MoveDone(r) \/ MoveFails(r))
  <2>1. ~MoveDone(r)
    BY <1>1 DEF MoveDone
  <2>2. ASSUME MoveFails(r) PROVE FALSE
    <3>1. run'[r].pc = "copy" /\ run'[r].left = run'[r].chunk
      BY <2>2 DEF MoveFails
    <3> QED BY <3>1 DEF Endangers
  <2> QED BY <2>1, <2>2
<1>9. CASE CopyDone(r)
  BY <1>9 DEF CopyDone, Endangers, Present
<1>10. ASSUME NEW w \in Uid, CopyOne(r, w)
       PROVE  Endangers(run[r], mb, u) \/ (CopyOne(r, u) /\ run[r].box = mb)
  <2>1. /\ run'[r].box = run[r].box /\ run'[r].chunk = run[r].chunk
        /\ run'[r].left = run[r].left \ {w} /\ run[r].pc = "copy"
    BY <1>10 DEF CopyOne
  <2>2. /\ run[r].box = mb /\ u \in run[r].chunk
        /\ run'[r].pc = "copy" /\ u \notin run[r].left \ {w}
    BY <1>10, <2>1 DEF Endangers, CopyOne
  <2>3. CASE u = w
    BY <1>10, <2>2, <2>3
  <2>4. CASE u # w
    BY <2>1, <2>2, <2>4 DEF Endangers
  <2> QED BY <2>3, <2>4
<1> QED BY <1>4, <1>5, <1>6, <1>7, <1>8, <1>9, <1>10 DEF RunNext

(* So does any step. *)
LEMMA EndangeredByCopy ==
  ASSUME IInv, OnlyMoves, [Next]_vars, NEW r \in Run,
         NEW mb \in Mailbox, NEW u \in Present(mb), Endangers(run'[r], mb, u)
  PROVE  \/ Endangers(run[r], mb, u)
         \/ RunStep(r) /\ CopyOne(r, u) /\ run[r].box = mb
<1>1. run'[r].pc \in {"store", "copy"}
  BY DEF Endangers
<1>2. CASE run'[r] = run[r]
  BY <1>2
<1>3. CASE RunStep(r)
  <2>1. RunNext(r)
    BY <1>3 DEF RunStep
  <2>2. run[r].pc # "none"
    BY <2>1
    DEF RunNext, ListCandidates, ListOrOpenFails, SelectForCleanup, SelectForCleanupFails,
        NextChunk, ChunksDone, RunDone, MarkDeletedChunk, ExpungeMailbox, DeleteFails,
        MoveOne, CopyOne, MoveDone, MoveFails, CopyDone, CopyFails, MarkChunk
  <2> QED BY <1>3, <2>1, <2>2, RunEndangers DEF OnlyMoves, IInv, TypeOK
<1> QED BY <1>1, <1>2, <1>3, OneRunMoves

(* A message that arrives is in nobody's chunk: chunks hold UIDs of rows. *)
LEMMA ArrivedIsSafe ==
  ASSUME IInv, GoldenInv, [Next]_vars, MaxValidity = 1, "flag" \notin ClientActs,
         UNCHANGED rowVars, NEW to \in Mailbox, CanAppend(to), NEW b \in Body,
         msgs'[to][uidNext[to]] = b, uidNext[to] \notin flagged'[to]
  PROVE  Safe(b)'
<1>1. PICK new \in Uid : new = uidNext[to]
  BY ServerAssumption DEF CanAppend, Uid, IInv, TypeOK, ServerTypeOK
<1>2. PickedIsArchived' /\ archivedAt' = archivedAt
  BY PickedKept DEF GoldenInv, rowVars
<1>3. new \notin archivedAt[to]
  BY <1>1 DEF GoldenInv, UidsAreFresh, Uid
<1>4. ASSUME NEW r \in Run, Endangers(run'[r], to, new) PROVE FALSE
  <2>1. run'[r].box = to /\ new \in run'[r].chunk
    BY <1>4 DEF Endangers
  <2>2. run'[r].chunk \subseteq archivedAt'[run'[r].box]
    BY <1>2 DEF PickedIsArchived
  <2> QED BY <1>2, <1>3, <2>1, <2>2
<1>5. msgs'[to][new] = b /\ new \notin flagged'[to]
  BY <1>1
<1>6. \A r \in Run : ~Endangers(run[r], to, new)'
  BY <1>4 DEF Endangers
<1> QED BY <1>1, <1>5, <1>6 DEF Safe

(* A new message leaves the others as they are. *)
LEMMA AppendLeaves ==
  ASSUME ServerTypeOK, UidsAreFresh, NEW to \in Mailbox, NEW b \in Body, NEW deleted,
         AppendMessage(to, b, deleted), NEW mb \in Mailbox, NEW u \in Present(mb)
  PROVE  /\ CanAppend(to) /\ msgs'[to][uidNext[to]] = b
         /\ msgs'[mb][u] = msgs[mb][u]
         /\ u \notin flagged[mb] => u \notin flagged'[mb]
<1> USE ServerAssumption DEF ServerTypeOK
<1>1. /\ CanAppend(to) /\ msgs' = [msgs EXCEPT ![to][uidNext[to]] = b]
      /\ flagged' = [flagged EXCEPT ![to] = IF deleted THEN @ \cup {uidNext[to]} ELSE @]
  BY DEF AppendMessage
<1>2. uidNext[to] \in Uid
  BY <1>1 DEF CanAppend, Uid
<1>3. u \in Uid /\ ~(mb = to /\ u = uidNext[to])
  BY DEF UidsAreFresh, Present, Uid
<1>4. msgs'[to][uidNext[to]] = b /\ msgs'[mb][u] = msgs[mb][u]
  BY <1>1, <1>2, <1>3
<1>5. u \notin flagged[mb] => u \notin flagged'[mb]
  BY <1>1, <1>3
<1> QED BY <1>1, <1>4, <1>5

(* What becomes of a message that no run flags: it stays, or MOVE takes it.  *)
LEMMA UnflaggedStays ==
  ASSUME IInv, GoldenInv, MaxValidity = 1, ClientActs = {}, [Next]_vars,
         NEW mb \in Mailbox, NEW u \in Present(mb), u \notin flagged[mb],
         \A r \in Run : ~Endangers(run[r], mb, u)
  PROVE  \/ msgs'[mb][u] = msgs[mb][u] /\ u \notin flagged'[mb]
         \/ \E r \in Run : RunStep(r) /\ MoveMessage(mb, u, run[r].target)
<1> USE DEF IInv, TypeOK, GoldenInv
<1> DEFINE stays == msgs'[mb][u] = msgs[mb][u] /\ u \notin flagged'[mb]
<1>1. UNCHANGED serverVars => stays
  BY DEF serverVars
<1>2. CASE ServerStep
  <2> PICK m \in Mailbox :
        \/ \E b \in Body : Deliver(m, b)
        \/ \E w \in Uid : ClientDelete(m, w) \/ ClientFlag(m, w) \/ ClientUnflag(m, w)
        \/ Recreate(m)
    BY <1>2 DEF ServerStep, ServerNext
  <2>1. ~Recreate(m)
    BY ServerAssumption DEF Recreate, ServerTypeOK
  <2>2. \A w \in Uid : ~ClientDelete(m, w) /\ ~ClientFlag(m, w) /\ ~ClientUnflag(m, w)
    BY DEF ClientDelete, ClientFlag, ClientUnflag
  <2>3. PICK b \in Body : AppendMessage(m, b, FALSE)
    BY <2>1, <2>2 DEF Deliver
  <2> QED BY <2>3, AppendLeaves
<1>3. CASE SyncStep \/ JobStep \/ Crash
  BY <1>1, <1>3, ServerLeftAlone
<1>4. ASSUME NEW r \in Run, RunStep(r)
      PROVE  stays \/ MoveMessage(mb, u, run[r].target)
  <2>1. run[r].box \in Mailbox /\ run[r].target \in Mailbox /\ run[r].chunk \in SUBSET Uid
    BY DEF CleanupTypeOK, RunState
  <2>2. ASSUME run[r].pc = "store", StoreDeleted(run[r].box, run[r].chunk) PROVE stays
    <3>1. ~(run[r].box = mb /\ u \in run[r].chunk)
      BY <2>2 DEF Endangers
    <3> QED BY <2>1, <2>2, <3>1 DEF StoreDeleted, ServerTypeOK
  <2>3. ASSUME ExpungeFlagged(run[r].box) PROVE stays
    BY <2>1, <2>3 DEF ExpungeFlagged, ServerTypeOK, Present
  <2>4. ASSUME NEW w \in Present(run[r].box), CopyMessage(run[r].box, w, run[r].target)
        PROVE  stays
    <3>1. msgs[run[r].box][w] \in Body
      BY <2>1 DEF Present, ServerTypeOK
    <3> QED BY <2>1, <2>4, <3>1, AppendLeaves DEF CopyMessage
  <2>5. ASSUME NEW w \in Present(run[r].box), MoveMessage(run[r].box, w, run[r].target)
        PROVE  stays \/ MoveMessage(mb, u, run[r].target)
    <3> DEFINE from == run[r].box
               to == run[r].target
               new == uidNext[to]
    <3>1. /\ msgs[to][new] = NoBody
          /\ \A m \in Mailbox, x \in Uid :
                msgs'[m][x] = IF m = from /\ x = w THEN NoBody
                              ELSE IF m = to /\ x = new THEN msgs[from][w] ELSE msgs[m][x]
          /\ \A m \in Mailbox, x \in Uid :
                x \in flagged'[m] => \/ x \in flagged[m]
                                     \/ m = to /\ x = new /\ w \in flagged[from]
      BY <2>1, <2>5, MoveEffect
    <3>2. u \in Uid /\ msgs[mb][u] # NoBody
      BY DEF Present
    <3> HIDE DEF from, to, new
    <3>3. ~(mb = to /\ u = new)
      BY <3>1, <3>2
    <3>4. CASE ~(mb = from /\ u = w)
      BY <3>1, <3>2, <3>3, <3>4
    <3>5. CASE mb = from /\ u = w
      BY <2>5, <3>5 DEF from
    <3> QED BY <3>4, <3>5
  <2> QED BY <1>1, <1>4, <2>2, <2>3, <2>4, <2>5, RunCommands DEF RunStep
<1>5. CASE RestoreStep
  <2>1. CASE RestoreAppend
    BY <2>1, AppendLeaves DEF RestoreAppend, RestoreTypeOK, ArchiveInv, StoreTypeOK
  <2>2. CASE ~RestoreAppend
    BY <1>1, <1>5, <2>2 DEF RestoreStep, RestoreNext, RestoreRequest, RestoreFails, RestoreMark
  <2> QED BY <2>1, <2>2
<1>6. CASE UNCHANGED vars
  BY <1>1, <1>6 DEF vars
<1> QED BY <1>2, <1>3, <1>4, <1>5, <1>6 DEF Next

(* Where only moves take messages off the server, a safe text stays safe:    *)
(* what MOVE takes, and what COPY endangers, is safe under a new UID.         *)
LEMMA SafeKept ==
  ASSUME IInv, GoldenInv, OnlyMoves, MaxValidity = 1, ClientActs = {}, [Next]_vars,
         NEW b \in Body, Safe(b)
  PROVE  Safe(b)'
<1>1. PICK mb \in Mailbox, u \in Uid :
        /\ msgs[mb][u] = b /\ u \notin flagged[mb]
        /\ \A r \in Run : ~Endangers(run[r], mb, u)
  BY DEF Safe
<1>2. u \in Present(mb)
  BY <1>1, ServerAssumption DEF Present
<1>3. \A r \in Run : run[r].box \in Mailbox /\ run[r].target \in Mailbox
  BY DEF IInv, TypeOK, CleanupTypeOK, RunState
<1>4. ServerTypeOK /\ UidsAreFresh /\ "flag" \notin ClientActs
  BY DEF IInv, TypeOK, GoldenInv
<1>5. ASSUME NEW r \in Run, RunStep(r), MoveMessage(mb, u, run[r].target)
      PROVE  Safe(b)'
  <2> DEFINE to == run[r].target
  <2>1. /\ uidNext[to] \in Uid /\ msgs[to][uidNext[to]] = NoBody
        /\ ~(to = mb /\ uidNext[to] = u)
        /\ \A m \in Mailbox, w \in Uid :
              msgs'[m][w] = IF m = mb /\ w = u THEN NoBody
                            ELSE IF m = to /\ w = uidNext[to] THEN msgs[mb][u] ELSE msgs[m][w]
        /\ \A m \in Mailbox, w \in Uid :
              w \in flagged'[m] => \/ w \in flagged[m]
                                   \/ m = to /\ w = uidNext[to] /\ u \in flagged[mb]
    BY <1>2, <1>3, <1>4, <1>5, MoveEffect
  <2>2. uidNext[to] \notin flagged[to]
    BY <1>3, <2>1, ServerAssumption
    DEF GoldenInv, FlaggedIsArchived, InArchive, IInv, TypeOK, StoreTypeOK
  <2>3. msgs'[to][uidNext[to]] = b /\ uidNext[to] \notin flagged'[to]
    BY <1>1, <1>3, <2>1, <2>2
  <2>4. CanAppend(to) /\ UNCHANGED rowVars
    BY <1>5, OthersLeaveTheArchive DEF MoveMessage
  <2> QED BY <1>3, <1>4, <2>3, <2>4, ArrivedIsSafe
<1>6. ASSUME NEW r \in Run, RunStep(r), CopyOne(r, u), run[r].box = mb
      PROVE  Safe(b)'
  <2> DEFINE to == run[r].target
  <2>1. /\ CanAppend(to) /\ msgs' = [msgs EXCEPT ![to][uidNext[to]] = b]
        /\ flagged' = [flagged EXCEPT ![to] =
                          IF u \in flagged[mb] THEN @ \cup {uidNext[to]} ELSE @]
    BY <1>1, <1>6 DEF CopyOne, CopyMessage, AppendMessage
  <2>2. msgs'[to][uidNext[to]] = b /\ flagged' = flagged
    <3>1. uidNext[to] \in Uid
      BY <1>3, <1>4, <2>1, ServerAssumption DEF CanAppend, ServerTypeOK, Uid
    <3> QED BY <1>1, <1>3, <1>4, <2>1, <3>1 DEF ServerTypeOK
  <2>3. uidNext[to] \notin flagged[to]
    <3>1. uidNext[to] \notin Present(to)
      BY <1>3, <1>4 DEF UidsAreFresh, ServerTypeOK
    <3> QED BY <1>3, <3>1, ServerAssumption
        DEF GoldenInv, FlaggedIsArchived, InArchive, IInv, TypeOK, StoreTypeOK, ServerTypeOK, Present
  <2>4. UNCHANGED rowVars
    BY <1>6, OthersLeaveTheArchive
  <2> QED BY <1>3, <1>4, <2>1, <2>2, <2>3, <2>4, ArrivedIsSafe
<1>7. ASSUME msgs'[mb][u] = msgs[mb][u], u \notin flagged'[mb],
             \A r \in Run : ~Endangers(run'[r], mb, u)
      PROVE  Safe(b)'
  BY <1>1, <1>7 DEF Safe, Endangers
<1>8. CASE \E r \in Run : RunStep(r) /\ MoveMessage(mb, u, run[r].target)
  BY <1>5, <1>8
<1>9. CASE msgs'[mb][u] = msgs[mb][u] /\ u \notin flagged'[mb]
  BY <1>1, <1>2, <1>6, <1>7, <1>9, EndangeredByCopy
<1> QED BY <1>1, <1>2, <1>8, <1>9, UnflaggedStays

(* A text that was not on the server before comes by a delivery: COPY and    *)
(* MOVE, FETCH, the blob store and restores have no others.                   *)
LEMMA KnownBefore ==
  ASSUME IInv, GoldenInv, MaxValidity = 1, ClientActs = {}, [Next]_vars,
         NEW b \in Body, Known(b)'
  PROVE  Known(b) \/ (ServerStep /\ \E mb \in Mailbox : Deliver(mb, b))
<1> USE DEF IInv, TypeOK, GoldenInv
<1>1. CASE OnServer(b)'
  <2>1. UNCHANGED serverVars => Known(b)
    BY <1>1 DEF serverVars, OnServer, Known
  <2>2. CASE ServerStep
    <3> PICK mb \in Mailbox :
          \/ \E c \in Body : Deliver(mb, c)
          \/ \E u \in Uid : ClientDelete(mb, u) \/ ClientFlag(mb, u) \/ ClientUnflag(mb, u)
          \/ Recreate(mb)
      BY <2>2 DEF ServerStep, ServerNext
    <3>1. ~Recreate(mb)
      BY ServerAssumption DEF Recreate, ServerTypeOK
    <3>2. \A u \in Uid : ~ClientDelete(mb, u) /\ ~ClientFlag(mb, u) /\ ~ClientUnflag(mb, u)
      BY DEF ClientDelete, ClientFlag, ClientUnflag
    <3>3. PICK c \in Body : Deliver(mb, c)
      BY <3>1, <3>2
    <3>4. CanAppend(mb) /\ msgs' = [msgs EXCEPT ![mb][uidNext[mb]] = c]
      BY <3>3 DEF Deliver, AppendMessage
    <3>5. OnServer(b) \/ b = c
      BY <1>1, <3>4, AppendBringsText
    <3> QED BY <2>2, <3>3, <3>5 DEF Known
  <2>3. CASE SyncStep \/ JobStep \/ Crash
    BY <2>1, <2>3, ServerLeftAlone
  <2>4. ASSUME NEW r \in Run, RunStep(r) PROVE Known(b)
    <3>1. run[r].box \in Mailbox /\ run[r].target \in Mailbox
      BY DEF CleanupTypeOK, RunState
    <3>2. ASSUME NEW u \in Present(run[r].box), CopyMessage(run[r].box, u, run[r].target)
          PROVE  OnServer(b)
      <4> DEFINE c == msgs[run[r].box][u]
      <4>1. CanAppend(run[r].target)
            /\ msgs' = [msgs EXCEPT ![run[r].target][uidNext[run[r].target]] = c]
        BY <3>2 DEF CopyMessage, AppendMessage
      <4>2. c \in Body /\ OnServer(c)
        BY <3>1 DEF Present, ServerTypeOK, OnServer
      <4>3. OnServer(b) \/ b = c
        BY <1>1, <3>1, <4>1, <4>2, AppendBringsText
      <4> QED BY <4>2, <4>3
    <3>3. ASSUME NEW u \in Present(run[r].box), MoveMessage(run[r].box, u, run[r].target)
          PROVE  OnServer(b)
      BY <1>1, <3>1, <3>3, MoveKeepsTexts
    <3>4. ExpungeFlagged(run[r].box) => OnServer(b)
      BY <1>1, <3>1, ExpungeFreesArchived DEF TextsAreFreed
    <3>5. StoreDeleted(run[r].box, run[r].chunk) => OnServer(b)
      BY <1>1 DEF StoreDeleted, OnServer
    <3> QED BY <2>1, <2>4, <3>2, <3>3, <3>4, <3>5, RunCommands DEF RunStep, Known
  <2>5. CASE RestoreStep
    <3>1. CASE RestoreAppend
      <4>1. /\ restore.box \in Mailbox /\ restore.raw \in blobs /\ restore.raw \in Body
            /\ CanAppend(restore.box)
            /\ msgs' = [msgs EXCEPT ![restore.box][uidNext[restore.box]] = restore.raw]
        BY <3>1 DEF RestoreAppend, AppendMessage, RestoreTypeOK, ArchiveInv, StoreTypeOK
      <4>2. OnServer(b) \/ b = restore.raw
        BY <1>1, <4>1, AppendBringsText
      <4> QED BY <4>1, <4>2 DEF Known
    <3>2. CASE ~RestoreAppend
      BY <2>1, <2>5, <3>2 DEF RestoreStep, RestoreNext, RestoreRequest, RestoreFails, RestoreMark
    <3> QED BY <3>1, <3>2
  <2>6. CASE UNCHANGED vars
    BY <2>1, <2>6 DEF vars
  <2> QED BY <2>2, <2>3, <2>4, <2>5, <2>6 DEF Next
<1>2. CASE b \in blobs' /\ b \notin blobs
  <2>1. ~(Crash \/ UNCHANGED vars)
    BY <1>2 DEF Crash, vars, storeVars
  <2>2. SyncStep
    BY <1>2, <2>1, OthersLeaveTheArchive DEF Next
  <2>3. WriteBlob
    BY <1>2, <2>2
    DEF SyncStep, SyncNext, SyncStart, IndexDone, SyncDone, SelectFails, ResetRefused,
        SelectEmpty, SelectMailbox, FetchMetadata, UpsertMetaBatch, AdvanceCursor, SearchAll,
        MarkMissing, IndexFails, ArchiveSelect, NothingPending, FetchBody,
        ArchiveOne, ArchiveOneFails, FetchBodiesFails, ArchiveMailboxDone, storeVars
  <2> QED BY <1>2, <2>3 DEF WriteBlob, Known
<1>3. CASE syncPc' \in {"blob", "row"} /\ fetched'.raw = b
  <2>1. CASE UNCHANGED syncVars \/ WriteBlob
    BY <1>3, <2>1 DEF syncVars, WriteBlob, Known
  <2>2. ASSUME NEW u \in Uid, FetchBody(u) PROVE Known(b)
    BY <1>3, <2>2 DEF FetchBody, SyncTypeOK, Known, OnServer
  <2> QED BY <1>3, <2>1, <2>2, ArchivePhases
<1> QED BY <1>1, <1>2, <1>3 DEF Known

(* A run that works on goes on with the action of its job. *)
LEMMA RunKeepsAction ==
  ASSUME CleanupTypeOK, NEW r \in Run, RunNext(r)
  PROVE  \/ run'[r] = NoRun
         \/ run'[r].action = run[r].action /\ run[r].pc # "none"
<1> USE DEF CleanupTypeOK, RunState
<1>1. CASE ListCandidates(r)
  BY <1>1 DEF ListCandidates
<1>2. CASE ListOrOpenFails(r) \/ RunDone(r)
  BY <1>2 DEF ListOrOpenFails, RunDone
<1>3. ASSUME NEW mb \in Mailbox, SelectForCleanup(r, mb)
      PROVE  run'[r].action = run[r].action /\ run[r].pc # "none"
  BY <1>3 DEF SelectForCleanup
<1>4. ASSUME NEW mb \in Mailbox, SelectForCleanupFails(r, mb)
      PROVE  run'[r].action = run[r].action /\ run[r].pc # "none"
  BY <1>4 DEF SelectForCleanupFails
<1>5. CASE NextChunk(r)
  BY <1>5 DEF NextChunk
<1>6. CASE ChunksDone(r)
  BY <1>6 DEF ChunksDone
<1>7. GiveUpChunk(r) => run'[r].action = run[r].action
  BY DEF GiveUpChunk
<1>8. \A pc : Goto(r, pc) => run'[r].action = run[r].action
  BY DEF Goto
<1>9. CASE MarkDeletedChunk(r) \/ ExpungeMailbox(r) \/ DeleteFails(r)
  BY <1>7, <1>8, <1>9 DEF MarkDeletedChunk, ExpungeMailbox, DeleteFails
<1>10. ASSUME NEW u \in Uid, MoveOne(r, u) \/ CopyOne(r, u)
       PROVE  run'[r].action = run[r].action /\ run[r].pc # "none"
  BY <1>10 DEF MoveOne, CopyOne
<1>11. CASE MoveDone(r) \/ CopyDone(r)
  BY <1>11 DEF MoveDone, CopyDone
<1>12. CASE MoveFails(r)
  BY <1>12 DEF MoveFails
<1>13. CASE CopyFails(r) \/ MarkChunk(r)
  BY <1>7, <1>13 DEF CopyFails, MarkChunk
<1> QED
  BY <1>1, <1>2, <1>3, <1>4, <1>5, <1>6, <1>9, <1>10, <1>11, <1>12, <1>13 DEF RunNext

(* What a step does to the life of a run. *)
LEMMA RunLives ==
  ASSUME IInv, [Next]_vars, NEW r \in Run
  PROVE  /\ \/ run'[r] = run[r]
            \/ run'[r] = NoRun
            \/ run'[r].action = run[r].action /\ run[r].pc # "none"
            \/ /\ runStatus[r] = "none" /\ runStatus'[r] = "running"
               /\ run'[r].action \in Action
         /\ runStatus'[r] = "none" => runStatus[r] = "none"
<1> USE DEF IInv, TypeOK, CleanupTypeOK
<1>1. ASSUME NEW q \in Run, RunStep(q)
      PROVE  /\ q = r \/ run'[r] = run[r]
             /\ runStatus'[r] = "none" => runStatus[r] = "none"
  BY <1>1
  DEF RunStep, RunNext, ListCandidates, ListOrOpenFails, SelectForCleanup,
      SelectForCleanupFails, NextChunk, ChunksDone, RunDone, MarkDeletedChunk,
      ExpungeMailbox, DeleteFails, MoveOne, CopyOne, MoveDone, MoveFails, CopyDone,
      CopyFails, MarkChunk, Goto, GiveUpChunk
<1>2. RunStep(r) => run'[r] = NoRun \/ (run'[r].action = run[r].action /\ run[r].pc # "none")
  BY RunKeepsAction DEF RunStep
<1>3. ASSUME JobStep
      PROVE  /\ \/ run'[r] = run[r]
                \/ /\ runStatus[r] = "none" /\ runStatus'[r] = "running"
                   /\ run'[r].action \in Action
             /\ runStatus'[r] = "none" => runStatus[r] = "none"
  <2>1. PICK q \in Run, action \in Action : \E target \in TargetsOf(action) : RunJob(q, action, target)
    BY <1>3 DEF JobStep, JobNext
  <2>2. PICK target : RunJob(q, action, target)
    BY <2>1
  <2>3. CASE q = r
    BY <2>2, <2>3 DEF RunJob, Goroutine
  <2>4. CASE q # r
    BY <2>2, <2>4 DEF RunJob
  <2> QED BY <2>3, <2>4
<1>4. CASE Crash
  BY <1>4 DEF Crash
<1>5. CASE ServerStep \/ SyncStep \/ RestoreStep \/ UNCHANGED vars
  BY <1>5 DEF ServerStep, SyncStep, RestoreStep, vars, cleanupVars
<1> QED BY <1>1, <1>2, <1>3, <1>4, <1>5 DEF Next

(* As long as messages are spared, the runs at work move. *)
LEMMA MovesStay ==
  ASSUME IInv, [Next]_vars, "delete" \notin Action \/ \E r \in Run : Run = {r},
         Spared', Spared => OnlyMoves
  PROVE  Spared /\ OnlyMoves'
<1>1. Action \subseteq {"delete", "move"} /\ NoRun.pc = "none" /\ NoRun.action = "delete"
  BY CleanupAssumption DEF NoRun, Goroutine
<1>2. CASE "delete" \notin Action
  <2>1. Spared /\ OnlyMoves
    BY <1>2 DEF Spared
  <2>2. ASSUME NEW r \in Run, run'[r].pc # "none" PROVE run'[r].action = "move"
    BY <1>1, <1>2, <2>1, <2>2, RunLives DEF OnlyMoves
  <2> QED BY <2>1, <2>2 DEF OnlyMoves
<1>3. CASE "delete" \in Action
  <2>1. PICK r \in Run : Run = {r}
    BY <1>3
  <2>2. run'[r].action = "move" \/ runStatus'[r] = "none"
    BY <1>3, <2>1 DEF Spared
  <2>3. run[r].action = "move" \/ runStatus[r] = "none"
    BY <1>1, <2>2, RunLives
  <2>4. Spared /\ OnlyMoves
    BY <2>1, <2>3 DEF Spared
  <2>5. run'[r].pc # "none" => run'[r].action = "move"
    BY <1>1, <2>2, <2>4, RunLives DEF OnlyMoves
  <2> QED BY <2>1, <2>4, <2>5 DEF OnlyMoves
<1> QED BY <1>2, <1>3

(* The inductive step of moves. *)
LEMMA MoveInvKept ==
  ASSUME IInv, GoldenInv, MoveInv, MaxValidity = 1, ClientActs = {}, [Next]_vars,
         "delete" \notin Action \/ \E r \in Run : Run = {r}
  PROVE  MoveInv'
<1> SUFFICES ASSUME Spared' PROVE TextsAreSafe' /\ OnlyMoves'
  BY DEF MoveInv
<1>1. Spared /\ OnlyMoves'
  BY MovesStay DEF MoveInv
<1>2. TextsAreSafe /\ OnlyMoves
  BY <1>1 DEF MoveInv
<1>3. ASSUME NEW b \in Body, Known(b)' PROVE Safe(b)'
  <2>1. CASE Known(b)
    BY <1>2, <2>1, SafeKept DEF TextsAreSafe
  <2>2. ASSUME NEW mb \in Mailbox, ServerStep, Deliver(mb, b) PROVE Safe(b)'
    <3>1. /\ ServerTypeOK /\ CanAppend(mb) /\ UNCHANGED rowVars /\ flagged' = flagged
          /\ msgs' = [msgs EXCEPT ![mb][uidNext[mb]] = b]
      BY <2>2, OthersLeaveTheArchive DEF Deliver, AppendMessage, IInv, TypeOK, ServerTypeOK
    <3>2. uidNext[mb] \in Uid
      BY <3>1, ServerAssumption DEF CanAppend, ServerTypeOK, Uid
    <3>3. msgs'[mb][uidNext[mb]] = b
      BY <3>1, <3>2 DEF ServerTypeOK
    <3>4. uidNext[mb] \notin flagged'[mb]
      <4>1. uidNext[mb] \notin Present(mb)
        BY <3>1 DEF GoldenInv, UidsAreFresh, ServerTypeOK
      <4> QED BY <3>1, <3>2, <4>1, ServerAssumption
          DEF GoldenInv, FlaggedIsArchived, InArchive, IInv, TypeOK, StoreTypeOK, Present
    <3>5. "flag" \notin ClientActs
      OBVIOUS
    <3> QED BY <3>1, <3>3, <3>4, <3>5, ArrivedIsSafe
  <2> QED BY <1>3, <2>1, <2>2, KnownBefore
<1>4. TextsAreSafe'
  BY <1>3 DEF TextsAreSafe
<1> QED BY <1>1, <1>4

(* A move loses no message.  Whatever part of MOVE, COPY, STORE and EXPUNGE   *)
(* succeeded or failed, and whatever runs, restores and crashes come in       *)
(* between, the text of each message is still on the server after a step of a *)
(* run that moves, when no run of the account deletes, or it is the only run. *)
THEOREM MoveLosesNothing ==
  ASSUME MaxValidity = 1, ClientActs = {},
         "delete" \notin Action \/ \E r \in Run : Run = {r}
  PROVE  Spec => MoveKeepsMessage
<1> DEFINE Rule ==
             (\E r \in Run : run[r].action = "move" /\ run'[r] # run[r]) =>
                \A mb \in Mailbox : \A u \in Present(mb) :
                   \E to \in Mailbox : \E v \in Uid : msgs'[to][v] = msgs[mb][u]
<1>1. Init => MoveInv
  BY ServerAssumption
  DEF Init, ServerInit, StoreInit, SyncInit, CleanupInit, NoRun, Goroutine,
      MoveInv, TextsAreSafe, OnlyMoves, Known, OnServer
<1>2. IInv /\ GoldenInv /\ MoveInv /\ [Next]_vars => MoveInv'
  BY MoveInvKept
<1>3. IInv /\ GoldenInv /\ MoveInv /\ [Next]_vars => Rule
  <2>1. SUFFICES ASSUME IInv, GoldenInv, MoveInv, [Next]_vars,
                        \E r \in Run : run[r].action = "move",
                        NEW mb \in Mailbox, NEW u \in Present(mb)
                 PROVE  \E to \in Mailbox : \E v \in Uid : msgs'[to][v] = msgs[mb][u]
    OBVIOUS
  <2>2. TextsAreSafe /\ OnlyMoves
    BY <2>1 DEF MoveInv, Spared
  <2>3. PICK b \in Body : b = msgs[mb][u]
    BY <2>1 DEF Present, IInv, TypeOK, ServerTypeOK
  <2>4. Safe(b)
    BY <2>1, <2>2, <2>3 DEF TextsAreSafe, Known, OnServer, Present
  <2>5. Safe(b)'
    BY <2>1, <2>2, <2>4, SafeKept
  <2> QED BY <2>3, <2>5 DEF Safe
<1>4. "flag" \notin ClientActs
  OBVIOUS
<1> QED BY GoldenInvariant, <1>1, <1>2, <1>3, <1>4, PTL DEF Spec, MoveKeepsMessage
=============================================================================
