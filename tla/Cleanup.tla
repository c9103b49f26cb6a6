------------------------------ MODULE Cleanup ------------------------------
(***************************************************************************)
(* Cleanup runs: Service.Run starts a goroutine that lists the candidates  *)
(* of a job's filter, passes each through the safety gate and deletes or   *)
(* moves them on the server, mailbox by mailbox and chunk by chunk         *)
(* (service/cleanup/executor.go).  A run takes no lock: it interleaves     *)
(* with the synchronisation of the same account and with other runs.       *)
(***************************************************************************)
EXTENDS ArchiveStore

CONSTANTS
    Run,            \* the runs of one behaviour
    Action,         \* the actions its jobs have, a subset of {"delete", "move"}
    ChunkSize,      \* messages per STORE or MOVE command: 1000 in the code
    RunFaults       \* bound: calls of runs that fail in one behaviour

ASSUME CleanupAssumption ==
    /\ Action \subseteq {"delete", "move"}
    /\ ChunkSize \in Nat \ {0}
    /\ RunFaults \in Nat

VARIABLES
    run,            \* [Run -> the local state of the run's goroutine]
    runStatus,      \* [Run -> the status column of cleanup_runs]
    runFaults       \* how many calls of runs have failed so far

cleanupVars == <<run, runStatus, runFaults>>

RunPc == {"none", "list", "mailbox", "chunk", "store", "expunge", "move", "copy", "mark"}

RunState ==
    [pc : RunPc, action : {"delete", "move"}, target : Mailbox,
     picks : [Mailbox -> SUBSET Uid],   \* gated candidates not yet handled
     box : Mailbox, session : 0 .. MaxValidity,
     chunk : SUBSET Uid,                \* the chunk in work
     left : SUBSET Uid]                 \* its UIDs that MOVE or COPY has still to do

CleanupTypeOK ==
    /\ run \in [Run -> RunState]
    /\ runStatus \in [Run -> {"none", "running", "done", "failed"}]
    /\ runFaults \in 0 .. RunFaults

NoPicks == [mb \in Mailbox |-> {}]

Goroutine(action, target, pc) ==
    [pc |-> pc, action |-> action, target |-> target, picks |-> NoPicks,
     box |-> AnyMailbox, session |-> 0, chunk |-> {}, left |-> {}]

NoRun == Goroutine("delete", AnyMailbox, "none")

CleanupInit ==
    /\ run = [r \in Run |-> NoRun]
    /\ runStatus = [r \in Run |-> "none"]
    /\ runFaults = 0

RunFault == runFaults < RunFaults /\ runFaults' = runFaults + 1

RunSessionAlive(r) == SessionAlive(run[r].box, run[r].session)

(* A command is refused, or the session of the selected mailbox is gone. *)
CommandFails(r) ==
    \/ RunFault
    \/ ~RunSessionAlive(r) /\ UNCHANGED runFaults

CommandWorks(r) == RunSessionAlive(r) /\ UNCHANGED runFaults

(* An error ends the work on the chunk: the loop continues with the next one, *)
(* and the rows of this one are not marked.                                   *)
GiveUpChunk(r) ==
    run' = [run EXCEPT ![r] = [@ EXCEPT !.pc = "chunk", !.chunk = {}, !.left = {}]]

Goto(r, pc) == run' = [run EXCEPT ![r].pc = pc]

-----------------------------------------------------------------------------

(* Service.Run: the run is recorded as running, then the goroutine starts. *)
RunJob(r, action, target) ==
    /\ runStatus[r] = "none"
    /\ run' = [run EXCEPT ![r] = Goroutine(action, target, "list")]
    /\ runStatus' = [runStatus EXCEPT ![r] = "running"]
    /\ UNCHANGED <<serverVars, storeVars, runFaults>>

(* Variant for testing the checks: the user's filter is joined by OR, and the *)
(* gate is not consulted.                                                      *)
ListCandidatesUngated(r) ==
    /\ run[r].pc = "list"
    /\ \E listed \in [Mailbox -> SUBSET Uid] :
          /\ \A mb \in Mailbox : listed[mb] \subseteq indexed[mb]
          /\ run' = [run EXCEPT ![r] = [@ EXCEPT !.pc = "mailbox", !.picks = listed]]
    /\ UNCHANGED <<serverVars, storeVars, runStatus, runFaults>>

(* ListCandidates and the gate.  The user's filter and the limit select any  *)
(* part of the rows the safety clause admits.                                *)
ListCandidates(r) ==
    /\ run[r].pc = "list"
    /\ \E listed \in [Mailbox -> SUBSET Uid] :
          /\ \A mb \in Mailbox : listed[mb] \subseteq SafetyCandidateSQL(mb)
          /\ run' = [run EXCEPT ![r] =
                [@ EXCEPT !.pc = "mailbox",
                          !.picks = [mb \in Mailbox |-> {u \in listed[mb] : IsSafe(mb, u)}]]]
    /\ UNCHANGED <<serverVars, storeVars, runStatus, runFaults>>

(* The query or the connection fails: the run ends as failed. *)
ListOrOpenFails(r) ==
    /\ run[r].pc = "list"
    /\ RunFault
    /\ run' = [run EXCEPT ![r] = NoRun]
    /\ runStatus' = [runStatus EXCEPT ![r] = "failed"]
    /\ UNCHANGED <<serverVars, storeVars>>

(* The mailboxes come in map order, any; UIDVALIDITY is not looked at. *)
SelectForCleanup(r, mb) ==
    /\ run[r].pc = "mailbox" /\ run[r].picks[mb] # {}
    /\ run' = [run EXCEPT ![r] =
                  [@ EXCEPT !.pc = "chunk", !.box = mb, !.session = uidValidity[mb]]]
    /\ UNCHANGED <<serverVars, storeVars, runStatus, runFaults>>

SelectForCleanupFails(r, mb) ==
    /\ run[r].pc = "mailbox" /\ run[r].picks[mb] # {}
    /\ RunFault
    /\ run' = [run EXCEPT ![r].picks[mb] = {}]
    /\ UNCHANGED <<serverVars, storeVars, runStatus>>

(* Variant for testing the checks: the loop does not advance its start. *)
NextChunkAgain(r) ==
    /\ run[r].pc = "chunk"
    /\ \E chunk \in SUBSET run[r].picks[run[r].box] :
          /\ chunk # {}
          /\ Cardinality(chunk) <= ChunkSize
          /\ run' = [run EXCEPT ![r] = [@ EXCEPT !.pc = "store", !.chunk = chunk]]
    /\ UNCHANGED <<serverVars, storeVars, runStatus, runFaults>>

NextChunk(r) ==
    /\ run[r].pc = "chunk"
    /\ LET picked == run[r].picks[run[r].box]
       IN \E chunk \in SUBSET picked :
             /\ chunk # {}
             /\ Cardinality(chunk) <= ChunkSize
             /\ chunk = picked \/ Cardinality(chunk) = ChunkSize
             /\ run' = [run EXCEPT ![r] =
                   [@ EXCEPT !.pc = IF run[r].action = "delete" THEN "store" ELSE "move",
                             !.chunk = chunk,
                             !.left = IF run[r].action = "delete" THEN {} ELSE chunk,
                             !.picks[run[r].box] = picked \ chunk]]
    /\ UNCHANGED <<serverVars, storeVars, runStatus, runFaults>>

ChunksDone(r) ==
    /\ run[r].pc = "chunk" /\ run[r].picks[run[r].box] = {}
    /\ run' = [run EXCEPT ![r] =
                  [@ EXCEPT !.pc = "mailbox", !.box = AnyMailbox, !.session = 0]]
    /\ UNCHANGED <<serverVars, storeVars, runStatus, runFaults>>

(* UpdateRun with status done, however many chunks failed. *)
RunDone(r) ==
    /\ run[r].pc = "mailbox" /\ run[r].picks = NoPicks
    /\ run' = [run EXCEPT ![r] = NoRun]
    /\ runStatus' = [runStatus EXCEPT ![r] = "done"]
    /\ UNCHANGED <<serverVars, storeVars, runFaults>>

-----------------------------------------------------------------------------
(* Client.MarkDeleted and Client.Expunge, for "delete" and for the fallback  *)
(* of Client.Move.                                                           *)

MarkDeletedChunk(r) ==
    /\ run[r].pc = "store"
    /\ RunSessionAlive(r)
    /\ StoreDeleted(run[r].box, run[r].chunk)
    /\ \/ Goto(r, "expunge") /\ UNCHANGED runFaults
       \/ RunFault /\ GiveUpChunk(r)            \* done by the server, reply lost
    /\ UNCHANGED <<storeVars, runStatus>>

ExpungeMailbox(r) ==
    /\ run[r].pc = "expunge"
    /\ RunSessionAlive(r)
    /\ ExpungeFlagged(run[r].box)
    /\ \/ Goto(r, "mark") /\ UNCHANGED runFaults
       \/ RunFault /\ GiveUpChunk(r)            \* done by the server, reply lost
    /\ UNCHANGED <<storeVars, runStatus>>

(* Variant for testing the checks: the error is logged and the rows are marked. *)
DeleteFailsButMarks(r) ==
    /\ run[r].pc \in {"store", "expunge"}
    /\ CommandFails(r)
    /\ Goto(r, "mark")
    /\ UNCHANGED <<serverVars, storeVars, runStatus>>

DeleteFails(r) ==
    /\ run[r].pc \in {"store", "expunge"}
    /\ CommandFails(r)
    /\ GiveUpChunk(r)
    /\ UNCHANGED <<serverVars, storeVars, runStatus>>

-----------------------------------------------------------------------------
(* Client.Move: MOVE, and COPY + STORE + EXPUNGE when MOVE reports an error. *)

MoveOne(r, u) ==
    /\ run[r].pc = "move"
    /\ CommandWorks(r)
    /\ u \in run[r].left \cap Present(run[r].box)
    /\ MoveMessage(run[r].box, u, run[r].target)
    /\ run' = [run EXCEPT ![r].left = @ \ {u}]
    /\ UNCHANGED <<storeVars, runStatus>>

MoveDone(r) ==
    /\ run[r].pc = "move"
    /\ CommandWorks(r)
    /\ run[r].left \cap Present(run[r].box) = {}
    /\ run' = [run EXCEPT ![r] = [@ EXCEPT !.pc = "mark", !.left = {}]]
    /\ UNCHANGED <<serverVars, storeVars, runStatus>>

(* Variant for testing the checks: the fallback forgets to COPY. *)
MoveFailsWithoutCopy(r) ==
    /\ run[r].pc = "move"
    /\ run' = [run EXCEPT ![r] = [@ EXCEPT !.pc = "store", !.left = {}]]
    /\ UNCHANGED <<serverVars, storeVars, runStatus, runFaults>>

(* The server does not know MOVE, refuses it, stops in the middle, or its    *)
(* reply is lost; the fallback starts with the whole chunk again.            *)
MoveFails(r) ==
    /\ run[r].pc = "move"
    /\ run' = [run EXCEPT ![r] = [@ EXCEPT !.pc = "copy", !.left = run[r].chunk]]
    /\ UNCHANGED <<serverVars, storeVars, runStatus, runFaults>>

CopyOne(r, u) ==
    /\ run[r].pc = "copy"
    /\ CommandWorks(r)
    /\ u \in run[r].left \cap Present(run[r].box)
    /\ CopyMessage(run[r].box, u, run[r].target)
    /\ run' = [run EXCEPT ![r].left = @ \ {u}]
    /\ UNCHANGED <<storeVars, runStatus>>

CopyDone(r) ==
    /\ run[r].pc = "copy"
    /\ CommandWorks(r)
    /\ run[r].left \cap Present(run[r].box) = {}
    /\ run' = [run EXCEPT ![r] = [@ EXCEPT !.pc = "store", !.left = {}]]
    /\ UNCHANGED <<serverVars, storeVars, runStatus>>

(* COPY fails, also for want of room in the target mailbox. *)
CopyFails(r) ==
    /\ run[r].pc = "copy"
    /\ \/ CommandFails(r)
       \/ ~CanAppend(run[r].target) /\ UNCHANGED runFaults
    /\ GiveUpChunk(r)
    /\ UNCHANGED <<serverVars, storeVars, runStatus>>

-----------------------------------------------------------------------------

(* The rows of the chunk are marked; an error of the UPDATE is ignored. *)
MarkChunk(r) ==
    /\ run[r].pc = "mark"
    /\ \/ MarkDeletedFromServer(run[r].box, run[r].chunk) /\ UNCHANGED runFaults
       \/ RunFault /\ UNCHANGED deletedFromServerAt
    /\ GiveUpChunk(r)
    /\ UNCHANGED <<serverVars, rowVars, cursorVars, blobs, runStatus>>

RunNext(r) ==
    \/ ListCandidates(r) \/ ListOrOpenFails(r)
    \/ \E mb \in Mailbox : SelectForCleanup(r, mb) \/ SelectForCleanupFails(r, mb)
    \/ NextChunk(r) \/ ChunksDone(r) \/ RunDone(r)
    \/ MarkDeletedChunk(r) \/ ExpungeMailbox(r) \/ DeleteFails(r)
    \/ \E u \in Uid : MoveOne(r, u) \/ CopyOne(r, u)
    \/ MoveDone(r) \/ MoveFails(r) \/ CopyDone(r) \/ CopyFails(r)
    \/ MarkChunk(r)

(* A job that deletes has no move target. *)
TargetsOf(action) == IF action = "move" THEN Mailbox ELSE {AnyMailbox}

JobNext == \E r \in Run, action \in Action :
              \E target \in TargetsOf(action) : RunJob(r, action, target)
=============================================================================
