------------------------------- MODULE Engine -------------------------------
(***************************************************************************)
(* Which goroutine synchronises which account when                         *)
(* (internal/archive/engine.go): RunAll, called at the start and every     *)
(* five minutes (cmd/giraffemail/main.go, runServe), RunAccount, called by *)
(* TriggerSync for a request (internal/service/account/service.go), the    *)
(* semaphore of each RunAll and the lock of each account; the progress     *)
(* each sync reports (internal/archive/progress.go).                       *)
(*                                                                         *)
(* What a sync does between its reports is module Sync.  IMAP calls have   *)
(* no deadline, so a sync may hang for ever.  The counters of the progress *)
(* are left out: only the status decides when a stream ends.               *)
(***************************************************************************)
EXTENDS Naturals, FiniteSets

CONSTANTS
    Account,
    WorkerCount,           \* config archive.worker_count
    Trigger,               \* requests to sync, at most this many at a time per account
    MaxHangs,              \* bound: syncs that hang
    MaxDeletes             \* bound: accounts that are deleted

ASSUME EngineConstants ==
    /\ WorkerCount \in Nat \ {0}
    /\ MaxHangs \in Nat
    /\ MaxDeletes \in Nat
    /\ {"startup", "ticker"} \cap Trigger = {}

Round == {"startup", "ticker"}         \* the two goroutines that call RunAll
Task == (Round \cup Trigger) \X Account \* a goroutine of RunAll or of TriggerSync
NoTask == <<>>

VARIABLES
    mailAccounts,          \* SUBSET Account: rows of mail_accounts with sync_enabled
    round,                 \* [Round -> "asleep", "running" or "over"]
    accounts,              \* [Round -> SUBSET Account]: rows read, not started yet
    task,                  \* [Task -> "none", "lock", "indexing" or "archiving"]
    accountMu,             \* [Account -> Task or NoTask]
    hung,                  \* SUBSET Account: a call of its sync never returns
    status,                \* [Account -> Progress.Status]
    stuck                  \* history: [Account -> the last sync left without a report]

roundVars == <<round, accounts>>
taskVars == <<task, accountMu, hung>>
progressVars == <<status, stuck>>
vars == <<mailAccounts, roundVars, taskVars, progressVars>>

Busy == {"indexing", "archiving"}
Syncs(a) == {t \in Task : t[2] = a /\ task[t] \in Busy}
InRound(r) == {t \in {r} \X Account : task[t] # "none"}

TypeOK ==
    /\ mailAccounts \in SUBSET Account
    /\ round \in [Round -> {"asleep", "running", "over"}]
    /\ accounts \in [Round -> SUBSET Account]
    /\ task \in [Task -> {"none", "lock"} \cup Busy]
    /\ accountMu \in [Account -> Task \cup {NoTask}]
    /\ hung \in SUBSET {a \in Account : Syncs(a) # {}}
    /\ status \in [Account -> {"idle", "done", "error"} \cup Busy]
    /\ stuck \in [Account -> BOOLEAN]

Init ==
    /\ mailAccounts = Account
    /\ round = [r \in Round |-> "asleep"]
    /\ accounts = [r \in Round |-> {}]
    /\ task = [t \in Task |-> "none"]
    /\ accountMu = [a \in Account |-> NoTask]
    /\ hung = {}
    /\ status = [a \in Account |-> "idle"]
    /\ stuck = [a \in Account |-> FALSE]
-----------------------------------------------------------------------------
(* Variant for testing the checks: appends the row Scan failed to read.     *)
RunAllUnread(r) ==
    /\ round[r] = "asleep"
    /\ round' = [round EXCEPT ![r] = "running"]
    /\ accounts' = [accounts EXCEPT ![r] = mailAccounts \cup {NoTask}]
    /\ UNCHANGED <<mailAccounts, taskVars, progressVars>>

(* RunAll reads the rows before it takes a slot or a lock.  A query that    *)
(* fails ends it at once.                                                   *)
RunAll(r) ==
    /\ round[r] = "asleep"
    /\ round' = [round EXCEPT ![r] = "running"]
    /\ accounts' = [accounts EXCEPT ![r] = mailAccounts]
    /\ UNCHANGED <<mailAccounts, taskVars, progressVars>>

(* Variant for testing the checks: a goroutine that takes no slot.         *)
StartWorkerUnlimited(r, a) ==
    /\ round[r] = "running"
    /\ a \in accounts[r]
    /\ accounts' = [accounts EXCEPT ![r] = @ \ {a}]
    /\ task' = [task EXCEPT ![<<r, a>>] = "lock"]
    /\ UNCHANGED <<mailAccounts, round, accountMu, hung, progressVars>>

(* The loop takes a slot of the semaphore, then starts the goroutine. *)
StartWorker(r, a) ==
    /\ round[r] = "running"
    /\ a \in accounts[r]
    /\ Cardinality(InRound(r)) < WorkerCount
    /\ accounts' = [accounts EXCEPT ![r] = @ \ {a}]
    /\ task' = [task EXCEPT ![<<r, a>>] = "lock"]
    /\ UNCHANGED <<mailAccounts, round, accountMu, hung, progressVars>>

(* wg.Wait.  The ticker sleeps and calls again, the start does not. *)
RunAllReturns(r) ==
    /\ round[r] = "running"
    /\ accounts[r] = {}
    /\ InRound(r) = {}
    /\ round' = [round EXCEPT ![r] = IF r = "ticker" THEN "asleep" ELSE "over"]
    /\ UNCHANGED <<mailAccounts, accounts, taskVars, progressVars>>

(* A request: the account exists, and a goroutine calls RunAccount. *)
TriggerSync(g, a) ==
    /\ a \in mailAccounts
    /\ task[<<g, a>>] = "none"
    /\ task' = [task EXCEPT ![<<g, a>>] = "lock"]
    /\ UNCHANGED <<mailAccounts, roundVars, accountMu, hung, progressVars>>
-----------------------------------------------------------------------------
(* Variant for testing the checks: a lock of its own for each call.        *)
LockedUnshared(t) ==
    /\ task[t] = "lock"
    /\ accountMu' = [accountMu EXCEPT ![t[2]] = t]

(* withAccountLock, its Lock. *)
Locked(t) ==
    /\ task[t] = "lock"
    /\ accountMu[t[2]] = NoTask
    /\ accountMu' = [accountMu EXCEPT ![t[2]] = t]

(* RunAccount reads the row under the lock, RunAll's worker has it already. *)
HasRow(t) == t[1] \in Round \/ t[2] \in mailAccounts

(* withAccountLock and the first report of runAccount, setIndexing. *)
SyncStarts(t) ==
    /\ Locked(t)
    /\ HasRow(t)
    /\ task' = [task EXCEPT ![t] = "indexing"]
    /\ status' = [status EXCEPT ![t[2]] = "indexing"]
    /\ stuck' = [stuck EXCEPT ![t[2]] = FALSE]
    /\ UNCHANGED <<mailAccounts, roundVars, hung>>

(* RunAccount returns "account not found". *)
NotFound(t) ==
    /\ task[t] = "lock"
    /\ accountMu[t[2]] = NoTask
    /\ ~HasRow(t)
    /\ task' = [task EXCEPT ![t] = "none"]
    /\ UNCHANGED <<mailAccounts, roundVars, accountMu, hung, progressVars>>

(* Variant for testing the checks: returns without unlocking.              *)
ReturnsLocked(t) ==
    /\ task[t] \in Busy
    /\ t[2] \notin hung
    /\ task' = [task EXCEPT ![t] = "none"]
    /\ UNCHANGED <<mailAccounts, roundVars, accountMu, hung>>

(* runAccount returns, and the lock and the slot with it. *)
Returns(t) ==
    /\ task[t] \in Busy
    /\ t[2] \notin hung
    /\ task' = [task EXCEPT ![t] = "none"]
    /\ accountMu' = [accountMu EXCEPT ![t[2]] = NoTask]
    /\ UNCHANGED <<mailAccounts, roundVars, hung>>

(* The credentials, the connection or the list of mailboxes: setError. *)
ConnectFails(t) ==
    /\ task[t] = "indexing"
    /\ Returns(t)
    /\ status' = [status EXCEPT ![t[2]] = "error"]
    /\ UNCHANGED stuck

(* ensureMailboxes fails, as it does for an account that was deleted: the   *)
(* error is returned and nothing is reported.                               *)
EnsureMailboxesFails(t) ==
    /\ task[t] = "indexing"
    /\ Returns(t)
    /\ stuck' = [stuck EXCEPT ![t[2]] = TRUE]
    /\ UNCHANGED status

(* The second phase finds messages to archive: setArchiving. *)
ArchivingStarts(t) ==
    /\ task[t] = "indexing"
    /\ t[2] \notin hung
    /\ task' = [task EXCEPT ![t] = "archiving"]
    /\ status' = [status EXCEPT ![t[2]] = "archiving"]
    /\ UNCHANGED <<mailAccounts, roundVars, accountMu, hung, stuck>>

(* The end, with or without anything to archive: setDone. *)
SyncDone(t) ==
    /\ Returns(t)
    /\ status' = [status EXCEPT ![t[2]] = "done"]
    /\ UNCHANGED stuck

SyncEnds(t) == SyncDone(t) \/ ConnectFails(t) \/ EnsureMailboxesFails(t)

SyncStep(t) ==
    \/ SyncStarts(t) \/ NotFound(t)
    \/ ArchivingStarts(t) \/ SyncEnds(t)

(* A call to the server never returns. *)
Hangs(t) ==
    /\ task[t] \in Busy
    /\ t[2] \notin hung
    /\ Cardinality(hung) < MaxHangs
    /\ hung' = hung \cup {t[2]}
    /\ UNCHANGED <<mailAccounts, roundVars, task, accountMu, progressVars>>

(* Service.Delete, whatever is going on. *)
DeleteAccount(a) ==
    /\ a \in mailAccounts
    /\ Cardinality(Account \ mailAccounts) < MaxDeletes
    /\ mailAccounts' = mailAccounts \ {a}
    /\ UNCHANGED <<roundVars, taskVars, progressVars>>
-----------------------------------------------------------------------------
Next ==
    \/ \E r \in Round :
         \/ RunAll(r) \/ RunAllReturns(r)
         \/ \E a \in Account : StartWorker(r, a)
    \/ \E g \in Trigger, a \in Account : TriggerSync(g, a)
    \/ \E t \in Task : SyncStep(t) \/ Hangs(t)
    \/ \E a \in Account : DeleteAccount(a)

Spec == Init /\ [][Next]_vars

(* The goroutines of RunAll run and the timer fires; a mutex serves those   *)
(* who wait for it in turn, whence strong fairness; a sync that does not    *)
(* hang comes to one of its ends.                                           *)
FairSpec ==
    /\ Spec
    /\ \A r \in Round :
         WF_vars(RunAll(r) \/ RunAllReturns(r) \/ \E a \in Account : StartWorker(r, a))
    /\ \A t \in Task : SF_vars(SyncStarts(t) \/ NotFound(t))
    /\ \A a \in Account : WF_vars(\E t \in Task : t[2] = a /\ SyncEnds(t))
-----------------------------------------------------------------------------
(* An account has one sync at a time, whoever started it, and its progress *)
(* tells of that sync and no other: it is active while the sync is, and    *)
(* final when there is none, so that a stream of it ends, but for a sync    *)
(* whose ensureMailboxes failed (withAccountLock, runAccount, SSEHandler).  *)
StatusIsTrue ==
    \A a \in Account :
        /\ Cardinality(Syncs(a)) <= 1
        /\ Syncs(a) # {} => status[a] \in Busy
        /\ Syncs(a) = {} => status[a] \notin Busy \/ stuck[a]

(* The syncs there are at a time are bounded by the workers of the two     *)
(* RunAlls and the requests, and a RunAll that returned has left none      *)
(* behind (the semaphore and wg.Wait).                                      *)
RoundsAreBounded ==
    \A r \in Round :
        /\ Cardinality(InRound(r)) <= WorkerCount
        /\ round[r] \in {"asleep", "over"} => InRound(r) = {}

(* Every account is synchronised again and again while it exists and no    *)
(* call hangs; a call that hangs, for want of a deadline, ends that: the   *)
(* ticker waits for ever.                                                   *)
EveryAccountIsServed ==
    \A a \in Account : []<>(Syncs(a) # {} \/ a \notin mailAccounts \/ hung # {})

(* A sync that hangs takes its account and one worker with it: a RunAll     *)
(* that has begun goes through all accounts as long as it has a worker      *)
(* left, and a request for another account is served.                       *)
OthersAreServed ==
    /\ \A r \in Round :
         accounts[r] # {} ~> accounts[r] = {} \/ Cardinality(hung) >= WorkerCount
    /\ \A g \in Trigger, a \in Account :
         task[<<g, a>>] = "lock" ~>
             task[<<g, a>>] \in Busy \/ a \in hung \/ a \notin mailAccounts
=============================================================================
