---------------------------- MODULE EngineProofs ----------------------------
(***************************************************************************)
(* Theorems about Engine, for any number of accounts, workers, requests,   *)
(* hanging calls and deleted accounts.                                     *)
(***************************************************************************)
EXTENDS Engine, FiniteSetTheorems, TLAPS

(* Whoever synchronises an account holds its lock, and the progress of the *)
(* account is at the step this task is at.                                  *)
SyncHoldsLock ==
    \A t \in Task : task[t] \in Busy => accountMu[t[2]] = t /\ status[t[2]] = task[t]

(* A progress that is active without a sync was left by one that did not   *)
(* report its end.                                                          *)
StatusIsFinal ==
    \A a \in Account : Syncs(a) = {} => status[a] \notin Busy \/ stuck[a]

(* The goroutines of a RunAll are finitely many: the semaphore says so, not *)
(* the number of accounts.                                                  *)
RoundsAreFinite == \A r \in Round : IsFiniteSet(InRound(r))

(* An account a RunAll has still to start has no goroutine in it. *)
ListedWait == \A r \in Round : \A a \in accounts[r] : task[<<r, a>>] = "none"

(* The inductive invariant. *)
EngineInv ==
    /\ TypeOK
    /\ SyncHoldsLock
    /\ StatusIsFinal
    /\ ListedWait
    /\ RoundsAreFinite
    /\ RoundsAreBounded

(* A task is the pair of who started it and its account. *)
LEMMA TaskIsPair ==
  ASSUME NEW t \in Task
  PROVE  t[1] \in Round \cup Trigger /\ t[2] \in Account /\ t = <<t[1], t[2]>> /\ t # NoTask
  BY DEF Task, NoTask

(* What a RunAll has still to start is a task. *)
LEMMA ListedIsTask ==
  ASSUME TypeOK, NEW r \in Round, NEW a \in accounts[r]
  PROVE  <<r, a>> \in Task
  BY DEF TypeOK, Task

(* The goroutines of a RunAll change by one task at a time, and not at all  *)
(* by what a request does.                                                  *)
LEMMA InRoundChanges ==
  ASSUME TypeOK, NEW t \in Task, NEW pc, task' = [task EXCEPT ![t] = pc], NEW r \in Round
  PROVE  InRound(r)' = IF t[1] # r THEN InRound(r)
                       ELSE IF pc = "none" THEN InRound(r) \ {t} ELSE InRound(r) \cup {t}
<1>1. {r} \X Account \subseteq Task
  BY DEF Task
<1>2. \A s \in {r} \X Account : task'[s] = IF s = t THEN pc ELSE task[s]
  BY <1>1 DEF TypeOK
<1>3. t[1] = r <=> t \in {r} \X Account
  BY DEF Task
<1> QED BY <1>2, <1>3 DEF InRound

(* The syncs of an account, likewise. *)
LEMMA SyncsChange ==
  ASSUME TypeOK, NEW t \in Task, NEW pc, task' = [task EXCEPT ![t] = pc], NEW a \in Account
  PROVE  Syncs(a)' = IF t[2] # a THEN Syncs(a)
                     ELSE IF pc \in Busy THEN Syncs(a) \cup {t} ELSE Syncs(a) \ {t}
  BY DEF TypeOK, Syncs

(* When an account's lock is free, or its task returns, no other sync of it *)
(* is on.                                                                   *)
LEMMA OneSyncAtATime ==
  ASSUME SyncHoldsLock, NEW a \in Account
  PROVE  /\ Syncs(a) \subseteq {accountMu[a]}
         /\ accountMu[a] = NoTask => Syncs(a) = {}
         /\ \A t \in Task : task[t] \in Busy /\ t[2] = a => Syncs(a) = {t}
  BY TaskIsPair DEF SyncHoldsLock, Syncs

(* The two RunAlls stay bounded when a task changes its step: one that is  *)
(* added took a slot of a RunAll that runs.                                 *)
LEMMA RoundsKept ==
  ASSUME EngineInv, NEW t \in Task, NEW pc, task' = [task EXCEPT ![t] = pc],
         UNCHANGED round,
         \/ pc = "none" \/ t[1] \notin Round \/ task[t] # "none"
         \/ round[t[1]] = "running" /\ Cardinality(InRound(t[1])) < WorkerCount
  PROVE  RoundsAreFinite' /\ RoundsAreBounded'
<1> SUFFICES ASSUME NEW r \in Round
             PROVE  /\ IsFiniteSet(InRound(r)')
                    /\ Cardinality(InRound(r)') <= WorkerCount
                    /\ round[r] \in {"asleep", "over"} => InRound(r)' = {}
  BY DEF RoundsAreFinite, RoundsAreBounded
<1>1. /\ IsFiniteSet(InRound(r)) /\ Cardinality(InRound(r)) <= WorkerCount
      /\ round[r] \in {"asleep", "over"} => InRound(r) = {}
  BY DEF EngineInv, RoundsAreFinite, RoundsAreBounded
<1>2. Cardinality(InRound(r)) \in Nat
  BY <1>1, FS_CardinalityType
<1>3. CASE InRound(r)' = InRound(r)
  BY <1>1, <1>3
<1>4. CASE InRound(r)' = InRound(r) \ {t}
  <2>1. IsFiniteSet(InRound(r)') /\ Cardinality(InRound(r)') <= Cardinality(InRound(r))
    BY <1>1, <1>4, FS_Subset
  <2>2. Cardinality(InRound(r)') \in Nat
    BY <2>1, FS_CardinalityType
  <2> QED BY <1>1, <1>2, <1>4, <2>1, <2>2, EngineConstants
<1>5. CASE t[1] = r /\ InRound(r)' = InRound(r) \cup {t} /\ t \notin InRound(r) /\ pc # "none"
  <2>1. task[t] = "none"
    BY <1>5 DEF InRound, Task
  <2>2. round[r] = "running" /\ Cardinality(InRound(r)) < WorkerCount
    BY <1>5, <2>1
  <2>3. IsFiniteSet(InRound(r)') /\ Cardinality(InRound(r)') = Cardinality(InRound(r)) + 1
    BY <1>1, <1>5, FS_AddElement
  <2> QED BY <1>2, <2>2, <2>3, EngineConstants
<1>6. CASE t[1] = r /\ InRound(r)' = InRound(r) \cup {t} /\ t \in InRound(r)
  <2>1. InRound(r)' = InRound(r)
    BY <1>6
  <2> QED BY <1>3, <2>1
<1>7. InRound(r)' = IF t[1] # r THEN InRound(r)
                    ELSE IF pc = "none" THEN InRound(r) \ {t} ELSE InRound(r) \cup {t}
  BY InRoundChanges DEF EngineInv
<1> QED BY <1>3, <1>4, <1>5, <1>6, <1>7

(* The invariant holds at the start: nothing runs. *)
LEMMA InitEngineInv == Init => EngineInv
<1> SUFFICES ASSUME Init PROVE EngineInv
  OBVIOUS
<1>1. \A a \in Account : Syncs(a) = {}
  BY DEF Init, Syncs, Busy
<1>2. \A r \in Round : InRound(r) = {}
  BY DEF Init, InRound, Task
<1>3. TypeOK
  BY <1>1 DEF Init, TypeOK, Busy
<1>4. SyncHoldsLock /\ StatusIsFinal /\ ListedWait
  BY DEF Init, SyncHoldsLock, StatusIsFinal, ListedWait, Busy
<1>5. RoundsAreFinite /\ RoundsAreBounded
  BY <1>2, FS_EmptySet, EngineConstants DEF RoundsAreFinite, RoundsAreBounded
<1> QED BY <1>3, <1>4, <1>5 DEF EngineInv

(* A task returns: the lock goes with it, and so does the last sync of its  *)
(* account, whose progress is then final or stuck.                          *)
LEMMA ReturnsKeepsEngineInv ==
  ASSUME EngineInv, NEW t \in Task, Returns(t),
         \/ /\ \E s \in {"done", "error"} : status' = [status EXCEPT ![t[2]] = s]
            /\ UNCHANGED stuck
         \/ stuck' = [stuck EXCEPT ![t[2]] = TRUE] /\ UNCHANGED status
  PROVE  EngineInv'
<1> USE DEF EngineInv
<1>1. t[2] \in Account /\ t # NoTask
  BY TaskIsPair
<1>2. /\ task' = [task EXCEPT ![t] = "none"] /\ accountMu' = [accountMu EXCEPT ![t[2]] = NoTask]
      /\ task[t] \in Busy /\ t[2] \notin hung
      /\ UNCHANGED <<mailAccounts, round, accounts, hung>>
  BY DEF Returns, roundVars
<1>3. Syncs(t[2]) = {t}
  BY <1>1, <1>2, OneSyncAtATime
<1>4. \A a \in Account : Syncs(a)' = IF a = t[2] THEN {} ELSE Syncs(a)
  <2>1. "none" \notin Busy
    BY DEF Busy
  <2>2. \A a \in Account : Syncs(a)' = IF t[2] # a THEN Syncs(a) ELSE Syncs(a) \ {t}
    BY <1>2, <2>1, SyncsChange
  <2> QED BY <1>3, <2>2
<1>5. TypeOK'
  <2>1. status' \in [Account -> {"idle", "done", "error"} \cup Busy] /\ stuck' \in [Account -> BOOLEAN]
    BY DEF TypeOK
  <2>2. hung' \in SUBSET {a \in Account : Syncs(a)' # {}}
    BY <1>2, <1>4 DEF TypeOK
  <2> QED BY <1>2, <2>1, <2>2 DEF TypeOK
<1>6. SyncHoldsLock'
  <2> SUFFICES ASSUME NEW s \in Task, task'[s] \in Busy
               PROVE  accountMu'[s[2]] = s /\ status'[s[2]] = task'[s]
    BY DEF SyncHoldsLock
  <2>1. s # t /\ task'[s] = task[s] /\ s[2] \in Account
    BY <1>2, TaskIsPair DEF TypeOK, Busy
  <2>2. s[2] # t[2]
    BY <1>2, <1>3, <2>1 DEF Syncs
  <2> QED BY <1>1, <1>2, <2>1, <2>2 DEF SyncHoldsLock, TypeOK
<1>7. StatusIsFinal'
  BY <1>1, <1>4 DEF StatusIsFinal, TypeOK, Busy
<1>8. RoundsAreFinite' /\ RoundsAreBounded'
  BY <1>2, RoundsKept
<1>9. ListedWait'
  BY <1>2, ListedIsTask DEF ListedWait, TypeOK
<1> QED BY <1>5, <1>6, <1>7, <1>8, <1>9

(* A goroutine is started: it waits for its account. *)
LEMMA StartKeepsEngineInv ==
  ASSUME EngineInv, NEW t \in Task, task[t] = "none", task' = [task EXCEPT ![t] = "lock"],
         UNCHANGED <<mailAccounts, round, accountMu, hung, progressVars>>,
         \/ t[1] \in Trigger /\ UNCHANGED accounts
         \/ /\ t[1] \in Round /\ round[t[1]] = "running"
            /\ Cardinality(InRound(t[1])) < WorkerCount
            /\ accounts' = [accounts EXCEPT ![t[1]] = @ \ {t[2]}]
  PROVE  EngineInv'
<1> USE DEF EngineInv
<1>1. \A a \in Account : Syncs(a)' = Syncs(a)
  BY SyncsChange DEF Syncs, Busy
<1>2. TypeOK'
  BY <1>1 DEF TypeOK, progressVars
<1>3. SyncHoldsLock' /\ StatusIsFinal'
  BY <1>1 DEF SyncHoldsLock, StatusIsFinal, TypeOK, progressVars, Busy
<1>4. t[1] \in Trigger => t[1] \notin Round
  BY EngineConstants DEF Round
<1>5. ListedWait'
  <2> SUFFICES ASSUME NEW r \in Round, NEW a \in accounts'[r] PROVE task'[<<r, a>>] = "none"
    BY DEF ListedWait
  <2>1. a \in accounts[r] /\ <<r, a>> # t
    BY <1>4, TaskIsPair DEF TypeOK
  <2> QED BY <2>1 DEF ListedWait, TypeOK, Task
<1>6. RoundsAreFinite' /\ RoundsAreBounded'
  BY <1>4, RoundsKept
<1> QED BY <1>2, <1>3, <1>5, <1>6

(* A sync begins: the lock of its account was free, so no other was on. *)
LEMMA SyncStartsKeepsEngineInv ==
  ASSUME EngineInv, NEW t \in Task, SyncStarts(t)
  PROVE  EngineInv'
<1> USE DEF EngineInv
<1>1. t[2] \in Account /\ t # NoTask
  BY TaskIsPair
<1>2. /\ task' = [task EXCEPT ![t] = "indexing"] /\ accountMu' = [accountMu EXCEPT ![t[2]] = t]
      /\ status' = [status EXCEPT ![t[2]] = "indexing"] /\ stuck' = [stuck EXCEPT ![t[2]] = FALSE]
      /\ task[t] = "lock" /\ accountMu[t[2]] = NoTask
      /\ UNCHANGED <<mailAccounts, round, accounts, hung>>
  BY DEF SyncStarts, Locked, roundVars
<1>3. Syncs(t[2]) = {}
  BY <1>1, <1>2, OneSyncAtATime
<1>4. \A a \in Account : Syncs(a)' = IF a = t[2] THEN {t} ELSE Syncs(a)
  BY <1>2, <1>3, SyncsChange DEF Busy
<1>5. TypeOK'
  <2>1. hung' \in SUBSET {a \in Account : Syncs(a)' # {}}
    BY <1>2, <1>4 DEF TypeOK
  <2>2. task' \in [Task -> {"none", "lock"} \cup Busy] /\ accountMu' \in [Account -> Task \cup {NoTask}]
    BY <1>2 DEF TypeOK, Busy
  <2> QED BY <1>2, <2>1, <2>2 DEF TypeOK, Busy
<1>6. SyncHoldsLock'
  <2> SUFFICES ASSUME NEW s \in Task, task'[s] \in Busy
               PROVE  accountMu'[s[2]] = s /\ status'[s[2]] = task'[s]
    BY DEF SyncHoldsLock
  <2>1. s[2] \in Account
    BY TaskIsPair
  <2>2. CASE s = t
    BY <1>1, <1>2, <2>2 DEF TypeOK
  <2>3. CASE s # t
    <3>1. task[s] \in Busy /\ task'[s] = task[s]
      BY <1>2, <2>3 DEF TypeOK
    <3>2. s[2] # t[2]
      BY <1>3, <3>1 DEF Syncs
    <3> QED BY <1>2, <2>1, <3>1, <3>2 DEF SyncHoldsLock, TypeOK
  <2> QED BY <2>2, <2>3
<1>7. StatusIsFinal'
  BY <1>1, <1>2, <1>4 DEF StatusIsFinal, TypeOK
<1>8. RoundsAreFinite' /\ RoundsAreBounded'
  BY <1>2, RoundsKept
<1>9. ListedWait'
  BY <1>2, ListedIsTask DEF ListedWait, TypeOK
<1> QED BY <1>5, <1>6, <1>7, <1>8, <1>9

(* A sync goes on to its second phase. *)
LEMMA ArchivingKeepsEngineInv ==
  ASSUME EngineInv, NEW t \in Task, ArchivingStarts(t)
  PROVE  EngineInv'
<1> USE DEF EngineInv
<1>1. t[2] \in Account
  BY TaskIsPair
<1>2. /\ task' = [task EXCEPT ![t] = "archiving"] /\ status' = [status EXCEPT ![t[2]] = "archiving"]
      /\ task[t] = "indexing"
      /\ UNCHANGED <<mailAccounts, round, accounts, accountMu, hung, stuck>>
  BY DEF ArchivingStarts, roundVars
<1>3. Syncs(t[2]) = {t}
  BY <1>1, <1>2, OneSyncAtATime DEF Busy
<1>4. ASSUME NEW a \in Account PROVE Syncs(a)' = Syncs(a)
  <2>1. Syncs(a)' = IF t[2] # a THEN Syncs(a) ELSE Syncs(a) \cup {t}
    BY <1>2, SyncsChange DEF Busy
  <2> QED BY <1>3, <2>1
<1>5. TypeOK'
  <2>1. hung' \in SUBSET {a \in Account : Syncs(a)' # {}}
    BY <1>2, <1>4 DEF TypeOK
  <2> QED BY <1>2, <2>1 DEF TypeOK, Busy
<1>6. SyncHoldsLock'
  <2> SUFFICES ASSUME NEW s \in Task, task'[s] \in Busy
               PROVE  accountMu'[s[2]] = s /\ status'[s[2]] = task'[s]
    BY DEF SyncHoldsLock
  <2>1. s[2] \in Account
    BY TaskIsPair
  <2>2. CASE s = t
    BY <1>1, <1>2, <2>2 DEF SyncHoldsLock, TypeOK, Busy
  <2>3. CASE s # t
    <3>1. task[s] \in Busy /\ task'[s] = task[s]
      BY <1>2, <2>3 DEF TypeOK
    <3>2. s[2] # t[2]
      BY <1>3, <2>3, <3>1 DEF Syncs
    <3> QED BY <1>2, <2>1, <3>1, <3>2 DEF SyncHoldsLock, TypeOK
  <2> QED BY <2>2, <2>3
<1>7. StatusIsFinal'
  BY <1>1, <1>2, <1>3, <1>4 DEF StatusIsFinal, TypeOK
<1>8. RoundsAreFinite' /\ RoundsAreBounded'
  BY <1>2, RoundsKept
<1>9. ListedWait'
  BY <1>2, ListedIsTask DEF ListedWait, TypeOK
<1> QED BY <1>5, <1>6, <1>7, <1>8, <1>9

(* RunAccount finds no row: its task was waiting, and is gone. *)
LEMMA NotFoundKeepsEngineInv ==
  ASSUME EngineInv, NEW t \in Task, NotFound(t)
  PROVE  EngineInv'
<1> USE DEF EngineInv
<1>1. /\ task' = [task EXCEPT ![t] = "none"] /\ task[t] = "lock"
      /\ UNCHANGED <<mailAccounts, round, accounts, accountMu, hung, status, stuck>>
  BY DEF NotFound, roundVars, progressVars
<1>2. \A a \in Account : Syncs(a)' = Syncs(a)
  BY <1>1, SyncsChange DEF Syncs, Busy
<1>3. TypeOK'
  BY <1>1, <1>2 DEF TypeOK
<1>4. SyncHoldsLock' /\ StatusIsFinal' /\ ListedWait'
  BY <1>1, <1>2 DEF SyncHoldsLock, StatusIsFinal, ListedWait, TypeOK, Busy
<1>5. RoundsAreFinite' /\ RoundsAreBounded'
  BY <1>1, RoundsKept
<1> QED BY <1>3, <1>4, <1>5

(* Every step keeps the invariant. *)
LEMMA NextEngineInv == EngineInv /\ [Next]_vars => EngineInv'
<1> SUFFICES ASSUME EngineInv, [Next]_vars PROVE EngineInv'
  OBVIOUS
<1> USE DEF EngineInv
<1>1. ASSUME UNCHANGED <<task, accountMu, progressVars>>
      PROVE  /\ SyncHoldsLock' /\ StatusIsFinal' /\ RoundsAreFinite'
             /\ \A r \in Round : InRound(r)' = InRound(r)
             /\ \A a \in Account : Syncs(a)' = Syncs(a)
  BY <1>1 DEF progressVars, SyncHoldsLock, StatusIsFinal, Syncs, RoundsAreFinite, InRound
<1>2. ASSUME NEW r \in Round, RunAll(r) PROVE EngineInv'
  <2>1. UNCHANGED <<task, accountMu, hung, progressVars, mailAccounts>>
    BY <1>2 DEF RunAll, taskVars
  <2>2. TypeOK'
    BY <1>1, <1>2, <2>1 DEF RunAll, TypeOK, progressVars
  <2>3. RoundsAreBounded'
    BY <1>1, <1>2, <2>1 DEF RunAll, TypeOK, RoundsAreBounded
  <2>4. ListedWait'
    <3>1. \A a \in mailAccounts : <<r, a>> \in {r} \X Account
      BY DEF TypeOK
    <3>2. \A a \in mailAccounts : task[<<r, a>>] = "none"
      BY <1>2, <3>1 DEF RunAll, RoundsAreBounded, InRound
    <3> QED BY <1>2, <2>1, <3>2 DEF RunAll, ListedWait, TypeOK
  <2> QED BY <1>1, <2>1, <2>2, <2>3, <2>4
<1>3. ASSUME NEW r \in Round, RunAllReturns(r) PROVE EngineInv'
  <2>1. UNCHANGED <<task, accountMu, hung, progressVars, mailAccounts, accounts>>
    BY <1>3 DEF RunAllReturns, taskVars
  <2>2. TypeOK'
    BY <1>1, <1>3, <2>1 DEF RunAllReturns, TypeOK, progressVars
  <2>3. RoundsAreBounded' /\ ListedWait'
    BY <1>1, <1>3, <2>1 DEF RunAllReturns, TypeOK, RoundsAreBounded, ListedWait
  <2> QED BY <1>1, <2>1, <2>2, <2>3
<1>4. ASSUME NEW r \in Round, NEW a \in Account, StartWorker(r, a) PROVE EngineInv'
  <2>1. <<r, a>> \in Task /\ <<r, a>>[1] = r /\ <<r, a>>[2] = a
    BY DEF Task
  <2>2. task[<<r, a>>] = "none"
    BY <1>4 DEF StartWorker, ListedWait
  <2> QED BY <1>4, <2>1, <2>2, StartKeepsEngineInv DEF StartWorker
<1>5. ASSUME NEW g \in Trigger, NEW a \in Account, TriggerSync(g, a) PROVE EngineInv'
  <2>1. <<g, a>> \in Task /\ <<g, a>>[1] = g /\ <<g, a>>[2] = a
    BY DEF Task
  <2> QED BY <1>5, <2>1, StartKeepsEngineInv DEF TriggerSync, roundVars
<1>6. ASSUME NEW t \in Task, SyncStep(t) PROVE EngineInv'
  <2>1. SyncEnds(t) => EngineInv'
    BY ReturnsKeepsEngineInv DEF SyncEnds, SyncDone, ConnectFails, EnsureMailboxesFails
  <2> QED
    BY <1>6, <2>1, SyncStartsKeepsEngineInv, NotFoundKeepsEngineInv, ArchivingKeepsEngineInv
    DEF SyncStep
<1>7. ASSUME NEW t \in Task, Hangs(t) PROVE EngineInv'
  <2>1. /\ UNCHANGED <<mailAccounts, round, accounts, task, accountMu, status, stuck>>
        /\ hung' = hung \cup {t[2]} /\ t \in Syncs(t[2]) /\ t[2] \in Account
    BY <1>7, TaskIsPair DEF Hangs, Syncs, roundVars, progressVars
  <2>2. TypeOK'
    BY <1>1, <2>1 DEF TypeOK, progressVars
  <2> QED BY <1>1, <2>1, <2>2 DEF progressVars, ListedWait, RoundsAreBounded
<1>8. ASSUME NEW a \in Account, DeleteAccount(a) PROVE EngineInv'
  BY <1>1, <1>8
  DEF DeleteAccount, roundVars, taskVars, progressVars, TypeOK, ListedWait, RoundsAreBounded
<1>9. CASE UNCHANGED vars
  BY <1>1, <1>9
  DEF vars, roundVars, taskVars, progressVars, TypeOK, ListedWait, RoundsAreBounded
<1> QED BY <1>2, <1>3, <1>4, <1>5, <1>6, <1>7, <1>8, <1>9 DEF Next

(* Every variable keeps its type, and only an account with a sync hangs, for *)
(* every number of accounts, workers and requests.                            *)
THEOREM EngineTypeCorrect == Spec => []TypeOK
<1>1. EngineInv => TypeOK
  BY DEF EngineInv
<1> QED BY InitEngineInv, NextEngineInv, <1>1, PTL DEF Spec

(* The lock of an account lets one sync through, whichever RunAll or request *)
(* started it, and the status the program shows is that of this sync.        *)
THEOREM OneSyncPerAccount == Spec => []StatusIsTrue
<1>1. EngineInv => StatusIsTrue
  <2> SUFFICES ASSUME EngineInv, NEW a \in Account
               PROVE  /\ Cardinality(Syncs(a)) <= 1
                      /\ Syncs(a) # {} => status[a] \in Busy
                      /\ Syncs(a) = {} => status[a] \notin Busy \/ stuck[a]
    BY DEF StatusIsTrue
  <2>1. Syncs(a) \subseteq {accountMu[a]}
    BY OneSyncAtATime DEF EngineInv
  <2>2. IsFiniteSet({accountMu[a]}) /\ Cardinality({accountMu[a]}) = 1
    BY FS_Singleton
  <2>3. Cardinality(Syncs(a)) <= 1
    BY <2>1, <2>2, FS_Subset
  <2>4. Syncs(a) # {} => status[a] \in Busy
    BY DEF Syncs, EngineInv, SyncHoldsLock
  <2> QED BY <2>3, <2>4 DEF EngineInv, StatusIsFinal
<1> QED BY InitEngineInv, NextEngineInv, <1>1, PTL DEF Spec

(* A RunAll never has more goroutines than it has slots, and it has none left *)
(* when it returns.                                                           *)
THEOREM WorkersAreBounded == Spec => []RoundsAreBounded
<1>1. EngineInv => RoundsAreBounded
  BY DEF EngineInv
<1> QED BY InitEngineInv, NextEngineInv, <1>1, PTL DEF Spec
=============================================================================
