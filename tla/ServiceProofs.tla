--------------------------- MODULE ServiceProofs ---------------------------
(***************************************************************************)
(* The invariants of the service, as theorems: for any number of requests, *)
(* failed statements and crashes.  What TypeOK leaves open is what a       *)
(* request holds between two statements; what the other invariants leave   *)
(* open is where it, or the start of the process, is when they matter.     *)
(***************************************************************************)
EXTENDS Service, TLAPS

(* What goes from one statement of a request to the next. *)
Update == (Role \cup {None}) \X {"active", "inactive", None}

(* What val holds: a result of an earlier statement, or what was asked. *)
Val == {None, "current", "spared", "done", "failed"}
         \cup AccountId \cup JobId \cup (JobId \X AccountId) \cup Update

(* The statements of Auth. *)
UserPc == {"storeCode", "createUser", "send", "useCode", "activate", "storeToken",
           "setPassword", "findUser", "revoke", "setRole", "setActive"}

(* The statements of Jobs. *)
JobPc == {"createAccount", "deleteAccount", "createJob", "updateJob", "deleteJob",
          "createRun", "execute", "updateRun"}

(* A request between two statements. *)
ReqState ==
    [op : {"none", "registration", "forgot_password", "login", "change", "update",
           "account", "job", "run"},
     pc : {"new", "over"} \cup UserPc \cup JobPc,
     sub : User \cup {None}, user : User \cup {None}, val : Val]

(* The fields that the statement a request has before it reads. *)
Prepared(r) ==
    /\ r.pc \in UserPc => r.user \in User
    /\ r.pc \in JobPc => r.sub \in User
    /\ r.pc \in {"new", "over"} => r.sub = None
    /\ r.pc = "storeCode" => r.op \in {"registration", "forgot_password"}
    /\ r.pc = "storeToken" => r.val \in {"current", "spared"}
    /\ r.pc \in {"setRole", "setActive"} => r.val \in Update
    /\ r.pc = "setRole" => r.val[1] \in Role
    /\ r.pc \in {"deleteAccount", "createJob"} => r.val \in AccountId
    /\ r.pc = "updateJob" => r.val \in JobId \X AccountId
    /\ r.pc \in {"deleteJob", "createRun"} => r.val \in JobId
    /\ r.pc = "updateRun" => r.val \in {"done", "failed"}

(* The type of the requests, with what each holds at its statement. *)
ReqTypeOK ==
    /\ req \in [Request -> ReqState]
    /\ \A q \in Request : Prepared(req[q])

(* The code of a registration is stored before the user. *)
CodesComeFirst ==
    /\ PendingHasCode
    /\ \A q \in Request : req[q].pc = "createUser" => \E c \in codes : c.id = q

(* Once there is an admin of an earlier release, every account has an owner. *)
Owned ==
    Root \in DOMAIN users /\ users[Root].by = None =>
        \A a \in DOMAIN accounts : accounts[a] # None

(* Where the start of the process is: the statements before it were run, the *)
(* files before it are recorded.                                             *)
FilesAreRun ==
    /\ \A v \in Version : recorded[v] # 0 => Statements(recorded[v]) \subseteq ran
    /\ boot.pc \in {"exec", "record"} => boot.file \in DOMAIN Files
    /\ boot.pc = "exec" =>
         /\ boot.stmt \in DOMAIN Files[boot.file].sql
         /\ \A i \in DOMAIN Files[boot.file].sql : i < boot.stmt => <<boot.file, i>> \in ran
    /\ boot.pc = "record" => Statements(boot.file) \subseteq ran
    /\ boot.pc \in {"check", "exec", "record"} =>
         \A f \in DOMAIN Files : f < boot.file => recorded[Files[f].version] # 0
    /\ boot.pc \in {"seed", "serving"} => \A v \in Version : recorded[v] # 0

(* A database without a record of 000003 has admins only and gets its owners *)
(* before the record; the server starts on a database that has an admin.     *)
StartIsInOrder ==
    /\ FilesAreRun
    /\ recorded[3] = 0 => \A u \in DOMAIN users : users[u].role = "admin"
    /\ recorded[3] # 0 \/ (boot.pc = "record" /\ boot.file = 4) => Owned
    /\ Up => Root \in DOMAIN users

(* The inductive invariant of the service. *)
SInv ==
    /\ TypeOK
    /\ ReqTypeOK
    /\ StartIsInOrder
    /\ OldSessionsEnd
    /\ CodesComeFirst
    /\ RunStatusIsTrue
    /\ ReferencesHold

-----------------------------------------------------------------------------
(* What a request holds. *)

(* A request that is done with, as a record. *)
LEMMA OverIs == Over = [op |-> "none", pc |-> "over", sub |-> None, user |-> None, val |-> None]
  BY DEF Over, Fresh

(* A request that goes on to a prepared state leaves the others prepared. *)
LEMMA ReqMoves ==
  ASSUME ReqTypeOK, NEW q \in Request, NEW r \in ReqState, Prepared(r),
         req' = [req EXCEPT ![q] = r]
  PROVE  ReqTypeOK'
<1>1. req' \in [Request -> ReqState]
  BY DEF ReqTypeOK
<1>2. \A p \in Request : req'[p] = IF p = q THEN r ELSE req[p]
  BY DEF ReqTypeOK
<1>3. \A p \in Request : Prepared(req'[p])
  BY <1>2 DEF ReqTypeOK
<1> QED BY <1>1, <1>3 DEF ReqTypeOK, Prepared

(* A request that is done with is prepared. *)
LEMMA EndKeeps ==
  ASSUME ReqTypeOK, NEW q \in Request, End(q)
  PROVE  ReqTypeOK'
<1>1. Over \in ReqState /\ Prepared(Over)
  BY OverIs DEF ReqState, Prepared, Val, UserPc, JobPc
<1> QED BY <1>1, ReqMoves DEF End, Starts

(* A request that begins holds what its first statement reads. *)
LEMMA RequestsStartPrepared ==
  ASSUME TypeOK, ReqTypeOK, NEW q \in Request, NEW u \in User,
         \/ Register(q, u) \/ ForgotPassword(q, u) \/ Login(q, u) \/ ChangePassword(q, u)
         \/ \E s \in User, role \in Role \cup {None}, active \in {"active", "inactive", None} :
              AdminUpdateUser(q, s, u, role, active)
         \/ CreateAccount(q, u)
         \/ \E a \in DOMAIN accounts :
              \/ DeleteAccount(q, u, a) \/ CreateJob(q, u, a)
              \/ \E j \in DOMAIN jobs : UpdateJob(q, u, j, a)
         \/ \E j \in DOMAIN jobs : DeleteJob(q, u, j) \/ Run(q, u, j)
  PROVE  ReqTypeOK'
<1> USE DEF Starts, ReqState, Prepared, UserPc, JobPc, Val
<1>1. CASE Register(q, u)
  BY <1>1, ReqMoves DEF Register, Ask
<1>2. CASE ForgotPassword(q, u)
  BY <1>2, ReqMoves DEF ForgotPassword, Ask
<1>3. CASE Login(q, u)
  BY <1>3, ReqMoves DEF Login, Ask
<1>4. CASE ChangePassword(q, u)
  BY <1>4, ReqMoves DEF ChangePassword, Ask
<1>5. ASSUME NEW s \in User, NEW role \in Role \cup {None},
             NEW active \in {"active", "inactive", None}, AdminUpdateUser(q, s, u, role, active)
      PROVE  ReqTypeOK'
  <2> DEFINE pc == IF role # None THEN "setRole" ELSE "setActive"
             r == [op |-> "update", pc |-> pc, sub |-> s, user |-> u, val |-> <<role, active>>]
  <2>1. req' = [req EXCEPT ![q] = r]
    <3>1. [Ask("update", pc, s, u) EXCEPT !.val = <<role, active>>] = r
      BY DEF Ask
    <3> QED BY <1>5, <3>1 DEF AdminUpdateUser
  <2>2. <<role, active>> \in Update /\ (pc = "setRole" => role \in Role)
    BY DEF Update
  <2>3. r \in ReqState /\ Prepared(r)
    BY <2>2
  <2> QED BY <2>1, <2>3, ReqMoves
<1>6. CASE CreateAccount(q, u)
  BY <1>6, ReqMoves DEF CreateAccount, JobAsk
<1>7. ASSUME NEW a \in DOMAIN accounts, DeleteAccount(q, u, a) \/ CreateJob(q, u, a)
      PROVE  ReqTypeOK'
  <2>1. a \in AccountId
    BY DEF TypeOK, DataTypeOK
  <2> QED BY <1>7, <2>1, ReqMoves DEF DeleteAccount, CreateJob, JobAsk
<1>8. ASSUME NEW a \in DOMAIN accounts, NEW j \in DOMAIN jobs, UpdateJob(q, u, j, a)
      PROVE  ReqTypeOK'
  <2>1. <<j, a>> \in JobId \X AccountId
    BY DEF TypeOK, DataTypeOK
  <2> QED BY <1>8, <2>1, ReqMoves DEF UpdateJob, JobAsk
<1>9. ASSUME NEW j \in DOMAIN jobs, DeleteJob(q, u, j) \/ Run(q, u, j) PROVE ReqTypeOK'
  <2>1. j \in JobId
    BY DEF TypeOK, DataTypeOK
  <2> QED BY <1>9, <2>1, ReqMoves DEF DeleteJob, Run, JobAsk
<1> QED BY <1>1, <1>2, <1>3, <1>4, <1>5, <1>6, <1>7, <1>8, <1>9

(* A statement that needs no more than the user may follow any of a user. *)
LEMMA UserGoes ==
  ASSUME ReqTypeOK, NEW q \in Request, req[q].pc \in UserPc,
         NEW pc \in {"createUser", "send", "activate", "setPassword", "revoke"}, Goto(q, pc)
  PROVE  ReqTypeOK'
<1> DEFINE r == [req[q] EXCEPT !.pc = pc]
<1>1. req[q] \in ReqState /\ Prepared(req[q])
  BY DEF ReqTypeOK
<1>2. r \in ReqState
  BY <1>1 DEF ReqState, UserPc
<1>3. r.pc = pc /\ r.user = req[q].user /\ r.sub = req[q].sub
  BY <1>1 DEF ReqState
<1>4. Prepared(r)
  <2> HIDE DEF r
  <2> QED BY <1>1, <1>3 DEF Prepared, UserPc, JobPc
<1> QED BY <1>2, <1>4, ReqMoves DEF Goto

(* A new password leaves every login prepared, and the request that set it. *)
LEMMA SupersedeKeeps ==
  ASSUME ReqTypeOK, NEW q \in Request, req[q].pc \in UserPc, NEW u,
         NEW pc \in {"revoke", "findUser"}, Supersede(q, u, pc)
  PROVE  /\ ReqTypeOK'
         /\ req'[q].pc = pc /\ req'[q].user = req[q].user
         /\ \A r \in Request \ {q} :
              /\ req'[r].pc = req[r].pc /\ req'[r].user = req[r].user
              /\ req'[r] = req[r] \/ req[r].pc = "storeToken"
<1> DEFINE s == [req[q] EXCEPT !.pc = pc, !.val = None]
           p(r) == [req[r] EXCEPT !.val = "spared"]
<1>1. \A r \in Request : req[r] \in ReqState /\ Prepared(req[r])
  BY DEF ReqTypeOK
<1>2. /\ s \in ReqState /\ s.pc = pc
      /\ s.user = req[q].user /\ s.sub = req[q].sub
  BY <1>1 DEF ReqState, Val, UserPc
<1>3. Prepared(s)
  <2> HIDE DEF s
  <2> QED BY <1>1, <1>2 DEF Prepared, UserPc, JobPc
<1>4. ASSUME NEW r \in Request, req[r].pc = "storeToken"
      PROVE  /\ p(r) \in ReqState /\ Prepared(p(r))
             /\ p(r).pc = req[r].pc /\ p(r).user = req[r].user
  <2>1. req[r] \in ReqState /\ Prepared(req[r])
    BY <1>1
  <2>2. /\ p(r) \in ReqState /\ p(r).pc = "storeToken" /\ p(r).val = "spared"
        /\ p(r).user = req[r].user
    BY <2>1, <1>4 DEF ReqState, Val
  <2>3. Prepared(p(r))
    <3> HIDE DEF p
    <3> QED BY <2>1, <2>2, <1>4 DEF Prepared, UserPc, JobPc
  <2> QED BY <2>2, <2>3, <1>4
<1>5. req' = [r \in Request |-> IF r = q THEN s
                               ELSE IF req[r].pc = "storeToken" /\ req[r].user = u
                                 THEN p(r) ELSE req[r]]
  BY DEF Supersede
<1> HIDE DEF s, p
<1>6. \A r \in Request : req'[r] \in ReqState /\ Prepared(req'[r])
  BY <1>1, <1>2, <1>3, <1>4, <1>5
<1>7. ReqTypeOK'
  BY <1>5, <1>6 DEF ReqTypeOK, Prepared
<1> QED BY <1>2, <1>4, <1>5, <1>7

(* Every other statement of Auth leaves each request ready for its next. *)
LEMMA AuthKeepsRequests ==
  ASSUME TypeOK, ReqTypeOK, NEW q \in Request, AuthStep(q)
  PROVE  ReqTypeOK'
<1>1. req[q] \in ReqState /\ Prepared(req[q])
  BY DEF ReqTypeOK
<1>2. ASSUME NEW c \in codes, SubmitCode(q, c) PROVE ReqTypeOK'
  <2> DEFINE r == [op |-> c.type, pc |-> "useCode", sub |-> None, user |-> c.user, val |-> c.id]
  <2>1. c.type \in {"registration", "forgot_password"} /\ c.user \in User /\ c.id \in Request
    BY DEF TypeOK, DataTypeOK
  <2>2. req' = [req EXCEPT ![q] = r]
    <3>1. [Ask(c.type, "useCode", None, c.user) EXCEPT !.val = c.id] = r
      BY DEF Ask
    <3> QED BY <1>2, <3>1 DEF SubmitCode, Starts
  <2>3. r \in ReqState /\ Prepared(r)
    BY <2>1 DEF ReqState, Prepared, UserPc, JobPc, Val, AccountId
  <2> QED BY <2>2, <2>3, ReqMoves
<1>3. ASSUME NEW t \in tokens, Logout(q, t) PROVE ReqTypeOK'
  BY <1>3, EndKeeps DEF Logout
<1>4. CASE StoreCode(q)
  BY <1>4, UserGoes DEF StoreCode, At, UserPc
<1>5. CASE StoreCodeFails(q)
  BY <1>5, UserGoes, EndKeeps DEF StoreCodeFails, At, UserPc
<1>6. CASE CreatePending(q)
  BY <1>6, UserGoes, EndKeeps DEF CreatePending, At, UserPc
<1>7. CASE SendCode(q)
  BY <1>7, EndKeeps DEF SendCode
<1>8. CASE UseCode(q)
  BY <1>8, UserGoes DEF UseCode, At, UserPc
<1>9. CASE Activate(q) \/ StoreToken(q) \/ Revoke(q) \/ RevokeFails(q) \/ AuthFails(q)
  BY <1>9, EndKeeps DEF Activate, StoreToken, Revoke, RevokeFails, AuthFails, Fails
<1>10. CASE SetPassword(q)
  BY <1>10, SupersedeKeeps DEF SetPassword, At, UserPc
<1>11. CASE FindUser(q)
  BY <1>11, UserGoes, EndKeeps DEF FindUser, At, UserPc
<1>12. CASE SetRole(q)
  <2>1. CASE End(q)
    BY <2>1, EndKeeps
  <2>2. CASE Goto(q, "setActive")
    <3> DEFINE r == [req[q] EXCEPT !.pc = "setActive"]
    <3>1. r \in ReqState
      BY <1>1 DEF ReqState, UserPc
    <3>2. r.pc = "setActive" /\ r.user = req[q].user /\ r.val = req[q].val
      BY <1>1 DEF ReqState
    <3>3. Prepared(r)
      <4> HIDE DEF r
      <4> QED BY <1>1, <1>12, <3>2 DEF SetRole, At, Prepared, UserPc, JobPc
    <3> QED BY <2>2, <3>1, <3>3, ReqMoves DEF Goto
  <2> QED BY <1>12, <2>1, <2>2 DEF SetRole
<1>13. CASE SetActive(q)
  BY <1>13, SupersedeKeeps, EndKeeps DEF SetActive, At, UserPc
<1> QED BY <1>2, <1>3, <1>4, <1>5, <1>6, <1>7, <1>8, <1>9, <1>10, <1>11, <1>12, <1>13,
           RequestsStartPrepared DEF AuthStep

(* And so does every statement of Jobs. *)
LEMMA JobKeepsRequests ==
  ASSUME TypeOK, ReqTypeOK, NEW q \in Request, JobStep(q)
  PROVE  ReqTypeOK'
<1>1. req[q] \in ReqState /\ Prepared(req[q])
  BY DEF ReqTypeOK
<1>2. CASE InsertAccount(q) \/ DeleteAccountRow(q) \/ InsertJob(q) \/ UpdateJobRow(q)
             \/ DeleteJobRow(q) \/ JobFails(q)
  BY <1>2, EndKeeps
     DEF InsertAccount, DeleteAccountRow, InsertJob, UpdateJobRow, DeleteJobRow, JobFails, Fails
<1>3. CASE CreateRun(q)
  <2>1. CASE End(q)
    BY <2>1, EndKeeps
  <2>2. CASE req' = [req EXCEPT ![q].pc = "execute", ![q].val = None]
    <3> DEFINE r == [req[q] EXCEPT !.pc = "execute", !.val = None]
    <3>1. req' = [req EXCEPT ![q] = r]
      BY <1>1, <2>2 DEF ReqTypeOK, ReqState
    <3>2. r \in ReqState /\ r.pc = "execute" /\ r.sub = req[q].sub
      BY <1>1 DEF ReqState, Val, JobPc
    <3>3. Prepared(r)
      <4> HIDE DEF r
      <4> QED BY <1>1, <1>3, <3>2 DEF CreateRun, At, Prepared, UserPc, JobPc
    <3> QED BY <3>1, <3>2, <3>3, ReqMoves
  <2> QED BY <1>3, <2>1, <2>2 DEF CreateRun
<1>4. ASSUME NEW outcome \in {"done", "failed"}, Execute(q, outcome) PROVE ReqTypeOK'
  <2> DEFINE r == [req[q] EXCEPT !.pc = "updateRun", !.val = outcome]
  <2>1. req' = [req EXCEPT ![q] = r]
    BY <1>1, <1>4 DEF ReqTypeOK, ReqState, Execute
  <2>2. r \in ReqState /\ r.pc = "updateRun" /\ r.sub = req[q].sub /\ r.val = outcome
    BY <1>1 DEF ReqState, Val, JobPc
  <2>3. Prepared(r)
    <3> HIDE DEF r
    <3> QED BY <1>1, <1>4, <2>2 DEF Execute, At, Prepared, UserPc, JobPc
  <2> QED BY <2>1, <2>2, <2>3, ReqMoves
<1>5. CASE UpdateRun(q)
  <2> DEFINE r == [req[q] EXCEPT !.pc = "over", !.sub = None]
  <2>1. req' = [req EXCEPT ![q] = r]
    BY <1>1, <1>5 DEF ReqTypeOK, ReqState, UpdateRun
  <2>2. r \in ReqState /\ r.pc = "over" /\ r.sub = None
    BY <1>1 DEF ReqState
  <2>3. Prepared(r)
    <3> HIDE DEF r
    <3> QED BY <2>2 DEF Prepared, UserPc, JobPc
  <2> QED BY <2>1, <2>2, <2>3, ReqMoves
<1> QED BY <1>2, <1>3, <1>4, <1>5, RequestsStartPrepared DEF JobStep

-----------------------------------------------------------------------------
(* Which statement writes which table. *)

(* A request of Auth writes users, user_tokens, user_otps and the mailbox. *)
LEMMA AuthWrites ==
  ASSUME NEW q \in Request, AuthStep(q)
  PROVE  /\ UNCHANGED jobVars
         /\ failures' = failures \/ Failure
         /\ UNCHANGED users \/ CreatePending(q) \/ Activate(q) \/ SetRole(q) \/ SetActive(q)
         /\ \/ UNCHANGED tokens
            \/ \E t \in tokens : Logout(q, t)
            \/ StoreToken(q) \/ SetPassword(q) \/ FindUser(q) \/ Revoke(q) \/ RevokeFails(q)
            \/ SetActive(q)
         /\ UNCHANGED codes \/ StoreCode(q) \/ UseCode(q)
         /\ UNCHANGED received \/ SendCode(q)
<1> DEFINE Begins(u) ==
             \/ Register(q, u) \/ ForgotPassword(q, u) \/ Login(q, u) \/ ChangePassword(q, u)
             \/ \E s \in User, role \in Role \cup {None}, active \in {"active", "inactive", None} :
                  AdminUpdateUser(q, s, u, role, active)
<1>1. ASSUME NEW u \in User, Begins(u) PROVE UNCHANGED <<authVars, jobVars, failures>>
  BY <1>1 DEF Register, ForgotPassword, Login, ChangePassword, AdminUpdateUser
<1>2. ASSUME NEW c \in codes, SubmitCode(q, c) PROVE UNCHANGED <<authVars, jobVars, failures>>
  BY <1>2 DEF SubmitCode
<1>3. CASE AuthFails(q)
  BY <1>3 DEF AuthFails, Fails, authVars
<1>4. CASE StoreCodeFails(q)
  BY <1>4 DEF StoreCodeFails, authVars
<1>5. CASE StoreCode(q) \/ UseCode(q) \/ SendCode(q)
  BY <1>5 DEF StoreCode, UseCode, SendCode
<1>6. CASE CreatePending(q) \/ Activate(q) \/ SetRole(q)
  BY <1>6 DEF CreatePending, Activate, SetRole
<1>7. CASE SetActive(q)
  BY <1>7 DEF SetActive
<1>8. CASE (\E t \in tokens : Logout(q, t)) \/ StoreToken(q) \/ SetPassword(q)
             \/ FindUser(q) \/ Revoke(q)
  BY <1>8 DEF Logout, StoreToken, SetPassword, FindUser, Revoke
<1>9. CASE RevokeFails(q)
  BY <1>9 DEF RevokeFails
<1>10. CASE \E u \in User : Begins(u)
  BY <1>1, <1>10 DEF authVars
<1>11. CASE \E c \in codes : SubmitCode(q, c)
  BY <1>2, <1>11 DEF authVars
<1> QED BY <1>3, <1>4, <1>5, <1>6, <1>7, <1>8, <1>9, <1>10, <1>11 DEF AuthStep

(* A request of Jobs writes mail_accounts, cleanup_jobs and cleanup_job_runs. *)
LEMMA JobWrites ==
  ASSUME NEW q \in Request, JobStep(q)
  PROVE  /\ UNCHANGED authVars
         /\ failures' = failures \/ Failure
         /\ UNCHANGED accounts \/ InsertAccount(q) \/ DeleteAccountRow(q)
         /\ UNCHANGED jobs \/ DeleteAccountRow(q) \/ InsertJob(q) \/ UpdateJobRow(q)
              \/ DeleteJobRow(q)
         /\ UNCHANGED runs \/ DeleteJobRow(q) \/ CreateRun(q) \/ UpdateRun(q)
         /\ UNCHANGED loose \/ \E enforced \in BOOLEAN : Connection(enforced)
<1> DEFINE Begins(u) ==
             \/ CreateAccount(q, u)
             \/ \E a \in DOMAIN accounts :
                  \/ DeleteAccount(q, u, a) \/ CreateJob(q, u, a)
                  \/ \E j \in DOMAIN jobs : UpdateJob(q, u, j, a)
             \/ \E j \in DOMAIN jobs : DeleteJob(q, u, j) \/ Run(q, u, j)
<1>1. ASSUME NEW u \in User, Begins(u) PROVE UNCHANGED <<authVars, jobVars, failures>>
  BY <1>1 DEF CreateAccount, DeleteAccount, CreateJob, UpdateJob, DeleteJob, Run
<1>2. CASE \E u \in User : Begins(u)
  BY <1>1, <1>2 DEF jobVars
<1>3. CASE JobFails(q)
  BY <1>3 DEF JobFails, Fails, jobVars
<1>4. CASE InsertAccount(q)
  BY <1>4 DEF InsertAccount
<1>5. CASE DeleteAccountRow(q)
  BY <1>5 DEF DeleteAccountRow
<1>6. CASE InsertJob(q) \/ UpdateJobRow(q)
  BY <1>6 DEF InsertJob, UpdateJobRow
<1>7. CASE DeleteJobRow(q)
  BY <1>7 DEF DeleteJobRow
<1>8. CASE CreateRun(q)
  BY <1>8 DEF CreateRun
<1>9. CASE UpdateRun(q)
  BY <1>9 DEF UpdateRun
<1>10. CASE \E outcome \in {"done", "failed"} : Execute(q, outcome)
  BY <1>10 DEF Execute, jobVars
<1> QED BY <1>2, <1>3, <1>4, <1>5, <1>6, <1>7, <1>8, <1>9, <1>10 DEF JobStep

(* The start of the process, seed and a crash write what is left. *)
LEMMA BootWrites ==
  ASSUME BootNext
  PROVE  /\ UNCHANGED <<codes, received, jobs, runs, loose, failures>>
         /\ UNCHANGED users \/ SeedAdmin \/ SeedForce
         /\ UNCHANGED accounts \/ ApplyStatement
         /\ UNCHANGED <<tokens, req>> \/ Crash
  BY DEF BootNext, Open, CheckMigration, ApplyStatement, ApplyRefused, RecordMigration,
         MigrationsDone, SeedAdmin, SeedForce, Crash, dataVars, authVars, jobVars

(* A step is the process's, or of one request, or a code expires. *)
LEMMA StepOf ==
  ASSUME [Next]_vars
  PROVE  \/ UNCHANGED vars
         \/ BootNext
         \/ Up /\ UNCHANGED bootVars /\ \E q \in Request : AuthStep(q)
         \/ Up /\ UNCHANGED bootVars /\ \E c \in codes : CodeExpires(c)
         \/ Up /\ UNCHANGED bootVars /\ \E q \in Request : JobStep(q)
  BY DEF Next, AuthNext

-----------------------------------------------------------------------------
(* How requests move. *)

(* Nothing of another request changes, but that a login may be spared. *)
Others(q) ==
    \A r \in Request \ {q} :
        /\ req'[r].pc = req[r].pc /\ req'[r].user = req[r].user
        /\ req'[r] = req[r] \/ req[r].pc = "storeToken"

(* A step of a request leaves the others where they are. *)
LEMMA MovesOne ==
  ASSUME ReqTypeOK, NEW q \in Request, NEW s, req' = [req EXCEPT ![q] = s]
  PROVE  Others(q) /\ req'[q] = s
  BY DEF ReqTypeOK, Others

(* One that ends holds nothing any more. *)
LEMMA EndMoves ==
  ASSUME ReqTypeOK, NEW q \in Request, End(q)
  PROVE  Others(q) /\ req'[q] = Over /\ Over.pc = "over" /\ Over.val = None
  BY MovesOne, OverIs DEF End

(* One that goes on holds what it held. *)
LEMMA GotoMoves ==
  ASSUME ReqTypeOK, NEW q \in Request, NEW pc, Goto(q, pc)
  PROVE  Others(q) /\ req'[q].pc = pc /\ req'[q].user = req[q].user /\ req'[q].val = req[q].val
<1> DEFINE s == [req[q] EXCEPT !.pc = pc]
<1>1. req' = [req EXCEPT ![q] = s]
  BY DEF Goto
<1>2. s.pc = pc /\ s.user = req[q].user /\ s.val = req[q].val
  BY DEF ReqTypeOK, ReqState
<1> HIDE DEF s
<1> QED BY <1>1, <1>2, MovesOne

(* A statement of Auth moves one request, that was not done with. *)
LEMMA AuthMoves ==
  ASSUME ReqTypeOK, NEW q \in Request, AuthStep(q)
  PROVE  /\ Others(q)
         /\ req[q].pc # "over"
         /\ req'[q].pc = "over" => req'[q].val = None
         /\ req'[q].pc = "createUser" => StoreCode(q)
         /\ req[q].pc \in {"findUser", "revoke"} => FindUser(q) \/ Revoke(q) \/ RevokeFails(q)
<1> DEFINE Begins(u) ==
             \/ Register(q, u) \/ ForgotPassword(q, u) \/ Login(q, u) \/ ChangePassword(q, u)
             \/ \E s \in User, role \in Role \cup {None}, active \in {"active", "inactive", None} :
                  AdminUpdateUser(q, s, u, role, active)
           Ends == /\ Others(q)
                   /\ req'[q].pc = "over" /\ req'[q].val = None
           Goes == /\ Others(q)
                   /\ req'[q].pc \in {"send", "activate", "setPassword", "revoke", "findUser",
                                      "setActive"}
<1>0. req[q] \in ReqState
  BY DEF ReqTypeOK
<1>1. ASSUME NEW u \in User, Begins(u)
      PROVE  Others(q) /\ req[q].pc = "new" /\ req'[q].pc \notin {"over", "createUser"}
  <2>1. CASE Register(q, u) \/ ForgotPassword(q, u) \/ Login(q, u) \/ ChangePassword(q, u)
    BY <2>1, MovesOne DEF Register, ForgotPassword, Login, ChangePassword, Starts, Ask, New
  <2>2. ASSUME NEW s \in User, NEW role \in Role \cup {None},
               NEW active \in {"active", "inactive", None}, AdminUpdateUser(q, s, u, role, active)
        PROVE  Others(q) /\ req[q].pc = "new" /\ req'[q].pc \notin {"over", "createUser"}
    <3> DEFINE pc == IF role # None THEN "setRole" ELSE "setActive"
               x == [Ask("update", pc, s, u) EXCEPT !.val = <<role, active>>]
    <3>1. req' = [req EXCEPT ![q] = x] /\ req[q].pc = "new"
      BY <2>2 DEF AdminUpdateUser, Starts, New
    <3>2. x.pc = pc
      BY DEF Ask
    <3> HIDE DEF x
    <3> QED BY <3>1, <3>2, MovesOne
  <2> QED BY <1>1, <2>1, <2>2
<1>2. ASSUME NEW c \in codes, SubmitCode(q, c)
      PROVE  Others(q) /\ req[q].pc = "new" /\ req'[q].pc \notin {"over", "createUser"}
  <2> DEFINE x == [Ask(c.type, "useCode", None, c.user) EXCEPT !.val = c.id]
  <2>1. req' = [req EXCEPT ![q] = x] /\ req[q].pc = "new"
    BY <1>2 DEF SubmitCode, Starts, New
  <2>2. x.pc = "useCode"
    BY DEF Ask
  <2> HIDE DEF x
  <2> QED BY <2>1, <2>2, MovesOne
<1>3. ASSUME NEW t \in tokens, Logout(q, t) PROVE req[q].pc = "new" /\ Ends
  BY <1>3, EndMoves DEF Logout, New
<1>4. CASE StoreCode(q)
  BY <1>4, GotoMoves DEF StoreCode, At
<1>5. CASE StoreCodeFails(q)
  <2>1. req[q].pc = "storeCode" /\ (Ends \/ Goes)
    BY <1>5, GotoMoves, EndMoves DEF StoreCodeFails, At
  <2> QED BY <2>1
<1>6. CASE CreatePending(q)
  <2>1. req[q].pc = "createUser" /\ (Ends \/ Goes)
    BY <1>6, GotoMoves, EndMoves DEF CreatePending, At
  <2> QED BY <2>1
<1>7. CASE SendCode(q) \/ Activate(q) \/ StoreToken(q) \/ AuthFails(q)
  <2>1. req[q].pc \notin {"over", "findUser", "revoke"} /\ Ends
    BY <1>7, EndMoves DEF SendCode, Activate, StoreToken, AuthFails, Fails, At
  <2> QED BY <2>1
<1>8. CASE UseCode(q)
  <2>1. req[q].pc = "useCode" /\ Goes
    BY <1>8, GotoMoves DEF UseCode, At
  <2> QED BY <2>1
<1>9. CASE SetPassword(q)
  <2>1. req[q].pc = "setPassword" /\ Goes
    BY <1>9, SupersedeKeeps DEF SetPassword, At, UserPc, Others
  <2> QED BY <2>1
<1>10. CASE FindUser(q) \/ Revoke(q) \/ RevokeFails(q)
  <2>1. req[q].pc \in {"findUser", "revoke"} /\ (Ends \/ Goes)
    BY <1>10, GotoMoves, EndMoves DEF FindUser, Revoke, RevokeFails, At
  <2> QED BY <1>10, <2>1
<1>11. CASE SetRole(q)
  <2>1. req[q].pc = "setRole" /\ (Ends \/ Goes)
    BY <1>11, GotoMoves, EndMoves DEF SetRole, At
  <2> QED BY <2>1
<1>12. CASE SetActive(q)
  <2>1. req[q].pc = "setActive" /\ (Ends \/ Goes)
    BY <1>12, EndMoves, SupersedeKeeps DEF SetActive, At, UserPc, Others
  <2> QED BY <2>1
<1> QED BY <1>1, <1>2, <1>3, <1>4, <1>5, <1>6, <1>7, <1>8, <1>9, <1>10, <1>11, <1>12
        DEF AuthStep

(* A statement of Jobs does, too; only UpdateRun leaves the outcome behind. *)
LEMMA JobMoves ==
  ASSUME ReqTypeOK, NEW q \in Request, JobStep(q)
  PROVE  /\ Others(q)
         /\ req[q].pc \notin {"over", "findUser", "revoke"}
         /\ req'[q].pc = "over" => UpdateRun(q) \/ req'[q].val = None
         /\ req'[q].pc # "createUser"
<1> DEFINE Begins(u) ==
             \/ CreateAccount(q, u)
             \/ \E a \in DOMAIN accounts :
                  \/ DeleteAccount(q, u, a) \/ CreateJob(q, u, a)
                  \/ \E j \in DOMAIN jobs : UpdateJob(q, u, j, a)
             \/ \E j \in DOMAIN jobs : DeleteJob(q, u, j) \/ Run(q, u, j)
           Ends == Others(q) /\ req'[q].pc = "over" /\ req'[q].val = None
<1>0. req[q] \in ReqState
  BY DEF ReqTypeOK
<1>1. ASSUME NEW u \in User, Begins(u)
      PROVE  Others(q) /\ req[q].pc = "new" /\ req'[q].pc \notin {"over", "createUser"}
  BY <1>1, MovesOne
     DEF CreateAccount, DeleteAccount, CreateJob, UpdateJob, DeleteJob, Run, Starts, JobAsk, New
<1>2. CASE InsertAccount(q) \/ DeleteAccountRow(q) \/ InsertJob(q) \/ UpdateJobRow(q)
             \/ DeleteJobRow(q) \/ JobFails(q)
  <2>1. Ends
    BY <1>2, EndMoves DEF InsertAccount, DeleteAccountRow, InsertJob, UpdateJobRow,
                          DeleteJobRow, JobFails, Fails
  <2>2. req[q].pc \notin {"over", "findUser", "revoke"}
    BY <1>2 DEF InsertAccount, DeleteAccountRow, InsertJob, UpdateJobRow, DeleteJobRow,
                JobFails, At
  <2> QED BY <2>1, <2>2
<1>3. CASE CreateRun(q)
  <2>1. CASE End(q)
    BY <1>3, <2>1, EndMoves DEF CreateRun, At
  <2>2. CASE req' = [req EXCEPT ![q].pc = "execute", ![q].val = None]
    <3> DEFINE r == [req[q] EXCEPT !.pc = "execute", !.val = None]
    <3>1. req' = [req EXCEPT ![q] = r]
      BY <1>0, <2>2 DEF ReqTypeOK, ReqState
    <3>2. r.pc = "execute"
      BY <1>0 DEF ReqState
    <3> HIDE DEF r
    <3> QED BY <1>3, <3>1, <3>2, MovesOne DEF CreateRun, At
  <2> QED BY <1>3, <2>1, <2>2 DEF CreateRun
<1>4. ASSUME NEW outcome \in {"done", "failed"}, Execute(q, outcome)
      PROVE  Others(q) /\ req[q].pc = "execute" /\ req'[q].pc = "updateRun"
  <2> DEFINE r == [req[q] EXCEPT !.pc = "updateRun", !.val = outcome]
  <2>1. req' = [req EXCEPT ![q] = r]
    BY <1>0, <1>4 DEF ReqTypeOK, ReqState, Execute
  <2>2. r.pc = "updateRun"
    BY <1>0 DEF ReqState
  <2> HIDE DEF r
  <2> QED BY <1>4, <2>1, <2>2, MovesOne DEF Execute, At
<1>5. CASE UpdateRun(q)
  <2> DEFINE r == [req[q] EXCEPT !.pc = "over", !.sub = None]
  <2>1. req' = [req EXCEPT ![q] = r]
    BY <1>0, <1>5 DEF ReqTypeOK, ReqState, UpdateRun
  <2>2. r.pc = "over"
    BY <1>0 DEF ReqState
  <2> HIDE DEF r
  <2> QED BY <1>5, <2>1, <2>2, MovesOne DEF UpdateRun, At
<1> QED BY <1>1, <1>2, <1>3, <1>4, <1>5 DEF JobStep

-----------------------------------------------------------------------------
(* The rows of the tables. *)

(* The rows of users. *)
UserRows == [role : Role, active : BOOLEAN, by : {None, "seed"} \cup Request]
UsersOK == DOMAIN users \subseteq User /\ users \in [DOMAIN users -> UserRows]

(* users: a user who is there stays, as the one that was inserted. *)
LEMMA UsersKept ==
  ASSUME TypeOK, ReqTypeOK, [Next]_vars
  PROVE  /\ UsersOK'
         /\ \A u \in DOMAIN users : u \in DOMAIN users' /\ users'[u].by = users[u].by
         /\ \A u \in DOMAIN users' \ DOMAIN users :
              \/ SeedAdmin /\ users'[u].by = "seed"
              \/ \E q \in Request : CreatePending(q) /\ users'[u].by = q
<1> DEFINE Goal == /\ UsersOK'
                   /\ \A u \in DOMAIN users : u \in DOMAIN users' /\ users'[u].by = users[u].by
                   /\ \A u \in DOMAIN users' \ DOMAIN users :
                        \/ SeedAdmin /\ users'[u].by = "seed"
                        \/ \E q \in Request : CreatePending(q) /\ users'[u].by = q
<1>0. UsersOK
  BY DEF TypeOK, DataTypeOK, UsersOK, UserRows
<1>1. CASE UNCHANGED users
  BY <1>0, <1>1 DEF UsersOK, UserRows
<1>2. ASSUME NEW u \in User, NEW row \in UserRows, u \notin DOMAIN users,
             users' = With(users, u, row),
             \/ SeedAdmin /\ row.by = "seed"
             \/ \E q \in Request : CreatePending(q) /\ row.by = q
      PROVE  Goal
  <2>1. /\ DOMAIN users' = DOMAIN users \cup {u}
        /\ users' \in [DOMAIN users' -> UserRows]
        /\ users'[u] = row
        /\ \A y \in DOMAIN users : y # u => users'[y] = users[y]
    <3> DEFINE w == With(users, u, row)
    <3>1. users \in [DOMAIN users -> UserRows] /\ row \in UserRows
      BY <1>0, <1>2 DEF UsersOK
    <3>2. /\ DOMAIN w = DOMAIN users \cup {u}
          /\ w \in [DOMAIN w -> UserRows]
          /\ w[u] = row
          /\ \A y \in DOMAIN users : y # u => w[y] = users[y]
      BY <3>1 DEF With
    <3>3. users' = w
      BY <1>2
    <3> HIDE DEF w
    <3> QED BY <3>2, <3>3
  <2> QED BY <1>0, <1>2, <2>1 DEF UsersOK, UserRows
<1>3. ASSUME NEW u \in DOMAIN users, NEW row \in UserRows, users' = [users EXCEPT ![u] = row],
             row.by = users[u].by
      PROVE  Goal
  BY <1>0, <1>3 DEF UsersOK, UserRows
<1>4. ASSUME NEW q \in Request, CreatePending(q) PROVE Goal
  <2> DEFINE row == [role |-> "user", active |-> FALSE, by |-> q]
  <2>1. row \in UserRows /\ row.by = q
    BY DEF UserRows, Role
  <2>2. req[q].user \in User
    BY <1>4 DEF CreatePending, At, ReqTypeOK, Prepared, UserPc
  <2>3. UNCHANGED users \/ (req[q].user \notin DOMAIN users /\ users' = With(users, req[q].user, row))
    BY <1>4 DEF CreatePending
  <2> HIDE DEF row
  <2> QED BY <1>1, <1>2, <1>4, <2>1, <2>2, <2>3
<1>5. ASSUME NEW u \in DOMAIN users, NEW b \in BOOLEAN, users' = [users EXCEPT ![u].active = b]
      PROVE  Goal
  <2> DEFINE row == [users[u] EXCEPT !.active = b]
  <2>1. row \in UserRows /\ row.by = users[u].by
    BY <1>0 DEF UsersOK, UserRows
  <2>2. users' = [users EXCEPT ![u] = row]
    BY <1>5
  <2> HIDE DEF row
  <2> QED BY <1>3, <2>1, <2>2
<1>6. ASSUME NEW q \in Request, Activate(q) PROVE Goal
  BY <1>1, <1>5, <1>6 DEF Activate
<1>7. ASSUME NEW q \in Request, SetRole(q) PROVE Goal
  <2>1. CASE UNCHANGED users
    BY <1>1, <2>1
  <2>2. CASE ~UNCHANGED users
    <3> DEFINE u == req[q].user
               row == [users[u] EXCEPT !.role = req[q].val[1]]
    <3>1. u \in DOMAIN users /\ users' = [users EXCEPT ![u] = row]
      BY <1>7, <2>2 DEF SetRole
    <3>2. req[q].val[1] \in Role
      BY <1>7 DEF SetRole, At, ReqTypeOK, Prepared
    <3>3. row \in UserRows /\ row.by = users[u].by
      BY <1>0, <3>1, <3>2 DEF UsersOK, UserRows
    <3> HIDE DEF row
    <3> QED BY <1>3, <3>1, <3>3
  <2> QED BY <2>1, <2>2
<1>8. ASSUME NEW q \in Request, SetActive(q) PROVE Goal
  BY <1>1, <1>5, <1>8 DEF SetActive
<1>9. CASE SeedAdmin
  <2>1. AdminRow \in UserRows /\ AdminRow.by = "seed" /\ Root \in User
    BY DEF AdminRow, UserRows, Role, User
  <2>2. UNCHANGED users \/ (Root \notin DOMAIN users /\ users' = With(users, Root, AdminRow))
    BY <1>9 DEF SeedAdmin
  <2> QED BY <1>1, <1>2, <1>9, <2>1, <2>2
<1>10. CASE SeedForce
  <2> DEFINE mid == [users[Root] EXCEPT !.role = "admin"]
             row == [mid EXCEPT !.active = TRUE]
  <2>1. Root \in DOMAIN users /\ users[Root] \in UserRows
    BY <1>0, <1>10 DEF SeedForce, UsersOK
  <2>2. mid \in UserRows /\ mid.by = users[Root].by
    BY <2>1 DEF UserRows, Role
  <2>3. row \in UserRows /\ row.by = mid.by
    <3> HIDE DEF mid
    <3> QED BY <2>2 DEF UserRows
  <2>4. users' = [users EXCEPT ![Root] = row]
    BY <1>10, <2>1 DEF SeedForce
  <2> HIDE DEF row, mid
  <2> QED BY <1>3, <2>1, <2>2, <2>3, <2>4
<1>11. \/ UNCHANGED users \/ SeedAdmin \/ SeedForce
       \/ \E q \in Request : CreatePending(q) \/ Activate(q) \/ SetRole(q) \/ SetActive(q)
  BY StepOf, AuthWrites, JobWrites, BootWrites
     DEF vars, dataVars, authVars, CodeExpires
<1> QED BY <1>1, <1>4, <1>6, <1>7, <1>8, <1>9, <1>10, <1>11

(* The rows of user_tokens. *)
TokenRows == [id : User \cup Request, user : User, epoch : {"current", "old", "spared"}]

(* A session stays its user's, whatever becomes of it. *)
LEMMA EpochIs ==
  ASSUME NEW t \in TokenRows, NEW e \in {"current", "old", "spared"}
  PROVE  /\ [t EXCEPT !.epoch = e] \in TokenRows
         /\ [t EXCEPT !.epoch = e].user = t.user
         /\ [t EXCEPT !.epoch = e].epoch = e
  BY DEF TokenRows

(* user_tokens: a set password makes sessions old, or spares them. *)
LEMMA TokensKept ==
  ASSUME TypeOK, ReqTypeOK, [Next]_vars
  PROVE  tokens' \subseteq TokenRows
<1>0. tokens \subseteq TokenRows
  BY DEF TypeOK, DataTypeOK, TokenRows
<1>1. ASSUME NEW q \in Request, StoreToken(q) PROVE tokens' \subseteq TokenRows
  <2>1. req[q].user \in User /\ req[q].val \in {"current", "spared"}
    BY <1>1 DEF StoreToken, At, ReqTypeOK, Prepared, UserPc
  <2> QED BY <1>0, <1>1, <2>1 DEF StoreToken, TokenRows
<1>2. ASSUME NEW q \in Request, NEW u, NEW pc, Supersede(q, u, pc) PROVE tokens' \subseteq TokenRows
  BY <1>0, <1>2, EpochIs DEF Supersede
<1>3. ASSUME NEW u, Spare(u) PROVE tokens' \subseteq TokenRows
  BY <1>0, <1>3, EpochIs DEF Spare
<1>4. ASSUME NEW q \in Request,
             \/ \E t \in tokens : Logout(q, t)
             \/ SetPassword(q) \/ FindUser(q) \/ Revoke(q) \/ RevokeFails(q) \/ SetActive(q)
      PROVE  tokens' \subseteq TokenRows
  <2>1. \/ tokens' \subseteq tokens
        \/ \E u, pc : Supersede(q, u, pc)
        \/ \E u : Spare(u)
    <3>1. CASE \E t \in tokens : Logout(q, t)
      BY <3>1 DEF Logout
    <3>2. CASE SetPassword(q)
      BY <3>2 DEF SetPassword
    <3>3. CASE FindUser(q) \/ Revoke(q) \/ RevokeFails(q)
      BY <3>3 DEF FindUser, Revoke, RevokeFails
    <3>4. CASE SetActive(q)
      BY <3>4 DEF SetActive
    <3> QED BY <1>4, <3>1, <3>2, <3>3, <3>4
  <2> QED BY <1>0, <1>2, <1>3, <2>1
<1>5. CASE Crash
  <2>1. ASSUME NEW t \in tokens
        PROVE  [t EXCEPT !.epoch = IF t.epoch = "old" THEN "spared" ELSE t.epoch] \in TokenRows
    <3>1. t \in TokenRows /\ t.epoch \in {"current", "old", "spared"}
      BY <1>0 DEF TokenRows
    <3> QED BY <3>1, EpochIs
  <2>2. tokens' = {[t EXCEPT !.epoch = IF t.epoch = "old" THEN "spared" ELSE t.epoch] : t \in tokens}
    BY <1>5 DEF Crash
  <2> QED BY <2>1, <2>2
<1>6. \/ UNCHANGED tokens \/ Crash
      \/ \E q \in Request :
           \/ \E t \in tokens : Logout(q, t)
           \/ StoreToken(q)
           \/ SetPassword(q) \/ FindUser(q) \/ Revoke(q) \/ RevokeFails(q) \/ SetActive(q)
  BY StepOf, AuthWrites, JobWrites, BootWrites DEF vars, dataVars, authVars, CodeExpires
<1> QED BY <1>0, <1>1, <1>4, <1>5, <1>6

(* The rows of user_otps. *)
CodeRows == [id : Request, user : User, type : {"registration", "forgot_password"},
             at : Instant, used : BOOLEAN, expired : BOOLEAN]

(* user_otps: a row is marked, never deleted; StoreOTP inserts its own. *)
LEMMA CodesKept ==
  ASSUME TypeOK, ReqTypeOK, [Next]_vars
  PROVE  /\ codes' \subseteq CodeRows
         /\ \A c \in codes : \E d \in codes' : d.id = c.id
         /\ \A q \in Request : StoreCode(q) => \E d \in codes' : d.id = q
<1>0. codes \subseteq CodeRows
  BY DEF TypeOK, DataTypeOK, CodeRows
<1> DEFINE Kept == codes' \subseteq CodeRows /\ \A c \in codes : \E d \in codes' : d.id = c.id
<1>1. ASSUME UNCHANGED codes PROVE Kept
  <2>1. codes' = codes
    BY <1>1
  <2>2. ASSUME NEW c \in codes PROVE \E d \in codes' : d.id = c.id
    BY <2>1
  <2> QED BY <1>0, <2>1, <2>2
<1>2. ASSUME NEW q \in Request, StoreCode(q)
      PROVE  Kept /\ \E d \in codes' : d.id = q
  <2>1. PICK t \in NextTimes :
          codes' = codes \cup {[id |-> q, user |-> req[q].user, type |-> req[q].op,
                                at |-> t, used |-> FALSE, expired |-> FALSE]}
    BY <1>2 DEF StoreCode
  <2>2. req[q].user \in User /\ req[q].op \in {"registration", "forgot_password"}
    BY <1>2 DEF StoreCode, At, ReqTypeOK, Prepared, UserPc
  <2>3. t \in Instant
    BY DEF NextTimes
  <2> DEFINE new == [id |-> q, user |-> req[q].user, type |-> req[q].op,
                     at |-> t, used |-> FALSE, expired |-> FALSE]
  <2>4. new \in CodeRows /\ new.id = q
    BY <2>2, <2>3 DEF CodeRows
  <2> HIDE DEF new
  <2> QED BY <1>0, <2>1, <2>4 DEF new
<1>3. ASSUME NEW q \in Request, UseCode(q) PROVE Kept
  <2>1. \A c \in codes : [c EXCEPT !.used = TRUE] \in CodeRows
                         /\ [c EXCEPT !.used = TRUE].id = c.id
    BY <1>0 DEF CodeRows
  <2>2. codes' = {IF c.id = req[q].val THEN [c EXCEPT !.used = TRUE] ELSE c : c \in codes}
    BY <1>3 DEF UseCode
  <2> QED BY <1>0, <2>1, <2>2
<1>4. ASSUME NEW e \in codes, CodeExpires(e) PROVE Kept
  <2>1. [e EXCEPT !.expired = TRUE] \in CodeRows /\ [e EXCEPT !.expired = TRUE].id = e.id
    BY <1>0 DEF CodeRows
  <2>2. codes' = (codes \ {e}) \cup {[e EXCEPT !.expired = TRUE]}
    BY <1>4 DEF CodeExpires
  <2> QED BY <1>0, <2>1, <2>2
<1>5. \/ UNCHANGED codes
      \/ \E q \in Request : StoreCode(q) \/ UseCode(q)
      \/ \E c \in codes : CodeExpires(c)
  BY StepOf, AuthWrites, JobWrites, BootWrites DEF vars, dataVars, authVars
<1> QED BY <1>1, <1>2, <1>3, <1>4, <1>5

(* The rows of mail_accounts, each with its owner. *)
AccountsOK ==
    DOMAIN accounts \subseteq AccountId /\ accounts \in [DOMAIN accounts -> User \cup {None}]

(* mail_accounts: an owner is a user; only its deletion takes a row away. *)
LEMMA AccountsKept ==
  ASSUME TypeOK, ReqTypeOK, [Next]_vars
  PROVE  /\ AccountsOK'
         /\ \A a \in DOMAIN accounts : accounts[a] # None /\ a \in DOMAIN accounts' =>
              accounts'[a] # None
         /\ \A a \in DOMAIN accounts' \ DOMAIN accounts : accounts'[a] # None
         /\ \/ DOMAIN accounts \subseteq DOMAIN accounts'
            \/ \E q \in Request : DeleteAccountRow(q)
<1> DEFINE Goal == /\ AccountsOK'
                   /\ \A a \in DOMAIN accounts : accounts[a] # None /\ a \in DOMAIN accounts' =>
                        accounts'[a] # None
                   /\ \A a \in DOMAIN accounts' \ DOMAIN accounts : accounts'[a] # None
                   /\ \/ DOMAIN accounts \subseteq DOMAIN accounts'
                      \/ \E q \in Request : DeleteAccountRow(q)
<1>0. AccountsOK /\ None \notin User
  BY ServiceConstants DEF TypeOK, DataTypeOK, AccountsOK, User
<1>1. CASE UNCHANGED accounts
  BY <1>0, <1>1 DEF AccountsOK
<1>2. ASSUME NEW q \in Request, InsertAccount(q) PROVE Goal
  <2>1. req[q].sub \in User
    BY <1>2 DEF InsertAccount, At, ReqTypeOK, Prepared, JobPc
  <2>2. accounts' = With(accounts, q, req[q].sub)
    BY <1>2 DEF InsertAccount
  <2>3. /\ DOMAIN accounts' = DOMAIN accounts \cup {q}
        /\ \A a \in DOMAIN accounts' :
             accounts'[a] = IF a = q THEN req[q].sub ELSE accounts[a]
        /\ accounts' = [a \in DOMAIN accounts' |-> accounts'[a]]
    BY <2>2 DEF With
  <2>4. accounts' \in [DOMAIN accounts' -> User \cup {None}]
    BY <1>0, <2>1, <2>3 DEF AccountsOK
  <2>5. q \in AccountId
    BY DEF AccountId
  <2> QED BY <1>0, <2>1, <2>3, <2>4, <2>5 DEF AccountsOK
<1>3. ASSUME NEW q \in Request, DeleteAccountRow(q) PROVE Goal
  <2>1. accounts' = Without(accounts, req[q].val)
    BY <1>3 DEF DeleteAccountRow
  <2>2. /\ DOMAIN accounts' \subseteq DOMAIN accounts
        /\ \A a \in DOMAIN accounts' : accounts'[a] = accounts[a]
        /\ accounts' = [a \in DOMAIN accounts' |-> accounts'[a]]
    BY <2>1 DEF Without, Restrict
  <2>3. accounts' \in [DOMAIN accounts' -> User \cup {None}]
    BY <1>0, <2>2 DEF AccountsOK
  <2> QED BY <1>0, <1>3, <2>2, <2>3 DEF AccountsOK
<1>4. ASSUME Backfill PROVE Goal
  <2> DEFINE admin == CHOOSE u \in DOMAIN users : users[u].role = "admin"
  <2>1. (\E u \in DOMAIN users : users[u].role = "admin") => admin \in User
    BY DEF TypeOK, DataTypeOK
  <2>2. accounts' = [a \in DOMAIN accounts |->
          IF accounts[a] = None /\ \E u \in DOMAIN users : users[u].role = "admin"
            THEN admin ELSE accounts[a]]
    BY <1>4 DEF Backfill
  <2> HIDE DEF admin
  <2>3. /\ DOMAIN accounts' = DOMAIN accounts
        /\ \A a \in DOMAIN accounts : accounts'[a] = accounts[a]
                                      \/ (accounts[a] = None /\ accounts'[a] \in User)
    BY <2>1, <2>2
  <2>4. accounts' \in [DOMAIN accounts' -> User \cup {None}]
    BY <1>0, <2>1, <2>2 DEF AccountsOK
  <2> QED BY <1>0, <2>3, <2>4 DEF AccountsOK
<1>5. CASE ApplyStatement
  BY <1>1, <1>4, <1>5 DEF ApplyStatement
<1>6. \/ UNCHANGED accounts \/ ApplyStatement
      \/ \E q \in Request : InsertAccount(q) \/ DeleteAccountRow(q)
  BY StepOf, AuthWrites, JobWrites, BootWrites DEF vars, dataVars, jobVars, CodeExpires
<1> QED BY <1>1, <1>2, <1>3, <1>5, <1>6

(* The rows of cleanup_jobs. *)
JobRows == [account : AccountId \cup {None}, by : User]
JobsOK == DOMAIN jobs \subseteq JobId /\ jobs \in [DOMAIN jobs -> JobRows]

(* cleanup_jobs: a job names an account, or none any more. *)
LEMMA JobsKept ==
  ASSUME TypeOK, ReqTypeOK, [Next]_vars
  PROVE  JobsOK'
<1>0. JobsOK
  BY DEF TypeOK, DataTypeOK, JobsOK, JobRows
<1>1. CASE UNCHANGED jobs
  BY <1>0, <1>1 DEF JobsOK
<1>2. ASSUME NEW j \in DOMAIN jobs, NEW a \in AccountId \cup {None}
      PROVE  [jobs[j] EXCEPT !.account = a] \in JobRows
  BY <1>0 DEF JobsOK, JobRows
<1>3. ASSUME NEW q \in Request, DeleteAccountRow(q) PROVE JobsOK'
  <2>1. PICK enforced \in BOOLEAN :
          jobs' = [j \in DOMAIN jobs |->
            IF enforced /\ jobs[j].account = req[q].val
              THEN [jobs[j] EXCEPT !.account = None] ELSE jobs[j]]
    BY <1>3 DEF DeleteAccountRow
  <2> QED BY <1>0, <1>2, <2>1 DEF JobsOK
<1>4. ASSUME NEW q \in Request, InsertJob(q) PROVE JobsOK'
  <2> DEFINE row == [account |-> req[q].val, by |-> req[q].sub]
  <2>1. row \in JobRows
    BY <1>4 DEF InsertJob, At, ReqTypeOK, Prepared, JobPc, JobRows
  <2>2. UNCHANGED jobs \/ jobs' = With(jobs, q, row)
    BY <1>4 DEF InsertJob
  <2> HIDE DEF row
  <2>3. CASE jobs' = With(jobs, q, row)
    <3>1. jobs' = [j \in DOMAIN jobs \cup {q} |-> IF j = q THEN row ELSE jobs[j]]
      BY <2>3 DEF With
    <3>2. q \in JobId
      BY DEF JobId
    <3> QED BY <1>0, <2>1, <3>1, <3>2 DEF JobsOK
  <2> QED BY <1>1, <2>2, <2>3
<1>5. ASSUME NEW q \in Request, UpdateJobRow(q) PROVE JobsOK'
  <2> DEFINE j == req[q].val[1]
             a == req[q].val[2]
             row == [jobs[j] EXCEPT !.account = a]
  <2>1. a \in AccountId
    BY <1>5 DEF UpdateJobRow, At, ReqTypeOK, Prepared
  <2>2. UNCHANGED jobs \/ (j \in DOMAIN jobs /\ jobs' = [jobs EXCEPT ![j] = row])
    BY <1>5 DEF UpdateJobRow
  <2> HIDE DEF row
  <2>3. j \in DOMAIN jobs => row \in JobRows
    BY <1>2, <2>1 DEF row
  <2> HIDE DEF j, a
  <2> QED BY <1>0, <1>1, <2>2, <2>3 DEF JobsOK
<1>6. ASSUME NEW q \in Request, DeleteJobRow(q) PROVE JobsOK'
  BY <1>0, <1>6 DEF DeleteJobRow, Without, Restrict, JobsOK
<1>7. \/ UNCHANGED jobs
      \/ \E q \in Request :
           DeleteAccountRow(q) \/ InsertJob(q) \/ UpdateJobRow(q) \/ DeleteJobRow(q)
  BY StepOf, AuthWrites, JobWrites, BootWrites DEF vars, dataVars, jobVars, CodeExpires
<1> QED BY <1>1, <1>3, <1>4, <1>5, <1>6, <1>7

(* The rows of cleanup_job_runs. *)
RunRows == [job : JobId, status : {"running", "done", "failed"}]
RunsOK == DOMAIN runs \subseteq Request /\ runs \in [DOMAIN runs -> RunRows]

(* cleanup_job_runs: CreateRun inserts its own row, UpdateRun marks it. *)
LEMMA RunsKept ==
  ASSUME TypeOK, ReqTypeOK, [Next]_vars
  PROVE  RunsOK'
<1>0. RunsOK
  BY DEF TypeOK, DataTypeOK, RunsOK, RunRows
<1>1. CASE UNCHANGED runs
  BY <1>0, <1>1 DEF RunsOK
<1>2. ASSUME NEW q \in Request, DeleteJobRow(q) PROVE RunsOK'
  <2>1. PICK S \in SUBSET DOMAIN runs : runs' = Restrict(runs, S)
    BY <1>2 DEF DeleteJobRow
  <2> QED BY <1>0, <2>1 DEF Restrict, RunsOK
<1>3. ASSUME NEW q \in Request, CreateRun(q) PROVE RunsOK'
  <2> DEFINE row == [job |-> req[q].val, status |-> "running"]
  <2>1. row \in RunRows
    BY <1>3 DEF CreateRun, At, ReqTypeOK, Prepared, RunRows
  <2>2. UNCHANGED runs \/ runs' = With(runs, q, row)
    BY <1>3 DEF CreateRun
  <2> HIDE DEF row
  <2>3. CASE runs' = With(runs, q, row)
    BY <1>0, <2>1, <2>3 DEF With, RunsOK
  <2> QED BY <1>1, <2>2, <2>3
<1>4. ASSUME NEW q \in Request, UpdateRun(q) PROVE RunsOK'
  <2> DEFINE row == [runs[q] EXCEPT !.status = req[q].val]
  <2>1. req[q].val \in {"done", "failed"}
    BY <1>4 DEF UpdateRun, At, ReqTypeOK, Prepared
  <2>2. UNCHANGED runs \/ (q \in DOMAIN runs /\ runs' = [runs EXCEPT ![q] = row])
    BY <1>4 DEF UpdateRun
  <2>3. q \in DOMAIN runs => row \in RunRows
    BY <1>0, <2>1 DEF RunsOK, RunRows
  <2> HIDE DEF row
  <2> QED BY <1>0, <1>1, <2>2, <2>3 DEF RunsOK
<1>5. \/ UNCHANGED runs
      \/ \E q \in Request : DeleteJobRow(q) \/ CreateRun(q) \/ UpdateRun(q)
  BY StepOf, AuthWrites, JobWrites, BootWrites DEF vars, dataVars, jobVars, CodeExpires
<1> QED BY <1>1, <1>2, <1>3, <1>4, <1>5

-----------------------------------------------------------------------------
(* The files of the migrations directory, and the statements in them. *)
LEMMA FilesAre ==
  /\ DOMAIN Files = 1 .. 4 /\ Len(Files) = 4
  /\ Files[1].version = 1 /\ Files[2].version = 2 /\ Files[3].version = 2 /\ Files[4].version = 3
  /\ DOMAIN Files[1].sql = 1 .. 1 /\ DOMAIN Files[2].sql = 1 .. 1
  /\ DOMAIN Files[3].sql = 1 .. 1 /\ DOMAIN Files[4].sql = 1 .. 3
  /\ Len(Files[1].sql) = 1 /\ Len(Files[2].sql) = 1
  /\ Len(Files[3].sql) = 1 /\ Len(Files[4].sql) = 3
  /\ Files[1].sql[1] # "backfill owner_id" /\ Files[2].sql[1] # "backfill owner_id"
  /\ Files[3].sql[1] # "backfill owner_id" /\ Files[4].sql[1] # "backfill owner_id"
  /\ Files[4].sql[2] # "backfill owner_id" /\ Files[4].sql[3] = "backfill owner_id"
  /\ Version = {1, 2, 3}
<1> DEFINE s1 == <<"tables">>
           s2 == <<"drop cursor index">>
           s3 == <<"cursor index">>
           s4 == <<"add owner_id", "owner index", "backfill owner_id">>
<1>1. DOMAIN s1 = 1 .. 1 /\ Len(s1) = 1 /\ s1[1] # "backfill owner_id"
  OBVIOUS
<1>2. DOMAIN s2 = 1 .. 1 /\ Len(s2) = 1 /\ s2[1] # "backfill owner_id"
  OBVIOUS
<1>3. DOMAIN s3 = 1 .. 1 /\ Len(s3) = 1 /\ s3[1] # "backfill owner_id"
  OBVIOUS
<1>4. /\ DOMAIN s4 = 1 .. 3 /\ Len(s4) = 3
      /\ s4[1] # "backfill owner_id" /\ s4[2] # "backfill owner_id"
      /\ s4[3] = "backfill owner_id"
  OBVIOUS
<1> DEFINE f1 == [version |-> 1, sql |-> s1]
           f2 == [version |-> 2, sql |-> s2]
           f3 == [version |-> 2, sql |-> s3]
           f4 == [version |-> 3, sql |-> s4]
<1>5. Files = <<f1, f2, f3, f4>>
  BY DEF Files
<1> HIDE DEF s1, s2, s3, s4
<1>6. /\ f1.version = 1 /\ f2.version = 2 /\ f3.version = 2 /\ f4.version = 3
      /\ f1.sql = s1 /\ f2.sql = s2 /\ f3.sql = s3 /\ f4.sql = s4
  OBVIOUS
<1> HIDE DEF f1, f2, f3, f4
<1>7. /\ DOMAIN Files = 1 .. 4 /\ Len(Files) = 4
      /\ Files[1] = f1 /\ Files[2] = f2 /\ Files[3] = f3 /\ Files[4] = f4
  BY <1>5
<1>8. Version = {1, 2, 3}
  <2>1. Version = {Files[f].version : f \in 1 .. 4}
    BY <1>7 DEF Version
  <2> QED BY <1>6, <1>7, <2>1
<1> QED BY <1>1, <1>2, <1>3, <1>4, <1>6, <1>7, <1>8

(* The number of a file, and how many statements it has. *)
LEMMA FileIs ==
  ASSUME NEW f \in DOMAIN Files
  PROVE  /\ f \in Nat /\ f # 0
         /\ Files[f].version \in Version
         /\ DOMAIN Files[f].sql = 1 .. Len(Files[f].sql)
         /\ Len(Files[f].sql) \in Nat /\ Len(Files[f].sql) >= 1
<1>1. DOMAIN Files = 1 .. 4
  BY FilesAre
<1>2. f = 1 \/ f = 2 \/ f = 3 \/ f = 4
  BY <1>1
<1>3. f \in Nat /\ f # 0
  BY <1>1
<1>4. Files[f].version \in Version
  BY DEF Version
<1>5. /\ DOMAIN Files[1].sql = 1 .. Len(Files[1].sql)
      /\ DOMAIN Files[2].sql = 1 .. Len(Files[2].sql)
      /\ DOMAIN Files[3].sql = 1 .. Len(Files[3].sql)
      /\ DOMAIN Files[4].sql = 1 .. Len(Files[4].sql)
  BY FilesAre, Zenon
<1>6. DOMAIN Files[f].sql = 1 .. Len(Files[f].sql)
  BY <1>2, <1>5
<1>7. \E k \in {1, 3} : Len(Files[f].sql) = k
  BY <1>2, FilesAre
<1>8. Len(Files[f].sql) \in Nat /\ Len(Files[f].sql) >= 1
  BY <1>7
<1> QED BY <1>3, <1>4, <1>6, <1>8

(* Where the process may be. *)
BootStates == [pc : {"down", "check", "exec", "record", "seed", "serving", "refused"},
               file : 1 .. 5, stmt : Nat \ {0}]

(* What the start of the process has done is in the database. *)
LEMMA FilesKept ==
  ASSUME BootTypeOK, FilesAreRun, BootNext
  PROVE  BootTypeOK' /\ FilesAreRun'
<1> DEFINE Known == [Version -> {0} \cup DOMAIN Files]
           All == UNION {Statements(f) : f \in DOMAIN Files}
           f0 == boot.file
           n == Len(Files[f0].sql)
<1>1. Len(Files) = 4 /\ DOMAIN Files = 1 .. 4 /\ MaxCrashes \in Nat
  BY ServiceConstants, FilesAre
<1>2. BootTypeOK <=> /\ recorded \in Known /\ ran \subseteq All
                     /\ boot \in BootStates /\ crashes \in 0 .. MaxCrashes
  <2>1. 1 .. Len(Files) + 1 = 1 .. 5
    BY <1>1
  <2> QED BY <2>1, Zenon DEF BootTypeOK, BootStates
<1>3. BootTypeOK' <=> /\ recorded' \in Known /\ ran' \subseteq All
                      /\ boot' \in BootStates /\ crashes' \in 0 .. MaxCrashes
  <2>1. 1 .. Len(Files) + 1 = 1 .. 5
    BY <1>1
  <2> QED BY <2>1, Zenon DEF BootTypeOK, BootStates
<1>4. Down \in BootStates /\ Down.pc = "down" /\ Down.file = 1 /\ Down.stmt = 1
  BY DEF Down, BootStates
<1>5. f0 \in 1 .. 5 /\ boot.stmt \in Nat \ {0}
  BY <1>2 DEF BootStates
<1>6. ASSUME NEW pc \in {"exec", "record"}, NEW i \in Nat \ {0}
      PROVE  /\ [boot EXCEPT !.pc = pc, !.stmt = i] \in BootStates
             /\ [boot EXCEPT !.pc = pc, !.stmt = i].pc = pc
             /\ [boot EXCEPT !.pc = pc, !.stmt = i].file = f0
             /\ [boot EXCEPT !.pc = pc, !.stmt = i].stmt = i
  BY <1>2 DEF BootStates
<1>7. 1 \in Nat \ {0} /\ boot.stmt + 1 \in Nat \ {0}
  BY <1>5
<1>8. CASE Open
  <2>1. boot' = [Down EXCEPT !.pc = "check"] /\ UNCHANGED <<recorded, ran, crashes>>
    BY <1>8 DEF Open
  <2>2. boot' \in BootStates /\ boot'.pc = "check" /\ boot'.file = 1
    BY <1>4, <2>1 DEF BootStates
  <2> QED BY <1>1, <1>2, <1>3, <1>5, <2>1, <2>2 DEF FilesAreRun
<1>9. CASE CheckMigration
  <2>1. boot.pc = "check" /\ f0 \in DOMAIN Files /\ UNCHANGED <<recorded, ran, crashes>>
    BY <1>9 DEF CheckMigration
  <2>2. CASE recorded[Files[f0].version] = 0
    <3>1. boot' = [boot EXCEPT !.pc = "exec", !.stmt = 1]
      BY <1>9, <2>2 DEF CheckMigration
    <3>2. boot' \in BootStates /\ boot'.pc = "exec" /\ boot'.file = f0 /\ boot'.stmt = 1
      <4> DEFINE b == [boot EXCEPT !.pc = "exec", !.stmt = 1]
      <4>1. b \in BootStates /\ b.pc = "exec" /\ b.file = f0 /\ b.stmt = 1
        BY <1>6, <1>7, Zenon
      <4> QED BY <3>1, <4>1
    <3>3. 1 \in DOMAIN Files[f0].sql /\ \A i \in DOMAIN Files[f0].sql : ~(i < 1)
      BY <2>1, FileIs
    <3> QED BY <1>1, <1>2, <1>3, <1>5, <2>1, <3>2, <3>3 DEF FilesAreRun
  <2>3. CASE recorded[Files[f0].version] # 0
    <3>1. boot' = [boot EXCEPT !.file = f0 + 1]
      BY <1>9, <2>3 DEF CheckMigration
    <3>2. boot' \in BootStates /\ boot'.pc = "check" /\ boot'.file = f0 + 1
      BY <1>1, <1>2, <1>5, <2>1, <3>1 DEF BootStates
    <3>3. \A f \in DOMAIN Files : f < f0 + 1 => recorded[Files[f].version] # 0
      BY <1>1, <2>1, <2>3 DEF FilesAreRun
    <3> QED BY <1>1, <1>2, <1>3, <1>5, <2>1, <3>2, <3>3 DEF FilesAreRun
  <2> QED BY <2>2, <2>3
<1>10. CASE ApplyStatement
  <2> DEFINE s == <<f0, boot.stmt>>
             k == boot.stmt
  <2>1. /\ boot.pc = "exec" /\ f0 \in DOMAIN Files
        /\ k \in DOMAIN Files[f0].sql
        /\ \A i \in DOMAIN Files[f0].sql : i < k => <<f0, i>> \in ran
    BY <1>10 DEF ApplyStatement, FilesAreRun
  <2>2. /\ ran' = ran \cup {s} /\ UNCHANGED <<recorded, crashes>>
        /\ boot' = [boot EXCEPT !.pc = IF k = n THEN "record" ELSE "exec",
                                !.stmt = IF k = n THEN 1 ELSE k + 1]
    BY <1>10 DEF ApplyStatement
  <2>3. ran' \subseteq All
    <3>1. s \in Statements(f0)
      BY <2>1 DEF Statements
    <3> QED BY <1>1, <1>2, <1>3, <1>5, <2>1, <2>2, <3>1
  <2>4. n \in Nat /\ DOMAIN Files[f0].sql = 1 .. n
    BY <2>1, FileIs
  <2>5. \A i \in 1 .. n : i <= k => <<f0, i>> \in ran'
    BY <2>1, <2>2, <2>4
  <2>6. CASE k = n
    <3>1. boot' \in BootStates /\ boot'.pc = "record" /\ boot'.file = f0
      <4> DEFINE b == [boot EXCEPT !.pc = "record", !.stmt = 1]
      <4>1. b \in BootStates /\ b.pc = "record" /\ b.file = f0
        BY <1>6, <1>7, Zenon
      <4> QED BY <2>2, <2>6, <4>1
    <3>2. Statements(f0) \subseteq ran'
      BY <2>4, <2>5, <2>6 DEF Statements
    <3> QED BY <1>1, <1>2, <1>3, <1>5, <2>1, <2>2, <2>3, <3>1, <3>2 DEF FilesAreRun
  <2>7. CASE k # n
    <3>1. boot' \in BootStates /\ boot'.pc = "exec" /\ boot'.file = f0 /\ boot'.stmt = k + 1
      <4> DEFINE b == [boot EXCEPT !.pc = "exec", !.stmt = k + 1]
      <4>1. b \in BootStates /\ b.pc = "exec" /\ b.file = f0 /\ b.stmt = k + 1
        BY <1>6, <1>7, Zenon
      <4> QED BY <2>2, <2>7, <4>1
    <3>2. k + 1 \in DOMAIN Files[f0].sql
          /\ \A i \in DOMAIN Files[f0].sql : i < k + 1 => <<f0, i>> \in ran'
      BY <2>1, <2>4, <2>5, <2>7
    <3> QED BY <1>1, <1>2, <1>3, <1>5, <2>1, <2>2, <2>3, <3>1, <3>2 DEF FilesAreRun
  <2> QED BY <2>6, <2>7
<1>11. CASE ApplyRefused
  <2>1. boot' = [Down EXCEPT !.pc = "refused"] /\ UNCHANGED <<recorded, ran, crashes>>
    BY <1>11 DEF ApplyRefused
  <2>2. boot' \in BootStates /\ boot'.pc = "refused"
    BY <1>4, <2>1 DEF BootStates
  <2> QED BY <1>1, <1>2, <1>3, <1>5, <2>1, <2>2 DEF FilesAreRun
<1>12. CASE RecordMigration
  <2> DEFINE v0 == Files[f0].version
  <2>1. boot.pc = "record" /\ f0 \in DOMAIN Files /\ Statements(f0) \subseteq ran
    BY <1>12 DEF RecordMigration, FilesAreRun
  <2>2. /\ recorded' = [recorded EXCEPT ![v0] = f0] /\ UNCHANGED <<ran, crashes>>
        /\ boot' = [boot EXCEPT !.pc = "check", !.file = f0 + 1]
    BY <1>12 DEF RecordMigration
  <2>3. boot' \in BootStates /\ boot'.pc = "check" /\ boot'.file = f0 + 1
    <3> DEFINE b == [boot EXCEPT !.pc = "check", !.file = f0 + 1]
    <3>1. f0 + 1 \in 1 .. 5
      BY <1>1, <2>1
    <3>2. b \in BootStates /\ b.pc = "check" /\ b.file = f0 + 1
      BY <1>2, <3>1 DEF BootStates
    <3> QED BY <2>2, <3>2
  <2>4. v0 \in Version /\ f0 # 0
    BY <2>1, FileIs
  <2>5. recorded' \in Known /\ recorded'[v0] = f0
        /\ \A v \in Version : v # v0 => recorded'[v] = recorded[v]
    BY <1>1, <1>2, <2>1, <2>2, <2>4
  <2>6. \A f \in DOMAIN Files : Files[f].version \in Version
    BY FileIs
  <2>7. \A f \in DOMAIN Files : f < f0 + 1 => recorded'[Files[f].version] # 0
    BY <1>1, <2>1, <2>4, <2>5, <2>6 DEF FilesAreRun
  <2> QED BY <1>1, <1>2, <1>3, <1>5, <2>1, <2>2, <2>3, <2>4, <2>5, <2>7 DEF FilesAreRun
<1>13. CASE MigrationsDone
  <2>1. /\ boot.pc = "check" /\ f0 \notin DOMAIN Files /\ UNCHANGED <<recorded, ran, crashes>>
        /\ boot' = [Down EXCEPT !.pc = "seed"]
    BY <1>13 DEF MigrationsDone
  <2>2. boot' \in BootStates /\ boot'.pc = "seed"
    BY <1>4, <2>1 DEF BootStates
  <2>3. \A v \in Version : recorded[v] # 0
    <3>1. \A f \in DOMAIN Files : recorded[Files[f].version] # 0
      BY <1>1, <1>5, <2>1 DEF FilesAreRun
    <3> QED BY <3>1 DEF Version
  <2> QED BY <1>1, <1>2, <1>3, <1>5, <2>1, <2>2, <2>3 DEF FilesAreRun
<1>14. CASE SeedAdmin
  <2>1. boot.pc = "seed" /\ boot' = [boot EXCEPT !.pc = "serving"]
        /\ UNCHANGED <<recorded, ran, crashes>>
    BY <1>14 DEF SeedAdmin
  <2>2. boot' \in BootStates /\ boot'.pc = "serving"
    BY <1>2, <1>5, <2>1 DEF BootStates
  <2> QED BY <1>1, <1>2, <1>3, <1>5, <2>1, <2>2 DEF FilesAreRun
<1>15. CASE SeedForce
  BY <1>15 DEF SeedForce, bootVars, BootTypeOK, FilesAreRun
<1>16. CASE Crash
  <2>1. boot' = Down /\ crashes < MaxCrashes /\ crashes' = crashes + 1 /\ UNCHANGED <<recorded, ran>>
    BY <1>16 DEF Crash
  <2>2. boot' \in BootStates /\ boot'.pc = "down" /\ crashes' \in 0 .. MaxCrashes
    BY <1>1, <1>2, <1>4, <2>1
  <2> QED BY <1>1, <1>2, <1>3, <1>5, <2>1, <2>2 DEF FilesAreRun
<1> QED BY <1>8, <1>9, <1>10, <1>11, <1>12, <1>13, <1>14, <1>15, <1>16 DEF BootNext

(* Only seed, when there is nothing to migrate, brings the server up, and *)
(* only the last statement of a file gets it recorded.                     *)
LEMMA BootGoes ==
  ASSUME BootTypeOK, [Next]_vars
  PROVE  /\ Up' => Up \/ SeedAdmin
         /\ boot'.pc = "record" =>
              \/ UNCHANGED boot
              \/ /\ ApplyStatement
                 /\ boot'.file = boot.file /\ boot.stmt = Len(Files[boot.file].sql)
<1>1. boot \in BootStates
  <2>1. Len(Files) = 4
    BY FilesAre
  <2>2. 1 .. Len(Files) + 1 = 1 .. 5
    BY <2>1
  <2> QED BY <2>2, Zenon DEF BootTypeOK, BootStates
<1>2. CASE ApplyStatement
  <2> DEFINE last == boot.stmt = Len(Files[boot.file].sql)
             pc == IF last THEN "record" ELSE "exec"
             i == IF last THEN 1 ELSE boot.stmt + 1
             b == [boot EXCEPT !.pc = pc, !.stmt = i]
  <2>1. boot' = b
    BY <1>2 DEF ApplyStatement
  <2>2. ASSUME NEW p, NEW k
        PROVE  /\ [boot EXCEPT !.pc = p, !.stmt = k].pc = p
               /\ [boot EXCEPT !.pc = p, !.stmt = k].file = boot.file
    BY <1>1 DEF BootStates
  <2> HIDE DEF pc, i
  <2>3. b.pc = pc /\ b.file = boot.file
    BY <2>2, Zenon
  <2> HIDE DEF b
  <2>4. pc = "record" => last
    BY DEF pc
  <2>5. pc # "serving"
    BY DEF pc
  <2> QED BY <1>2, <2>1, <2>3, <2>4, <2>5 DEF Up
<1>3. CASE UNCHANGED boot
  BY <1>3 DEF Up
<1>4. CASE Open \/ ApplyRefused \/ MigrationsDone \/ Crash
  <2>1. /\ Down.pc = "down" /\ [Down EXCEPT !.pc = "check"].pc = "check"
        /\ [Down EXCEPT !.pc = "refused"].pc = "refused"
        /\ [Down EXCEPT !.pc = "seed"].pc = "seed"
    BY DEF Down
  <2>2. boot'.pc \in {"down", "check", "refused", "seed"}
    BY <1>4, <2>1 DEF Open, ApplyRefused, MigrationsDone, Crash
  <2> QED BY <2>2 DEF Up
<1>5. CASE CheckMigration
  <2>1. /\ [boot EXCEPT !.pc = "exec", !.stmt = 1].pc = "exec"
        /\ [boot EXCEPT !.file = boot.file + 1].pc = boot.pc
    BY <1>1 DEF BootStates
  <2>2. boot'.pc \in {"exec", "check"}
    <3>1. \/ boot' = [boot EXCEPT !.pc = "exec", !.stmt = 1]
          \/ boot.pc = "check" /\ boot' = [boot EXCEPT !.file = boot.file + 1]
      BY <1>5 DEF CheckMigration
    <3> QED BY <2>1, <3>1
  <2> QED BY <2>2 DEF Up
<1>6. CASE RecordMigration
  <2>1. ASSUME NEW p, NEW f
        PROVE  [boot EXCEPT !.pc = p, !.file = f].pc = p
    BY <1>1 DEF BootStates
  <2>2. boot' = [boot EXCEPT !.pc = "check", !.file = boot.file + 1]
    BY <1>6 DEF RecordMigration
  <2> QED BY <2>1, <2>2 DEF Up
<1>7. CASE SeedAdmin
  BY <1>1, <1>7 DEF SeedAdmin, BootStates
<1>8. UNCHANGED boot \/ BootNext
  BY StepOf DEF vars, bootVars
<1> QED BY <1>2, <1>3, <1>4, <1>5, <1>6, <1>7, <1>8 DEF BootNext, SeedForce, bootVars

(* The admin of the first release is one until the backfill; after it, the *)
(* accounts are owned.                                                     *)
LEMMA StartKept ==
  ASSUME TypeOK, ReqTypeOK, StartIsInOrder, [Next]_vars
  PROVE  BootTypeOK' /\ StartIsInOrder'
<1> DEFINE Backfilled == recorded[3] # 0 \/ (boot.pc = "record" /\ boot.file = 4)
<1>0. 3 \in Version /\ recorded \in [Version -> {0} \cup DOMAIN Files] /\ FilesAreRun /\ BootTypeOK
  BY FilesAre DEF TypeOK, BootTypeOK, StartIsInOrder
<1>1. BootTypeOK' /\ FilesAreRun'
  <2>1. CASE BootNext
    BY <1>0, <2>1, FilesKept
  <2>2. CASE UNCHANGED bootVars
    BY <1>0, <2>2 DEF bootVars, BootTypeOK, FilesAreRun
  <2> QED BY <2>1, <2>2, StepOf DEF vars
<1>2. BootNext \/ UNCHANGED bootVars
  BY StepOf DEF vars
<1>3. recorded[3] # 0 => recorded'[3] # 0
  <2>1. CASE RecordMigration
    BY <1>0, <2>1, FileIs DEF RecordMigration, FilesAreRun
  <2>2. CASE UNCHANGED recorded
    BY <2>2
  <2> QED BY <1>2, <2>1, <2>2 DEF BootNext, Open, CheckMigration, ApplyStatement, ApplyRefused,
             MigrationsDone, SeedAdmin, SeedForce, Crash, bootVars
<1>4. recorded'[3] = 0 => \A u \in DOMAIN users' : users'[u].role = "admin"
  <2>1. Up \/ boot.pc = "seed" => recorded[3] # 0
    BY <1>0 DEF FilesAreRun, Up
  <2>2. UNCHANGED users \/ Up \/ boot.pc = "seed"
    BY StepOf, BootWrites DEF SeedAdmin, SeedForce, vars, dataVars, authVars
  <2> QED BY <1>3, <2>1, <2>2 DEF StartIsInOrder
<1>5. ASSUME Backfilled PROVE Owned'
  <2>1. Owned
    BY <1>5 DEF StartIsInOrder
  <2>2. Root \in DOMAIN users' /\ users'[Root].by = None =>
          Root \in DOMAIN users /\ users[Root].by = None
    BY UsersKept, ServiceConstants
  <2> QED BY <2>1, <2>2, AccountsKept DEF Owned
<1>6. ASSUME ~Backfilled, (recorded[3] # 0 \/ (boot.pc = "record" /\ boot.file = 4))'
      PROVE  Owned'
  <2>1. recorded[3] = 0
    BY <1>6
  <2>2. ApplyStatement /\ boot.file = 4 /\ boot.stmt = 3
    <3>1. \A f \in 1 .. 4 : f = 1 \/ f = 2 \/ f = 3 \/ f = 4
      OBVIOUS
    <3>2. \A f \in DOMAIN Files : Files[f].version = 3 => f = 4
      BY <3>1, FilesAre
    <3>3. UNCHANGED recorded
      <4>1. ~RecordMigration
        <5>1. CASE RecordMigration
          <6>1. boot.pc = "record" /\ boot.file \in DOMAIN Files /\ boot.file # 4
            BY <1>0, <1>6, <5>1 DEF RecordMigration, FilesAreRun
          <6>2. recorded'[3] = recorded[3] /\ boot'.pc # "record"
            <7>1. Files[boot.file].version # 3
              BY <3>2, <6>1
            <7>2. recorded'[3] = recorded[3]
              BY <1>0, <5>1, <7>1 DEF RecordMigration
            <7>3. ~UNCHANGED boot /\ ~ApplyStatement
              <8>1. ~ApplyStatement
                BY <6>1 DEF ApplyStatement
              <8>2. boot' = [boot EXCEPT !.pc = "check", !.file = boot.file + 1]
                BY <5>1 DEF RecordMigration
              <8>3. [boot EXCEPT !.pc = "check", !.file = boot.file + 1].pc = "check"
                BY <1>0 DEF BootTypeOK
              <8> QED BY <6>1, <8>1, <8>2, <8>3
            <7> QED BY <1>0, <7>2, <7>3, BootGoes
          <6> QED BY <1>6, <2>1, <6>2
        <5> QED BY <5>1
      <4> QED BY <1>2, <4>1 DEF BootNext, Open, CheckMigration, ApplyStatement, ApplyRefused,
           MigrationsDone, SeedAdmin, SeedForce, Crash, bootVars
    <3>4. boot'.pc = "record" /\ boot'.file = 4 /\ ~(boot.pc = "record" /\ boot.file = 4)
      BY <1>6, <3>3
    <3>5. ApplyStatement /\ boot'.file = boot.file /\ boot.stmt = Len(Files[boot.file].sql)
      BY <1>0, <3>4, BootGoes
    <3> QED BY <3>4, <3>5, FilesAre
  <2>3. Backfill /\ UNCHANGED users
    BY <2>2, FilesAre DEF ApplyStatement, authVars
  <2>4. Root \in DOMAIN users => \E u \in DOMAIN users : users[u].role = "admin"
    BY <2>1 DEF StartIsInOrder
  <2> DEFINE admin == CHOOSE u \in DOMAIN users : users[u].role = "admin"
  <2>5. Root \in DOMAIN users => admin \in User /\ admin # None
    BY <2>4, ServiceConstants DEF TypeOK, DataTypeOK, User
  <2>6. accounts' = [a \in DOMAIN accounts |->
          IF accounts[a] = None /\ \E u \in DOMAIN users : users[u].role = "admin"
            THEN admin ELSE accounts[a]]
    BY <2>3 DEF Backfill
  <2> HIDE DEF admin
  <2> QED BY <2>3, <2>4, <2>5, <2>6 DEF Owned
<1>7. Up' => Root \in DOMAIN users'
  <2>1. CASE SeedAdmin
    BY <2>1 DEF SeedAdmin, With
  <2>2. CASE ~SeedAdmin
    <3>1. Up' => Up
      BY <1>0, <2>2, BootGoes
    <3> QED BY <3>1, UsersKept DEF StartIsInOrder
  <2> QED BY <2>1, <2>2
<1> QED BY <1>1, <1>4, <1>5, <1>6, <1>7 DEF StartIsInOrder

-----------------------------------------------------------------------------
(* Each invariant, over a step. *)

(* The types, from those of the tables and of the requests. *)
LEMMA TypesKept ==
  ASSUME TypeOK, ReqTypeOK, StartIsInOrder, [Next]_vars
  PROVE  TypeOK' /\ ReqTypeOK'
<1>1. ReqTypeOK'
  <2>1. CASE UNCHANGED req
    BY <2>1 DEF ReqTypeOK, Prepared
  <2>2. CASE Crash
    <3>1. Over \in ReqState /\ Prepared(Over)
      BY OverIs DEF ReqState, Prepared, Val, UserPc, JobPc
    <3>2. req' = [q \in Request |-> IF req[q].pc \in {"new", "over"} THEN req[q] ELSE Over]
      BY <2>2 DEF Crash
    <3>3. \A q \in Request : req'[q] \in ReqState /\ Prepared(req'[q])
      BY <3>1, <3>2 DEF ReqTypeOK
    <3> QED BY <3>2, <3>3 DEF ReqTypeOK, Prepared
  <2>3. ASSUME NEW q \in Request, AuthStep(q) \/ JobStep(q) PROVE ReqTypeOK'
    BY <2>3, AuthKeepsRequests, JobKeepsRequests
  <2> QED BY <2>1, <2>2, <2>3, StepOf, BootWrites DEF CodeExpires, vars, dataVars
<1>2. received' \in SUBSET Request
  BY StepOf, AuthWrites, JobWrites, BootWrites
     DEF TypeOK, DataTypeOK, SendCode, CodeExpires, vars, dataVars, authVars
<1>3. loose' \in BOOLEAN
  <2>1. loose \in BOOLEAN
    BY DEF TypeOK, DataTypeOK
  <2>2. UNCHANGED loose \/ \E enforced \in BOOLEAN : Connection(enforced)
    BY StepOf, AuthWrites, JobWrites, BootWrites DEF CodeExpires, vars, dataVars, jobVars
  <2> QED BY <2>1, <2>2 DEF Connection
<1>4. failures' \in 0 .. MaxFailures
  <2>1. UNCHANGED failures \/ Failure
    BY StepOf, AuthWrites, JobWrites, BootWrites DEF CodeExpires, vars, dataVars
  <2> QED BY <2>1, ServiceConstants DEF TypeOK, DataTypeOK, Failure
<1>5. \A q \in Request :
        /\ DOMAIN req'[q] = DOMAIN Fresh
        /\ req'[q].sub \in User \cup {None}
        /\ req'[q].user \in User \cup {None}
        /\ req'[q].pc \in {"new", "over"} => req'[q].sub = None
  <2>1. \A q \in Request : req'[q] \in ReqState
    BY <1>1 DEF ReqTypeOK
  <2>2. \A r \in ReqState :
          /\ DOMAIN r = DOMAIN Fresh
          /\ r.sub \in User \cup {None} /\ r.user \in User \cup {None}
    BY DEF ReqState, Fresh
  <2> QED BY <1>1, <2>1, <2>2 DEF ReqTypeOK, Prepared
<1>6. DataTypeOK'
  BY <1>2, <1>3, <1>4, <1>5, UsersKept, TokensKept, CodesKept, AccountsKept, JobsKept, RunsKept
     DEF DataTypeOK, UsersOK, UserRows, TokenRows, CodeRows, AccountsOK, JobsOK, JobRows,
         RunsOK, RunRows
<1> QED BY <1>1, <1>6, StartKept DEF TypeOK

(* A session that is old was open, or its user's request goes on from here. *)
LEMMA SessionsKept ==
  ASSUME TypeOK, ReqTypeOK, OldSessionsEnd, [Next]_vars
  PROVE  OldSessionsEnd'
<1> DEFINE Ended(t, q) == req'[q].user = t.user /\ req'[q].pc \in {"findUser", "revoke"}
           Ending(t, q) == req[q].user = t.user /\ req[q].pc \in {"findUser", "revoke"}
<1>0. tokens \subseteq TokenRows
  BY DEF TypeOK, DataTypeOK, TokenRows
<1>1. \A t \in tokens : t.epoch = "old" => \E q \in Request : Ending(t, q)
  BY DEF OldSessionsEnd
<1>2. CASE UNCHANGED <<tokens, req>>
  BY <1>2 DEF OldSessionsEnd
<1>3. CASE Crash
  <2>1. tokens' = {[t EXCEPT !.epoch = IF t.epoch = "old" THEN "spared" ELSE t.epoch] : t \in tokens}
    BY <1>3 DEF Crash
  <2>2. ASSUME NEW t \in tokens
        PROVE  [t EXCEPT !.epoch = IF t.epoch = "old" THEN "spared" ELSE t.epoch].epoch # "old"
    BY <1>0 DEF TokenRows
  <2>3. \A t \in tokens' : t.epoch # "old"
    BY <2>1, <2>2
  <2> QED BY <2>3 DEF OldSessionsEnd
<1>4. ASSUME NEW q \in Request, JobStep(q) PROVE OldSessionsEnd'
  <2>1. Others(q) /\ req[q].pc \notin {"findUser", "revoke"} /\ UNCHANGED tokens
    BY <1>4, JobMoves, JobWrites DEF authVars
  <2>2. \A r \in Request : r # q => req'[r].pc = req[r].pc /\ req'[r].user = req[r].user
    BY <2>1 DEF Others
  <2> QED BY <2>1, <2>2 DEF OldSessionsEnd
<1>5. ASSUME NEW q \in Request, AuthStep(q) PROVE OldSessionsEnd'
  <2> DEFINE u == req[q].user
  <2>1. \A r \in Request : r # q => req'[r].pc = req[r].pc /\ req'[r].user = req[r].user
    BY <1>5, AuthMoves DEF Others
  <2>2. \A t \in tokens, r \in Request : Ending(t, r) /\ r # q => Ended(t, r)
    BY <2>1
  <2>3. ASSUME NEW pc \in {"revoke", "findUser"}, Supersede(q, u, pc), req[q].pc \in UserPc,
               req[q].pc \notin {"findUser", "revoke"}
        PROVE  OldSessionsEnd'
    <3>1. Ended([user |-> u], q)
      BY <2>3, SupersedeKeeps
    <3>2. SUFFICES ASSUME NEW x \in tokens', x.epoch = "old"
                   PROVE  \E r \in Request : Ended(x, r)
      BY DEF OldSessionsEnd
    <3>3. PICK t \in tokens :
            x = IF t.user = u /\ t.epoch = "current" THEN [t EXCEPT !.epoch = "old"] ELSE t
      BY <2>3 DEF Supersede
    <3>4. CASE t.user = u /\ t.epoch = "current"
      <4>1. x.user = u
        BY <1>0, <3>3, <3>4, EpochIs
      <4> QED BY <3>1, <4>1
    <3>5. CASE ~(t.user = u /\ t.epoch = "current")
      <4>1. x = t
        BY <3>3, <3>5
      <4>2. PICK r \in Request : Ending(t, r)
        BY <1>1, <3>2, <4>1
      <4>3. r # q
        BY <2>3, <4>2
      <4> QED BY <2>2, <4>1, <4>2, <4>3
    <3> QED BY <3>4, <3>5
  <2>4. ASSUME req[q].pc \notin {"findUser", "revoke"},
               \A t \in tokens' : t \in tokens \/ t.epoch # "old"
        PROVE  OldSessionsEnd'
    BY <1>1, <2>2, <2>4 DEF OldSessionsEnd
  <2>5. ASSUME NEW t \in tokens, Logout(q, t) PROVE OldSessionsEnd'
    BY <2>4, <2>5 DEF Logout, New
  <2>6. CASE StoreToken(q)
    <3>1. req[q].pc = "storeToken" /\ req[q].val # "old"
      BY <2>6 DEF StoreToken, At, ReqTypeOK, Prepared
    <3>2. tokens' = tokens \cup {[id |-> q, user |-> u, epoch |-> req[q].val]}
      BY <2>6 DEF StoreToken
    <3> QED BY <2>4, <3>1, <3>2
  <2>7. CASE SetPassword(q)
    BY <2>3, <2>7 DEF SetPassword, At, UserPc
  <2>8. CASE SetActive(q)
    <3>1. CASE UNCHANGED tokens
      BY <2>4, <2>8, <3>1 DEF SetActive, At
    <3>2. CASE ~UNCHANGED tokens
      BY <2>3, <2>8, <3>2 DEF SetActive, At, UserPc
    <3> QED BY <3>1, <3>2
  <2>9. ASSUME Spare(u) PROVE OldSessionsEnd'
    <3>1. SUFFICES ASSUME NEW x \in tokens', x.epoch = "old"
                   PROVE  \E r \in Request : Ended(x, r)
      BY DEF OldSessionsEnd
    <3>2. PICK t \in tokens :
            x = IF t.user = u /\ t.epoch = "old" THEN [t EXCEPT !.epoch = "spared"] ELSE t
      BY <2>9 DEF Spare
    <3>3. x = t /\ t.user # u
      BY <1>0, <3>1, <3>2, EpochIs
    <3>4. PICK r \in Request : Ending(t, r)
      BY <1>1, <3>1, <3>3
    <3> QED BY <2>2, <3>3, <3>4
  <2>10. CASE FindUser(q)
    <3>1. CASE Goto(q, "revoke") /\ UNCHANGED tokens
      <4>1. \A t \in tokens : Ending(t, q) => Ended(t, q)
        BY <3>1, GotoMoves
      <4> QED BY <1>1, <2>2, <3>1, <4>1 DEF OldSessionsEnd
    <3> QED BY <2>9, <2>10, <3>1 DEF FindUser
  <2>11. CASE Revoke(q)
    <3>1. \A t \in tokens' : t \in tokens /\ t.user # u
      BY <2>11 DEF Revoke
    <3> QED BY <1>1, <2>2, <3>1 DEF OldSessionsEnd
  <2>12. CASE RevokeFails(q)
    BY <2>9, <2>12 DEF RevokeFails
  <2>13. CASE req[q].pc \notin {"findUser", "revoke"} /\ UNCHANGED tokens
    BY <2>4, <2>13
  <2> QED BY <1>5, <2>5, <2>6, <2>7, <2>8, <2>10, <2>11, <2>12, <2>13, AuthMoves, AuthWrites
<1> QED BY <1>2, <1>3, <1>4, <1>5, StepOf, BootWrites DEF CodeExpires, vars, dataVars, authVars

(* The code of a user who registered is there before the user is. *)
LEMMA CodeKept ==
  ASSUME TypeOK, ReqTypeOK, CodesComeFirst, [Next]_vars
  PROVE  CodesComeFirst'
<1>1. \A q \in Request : (\E c \in codes : c.id = q) => \E c \in codes' : c.id = q
  BY CodesKept
<1>2. PendingHasCode'
  <2>1. SUFFICES ASSUME NEW u \in DOMAIN users', users'[u].by \in Request
                 PROVE  \E c \in codes' : c.id = users'[u].by
    BY DEF PendingHasCode
  <2>2. CASE u \in DOMAIN users
    <3>1. users'[u].by = users[u].by
      BY <2>2, UsersKept
    <3> QED BY <1>1, <2>1, <2>2, <3>1 DEF CodesComeFirst, PendingHasCode
  <2>3. CASE u \notin DOMAIN users
    <3>1. users'[u].by # "seed"
      BY <2>1, ServiceConstants
    <3>2. PICK q \in Request : CreatePending(q) /\ users'[u].by = q
      BY <2>3, <3>1, UsersKept
    <3>3. \E c \in codes : c.id = q
      BY <3>2 DEF CreatePending, At, CodesComeFirst
    <3> QED BY <1>1, <3>2, <3>3
  <2> QED BY <2>2, <2>3
<1>3. \A q \in Request : req'[q].pc = "createUser" => req[q].pc = "createUser" \/ StoreCode(q)
  <2>1. CASE UNCHANGED req
    BY <2>1
  <2>2. CASE Crash
    BY <2>2, OverIs DEF Crash
  <2>3. ASSUME NEW q \in Request, AuthStep(q) \/ JobStep(q)
        PROVE  \A r \in Request :
                 req'[r].pc = "createUser" => req[r].pc = "createUser" \/ StoreCode(r)
    BY <2>3, AuthMoves, JobMoves DEF Others
  <2> QED BY <2>1, <2>2, <2>3, StepOf, BootWrites DEF CodeExpires, vars, dataVars
<1>4. \A q \in Request : StoreCode(q) => \E c \in codes' : c.id = q
  BY CodesKept
<1> QED BY <1>1, <1>2, <1>3, <1>4 DEF CodesComeFirst

(* Only its own request changes a row of cleanup_job_runs. *)
LEMMA RunStatusKept ==
  ASSUME TypeOK, ReqTypeOK, RunStatusIsTrue, [Next]_vars
  PROVE  RunStatusIsTrue'
<1> DEFINE True(r) ==
             /\ req[r].pc \in {"execute", "updateRun"} => runs[r].status = "running"
             /\ runs[r].status # "running" => req[r].pc = "over" /\ req[r].val = runs[r].status
             /\ req[r].pc = "over" /\ req[r].val # None => runs[r].status = req[r].val
<1>0. DOMAIN runs \subseteq Request /\ \A r \in DOMAIN runs : True(r)
  BY DEF TypeOK, DataTypeOK, RunStatusIsTrue
<1>1. CASE UNCHANGED <<runs, req>>
  BY <1>1 DEF RunStatusIsTrue
<1>2. CASE Crash
  <2>1. /\ req' = [q \in Request |-> IF req[q].pc \in {"new", "over"} THEN req[q] ELSE Over]
        /\ UNCHANGED runs
    BY <1>2 DEF Crash, jobVars
  <2> QED BY <1>0, <2>1, OverIs DEF RunStatusIsTrue
<1>3. ASSUME NEW q \in Request, AuthStep(q) PROVE RunStatusIsTrue'
  <2>1. UNCHANGED runs
    BY <1>3, AuthWrites DEF jobVars
  <2>2. \A r \in Request : req[r].pc = "storeToken" \/ req'[r] = req[r]
                           \/ (req[r].pc # "over" /\ (req'[r].pc = "over" => req'[r].val = None))
    BY <1>3, AuthMoves DEF Others
  <2>3. \A r \in Request : req[r].pc = "storeToken" /\ req'[r].pc = "over" => req'[r].val = None
    BY <1>3, AuthMoves DEF Others
  <2> QED BY <1>0, <2>1, <2>2, <2>3 DEF RunStatusIsTrue
<1>4. ASSUME NEW q \in Request, JobStep(q) PROVE RunStatusIsTrue'
  <2>1. /\ \A r \in Request : r # q => req'[r].pc = req[r].pc
        /\ \A r \in Request : r # q => req'[r] = req[r] \/ req[r].pc = "storeToken"
        /\ req[q].pc # "over"
        /\ UpdateRun(q) \/ (req'[q].pc = "over" => req'[q].val = None)
    BY <1>4, JobMoves DEF Others
  <2>2. ASSUME NEW r \in DOMAIN runs, r # q, r \in DOMAIN runs', runs'[r] = runs[r]
        PROVE  True(r)'
    BY <1>0, <2>1, <2>2
  <2>3. ASSUME q \in DOMAIN runs', runs'[q].status = "running", ~UpdateRun(q)
        PROVE  True(q)'
    BY <2>1, <2>3
  <2>4. q \in DOMAIN runs => runs[q].status = "running"
    BY <1>0, <2>1
  <2>5. CASE UNCHANGED runs /\ ~UpdateRun(q)
    BY <1>0, <2>2, <2>3, <2>4, <2>5 DEF RunStatusIsTrue
  <2>6. CASE DeleteJobRow(q) /\ ~UpdateRun(q)
    <3>1. DOMAIN runs' \subseteq DOMAIN runs /\ \A r \in DOMAIN runs' : runs'[r] = runs[r]
      BY <2>6 DEF DeleteJobRow, Restrict
    <3> QED BY <1>0, <2>2, <2>3, <2>4, <2>6, <3>1 DEF RunStatusIsTrue
  <2>7. CASE CreateRun(q) /\ ~UpdateRun(q)
    <3>1. UNCHANGED runs \/ runs' = With(runs, q, [job |-> req[q].val, status |-> "running"])
      BY <2>7 DEF CreateRun
    <3>2. /\ DOMAIN runs' \subseteq DOMAIN runs \cup {q}
          /\ \A r \in DOMAIN runs' : r # q => runs'[r] = runs[r]
          /\ q \in DOMAIN runs' => runs'[q].status = "running"
      BY <2>4, <3>1 DEF With
    <3> QED BY <1>0, <2>2, <2>3, <2>7, <3>2 DEF RunStatusIsTrue
  <2>8. CASE UpdateRun(q)
    <3> DEFINE s == [req[q] EXCEPT !.pc = "over", !.sub = None]
               row == [runs[q] EXCEPT !.status = req[q].val]
    <3>1. req[q] \in ReqState /\ req[q].val \in {"done", "failed"}
      BY <2>8 DEF UpdateRun, At, ReqTypeOK, Prepared
    <3>2. req'[q].pc = "over" /\ req'[q].val = req[q].val
      <4>1. req' = [req EXCEPT ![q] = s]
        BY <2>8, <3>1 DEF UpdateRun, ReqTypeOK, ReqState
      <4>2. s.pc = "over" /\ s.val = req[q].val
        BY <3>1 DEF ReqState
      <4> HIDE DEF s
      <4> QED BY <4>1, <4>2 DEF ReqTypeOK
    <3>3. /\ DOMAIN runs' = DOMAIN runs
          /\ \A r \in DOMAIN runs' : r # q => runs'[r] = runs[r]
          /\ q \in DOMAIN runs' => runs'[q].status = req[q].val
      <4>1. \/ UNCHANGED runs /\ q \notin DOMAIN runs
            \/ q \in DOMAIN runs /\ runs' = [runs EXCEPT ![q] = row]
        BY <2>8 DEF UpdateRun
      <4>2. q \in DOMAIN runs => row.status = req[q].val
        BY DEF TypeOK, DataTypeOK
      <4> HIDE DEF row
      <4> QED BY <4>1, <4>2 DEF TypeOK, DataTypeOK
    <3>4. q \in DOMAIN runs' => True(q)'
      BY <3>2, <3>3
    <3> QED BY <1>0, <2>2, <3>3, <3>4 DEF RunStatusIsTrue
  <2> QED BY <1>4, <2>5, <2>6, <2>7, <2>8, JobWrites
<1> QED BY <1>1, <1>2, <1>3, <1>4, StepOf, BootWrites DEF CodeExpires, vars, dataVars, jobVars

(* A statement that takes a row away takes its references, one that names a *)
(* row finds it, whatever the request read before.                          *)
LEMMA ReferencesKept ==
  ASSUME TypeOK, ReqTypeOK, ReferencesHold, [Next]_vars
  PROVE  ReferencesHold'
<1> DEFINE JobsRefer == \A j \in DOMAIN jobs : jobs[j].account \in DOMAIN accounts \cup {None}
           RunsRefer == \A r \in DOMAIN runs : runs[r].job \in DOMAIN jobs
<1>0. loose \in BOOLEAN /\ JobsOK /\ RunsOK /\ (~loose => JobsRefer /\ RunsRefer)
  BY DEF TypeOK, DataTypeOK, JobsOK, JobRows, RunsOK, RunRows, ReferencesHold
<1>1. CASE UNCHANGED <<jobs, runs, loose>> /\ DOMAIN accounts \subseteq DOMAIN accounts'
  BY <1>0, <1>1 DEF ReferencesHold
<1>2. ASSUME NEW q \in Request, JobStep(q), loose' = FALSE PROVE ReferencesHold'
  <2>1. ~loose
    BY <1>0, <1>2, JobWrites DEF Connection
  <2>2. CASE InsertAccount(q)
    BY <1>1, <2>2, AccountsKept DEF InsertAccount, DeleteAccountRow, With
  <2>3. CASE DeleteAccountRow(q)
    <3> DEFINE a == req[q].val
               cut(j) == [jobs[j] EXCEPT !.account = None]
    <3>1. /\ jobs' = [j \in DOMAIN jobs |-> IF jobs[j].account = a THEN cut(j) ELSE jobs[j]]
          /\ accounts' = Without(accounts, a) /\ UNCHANGED runs
      <4>1. PICK enforced \in BOOLEAN :
              /\ Connection(enforced)
              /\ jobs' = [j \in DOMAIN jobs |->
                   IF enforced /\ jobs[j].account = a THEN cut(j) ELSE jobs[j]]
        BY <2>3 DEF DeleteAccountRow
      <4>2. enforced
        BY <1>2, <4>1 DEF Connection
      <4> QED BY <2>3, <4>1, <4>2 DEF DeleteAccountRow
    <3>2. DOMAIN accounts' = DOMAIN accounts \ {a}
      BY <3>1 DEF Without, Restrict
    <3>3. \A j \in DOMAIN jobs : cut(j).account = None
      BY <1>0 DEF JobsOK, JobRows
    <3> HIDE DEF cut
    <3>4. DOMAIN jobs' = DOMAIN jobs
      BY <3>1
    <3> QED BY <1>0, <2>1, <3>1, <3>2, <3>3, <3>4 DEF ReferencesHold
  <2>4. CASE InsertJob(q)
    <3> DEFINE row == [account |-> req[q].val, by |-> req[q].sub]
    <3>1. /\ UNCHANGED jobs \/ (req[q].val \in DOMAIN accounts /\ jobs' = With(jobs, q, row))
          /\ UNCHANGED <<accounts, runs>>
      BY <1>2, <2>4 DEF InsertJob, Connection, Names
    <3>2. DOMAIN jobs \subseteq DOMAIN jobs'
          /\ \A j \in DOMAIN jobs' : jobs'[j].account \in DOMAIN accounts \cup {None}
      BY <1>0, <2>1, <3>1 DEF With
    <3> QED BY <1>0, <2>1, <3>1, <3>2 DEF ReferencesHold
  <2>5. CASE UpdateJobRow(q)
    <3> DEFINE k == req[q].val[1]
               a == req[q].val[2]
               row == [jobs[k] EXCEPT !.account = a]
    <3>1. /\ \/ UNCHANGED jobs
             \/ k \in DOMAIN jobs /\ a \in DOMAIN accounts /\ jobs' = [jobs EXCEPT ![k] = row]
          /\ UNCHANGED <<accounts, runs>>
      BY <1>2, <2>5 DEF UpdateJobRow, Connection, Names
    <3>2. k \in DOMAIN jobs => row.account = a
      BY <1>0 DEF JobsOK, JobRows
    <3> HIDE DEF k, a, row
    <3>3. DOMAIN jobs' = DOMAIN jobs
          /\ \A j \in DOMAIN jobs' : jobs'[j].account \in DOMAIN accounts \cup {None}
      BY <1>0, <2>1, <3>1, <3>2 DEF JobsOK
    <3> QED BY <1>0, <2>1, <3>1, <3>3 DEF ReferencesHold
  <2>6. CASE DeleteJobRow(q)
    <3>1. /\ jobs' = Without(jobs, req[q].val)
          /\ runs' = Restrict(runs, {r \in DOMAIN runs : runs[r].job # req[q].val})
          /\ UNCHANGED accounts
      <4>1. PICK enforced \in BOOLEAN :
              /\ Connection(enforced)
              /\ runs' = Restrict(runs, {r \in DOMAIN runs : enforced => runs[r].job # req[q].val})
        BY <2>6 DEF DeleteJobRow
      <4>2. enforced
        BY <1>2, <4>1 DEF Connection
      <4>3. {r \in DOMAIN runs : enforced => runs[r].job # req[q].val}
              = {r \in DOMAIN runs : runs[r].job # req[q].val}
        BY <4>2
      <4> QED BY <2>6, <4>1, <4>3 DEF DeleteJobRow
    <3>2. /\ DOMAIN jobs' = DOMAIN jobs \ {req[q].val}
          /\ \A j \in DOMAIN jobs' : jobs'[j] = jobs[j]
          /\ \A r \in DOMAIN runs' : r \in DOMAIN runs /\ runs'[r] = runs[r]
                                     /\ runs[r].job # req[q].val
      BY <3>1 DEF Without, Restrict
    <3> QED BY <1>0, <2>1, <3>1, <3>2 DEF ReferencesHold
  <2>7. CASE CreateRun(q)
    <3> DEFINE row == [job |-> req[q].val, status |-> "running"]
    <3>1. /\ UNCHANGED runs \/ (req[q].val \in DOMAIN jobs /\ runs' = With(runs, q, row))
          /\ UNCHANGED <<accounts, jobs>>
      BY <1>2, <2>7 DEF CreateRun, Connection
    <3>2. \A r \in DOMAIN runs' : runs'[r].job \in DOMAIN jobs
      BY <1>0, <2>1, <3>1 DEF With
    <3> QED BY <1>0, <2>1, <3>1, <3>2 DEF ReferencesHold
  <2>8. CASE UpdateRun(q)
    <3> DEFINE row == [runs[q] EXCEPT !.status = req[q].val]
    <3>1. /\ UNCHANGED runs \/ (q \in DOMAIN runs /\ runs' = [runs EXCEPT ![q] = row])
          /\ UNCHANGED <<accounts, jobs>>
      BY <2>8 DEF UpdateRun
    <3>2. q \in DOMAIN runs => row.job = runs[q].job
      BY <1>0 DEF RunsOK, RunRows
    <3> HIDE DEF row
    <3>3. \A r \in DOMAIN runs' : runs'[r].job \in DOMAIN jobs
      BY <1>0, <2>1, <3>1, <3>2 DEF RunsOK
    <3> QED BY <1>0, <2>1, <3>1, <3>3 DEF ReferencesHold
  <2>9. CASE UNCHANGED <<accounts, jobs, runs>>
    BY <1>0, <2>1, <2>9 DEF ReferencesHold
  <2> QED BY <1>2, <2>2, <2>3, <2>4, <2>5, <2>6, <2>7, <2>8, <2>9, JobWrites
<1>3. loose' \in BOOLEAN
  BY <1>0, StepOf, AuthWrites, JobWrites, BootWrites
     DEF Connection, CodeExpires, vars, dataVars, jobVars
<1>4. CASE loose'
  BY <1>4 DEF ReferencesHold
<1>5. (\E q \in Request : JobStep(q)) \/ UNCHANGED <<jobs, runs, loose>>
  BY StepOf, AuthWrites, BootWrites DEF CodeExpires, vars, dataVars, jobVars
<1>6. ~(\E q \in Request : JobStep(q)) => DOMAIN accounts \subseteq DOMAIN accounts'
  <2>1. CASE BootNext
    <3>1. UNCHANGED accounts \/ ApplyStatement
      BY <2>1, BootWrites
    <3> QED BY <3>1 DEF ApplyStatement, Backfill
  <2> QED BY <2>1, StepOf, AuthWrites DEF CodeExpires, vars, dataVars, jobVars
<1> QED BY <1>1, <1>2, <1>3, <1>4, <1>5, <1>6

-----------------------------------------------------------------------------
(* The migrations of the databases there are at the start. *)
LEMMA InitFiles ==
  ASSUME Init
  PROVE  /\ BootTypeOK /\ FilesAreRun
         /\ ~Up /\ boot.pc # "record"
         /\ recorded[3] # 0 => ThisRelease
         /\ recorded[3] = 0 => ~ThisRelease
<1>1. DOMAIN Files = 1 .. 4 /\ Version = {1, 2, 3} /\ Len(Files) = 4
  BY FilesAre
<1>2. /\ boot \in [pc : {"down", "check", "exec", "record", "seed", "serving", "refused"},
                   file : 1 .. Len(Files) + 1, stmt : Nat \ {0}]
      /\ boot.pc = "down" /\ crashes \in 0 .. MaxCrashes
  <2>1. Down = [pc |-> "down", file |-> 1, stmt |-> 1]
    BY DEF Down
  <2> QED BY <1>1, <2>1, ServiceConstants DEF Init
<1>3. ThisRelease => recorded[3] # 0
  BY <1>1 DEF ThisRelease
<1>4. CASE NewDatabase
  <2>1. recorded = [v \in Version |-> 0] /\ ran = {}
    BY <1>4 DEF NewDatabase
  <2>2. recorded[3] = 0
    BY <1>1, <2>1
  <2> QED BY <1>1, <1>2, <1>3, <2>1, <2>2 DEF BootTypeOK, FilesAreRun, Up
<1>5. CASE FirstRelease
  <2>1. recorded = [v \in Version |-> IF v = 1 THEN 1 ELSE 0] /\ ran = Statements(1)
    BY <1>5 DEF FirstRelease
  <2>2. /\ recorded[1] = 1 /\ recorded[2] = 0 /\ recorded[3] = 0
        /\ recorded \in [Version -> {0} \cup DOMAIN Files]
    BY <1>1, <2>1
  <2>3. ran \subseteq UNION {Statements(f) : f \in DOMAIN Files}
    BY <1>1, <2>1
  <2>4. \A v \in Version : recorded[v] # 0 => Statements(recorded[v]) \subseteq ran
    BY <1>1, <2>1, <2>2
  <2> QED BY <1>2, <1>3, <2>2, <2>3, <2>4 DEF BootTypeOK, FilesAreRun, Up
<1>6. CASE ThisRelease
  <2>1. /\ recorded = [v \in Version |-> IF v = 3 THEN 4 ELSE v]
        /\ ran = Statements(1) \cup Statements(2) \cup Statements(4)
    BY <1>6 DEF ThisRelease
  <2>2. /\ recorded[1] = 1 /\ recorded[2] = 2 /\ recorded[3] = 4
        /\ recorded \in [Version -> {0} \cup DOMAIN Files]
    BY <1>1, <2>1
  <2>3. ran \subseteq UNION {Statements(f) : f \in DOMAIN Files}
    BY <1>1, <2>1
  <2>4. \A v \in Version : Statements(recorded[v]) \subseteq ran
    BY <1>1, <2>1, <2>2
  <2> QED BY <1>2, <1>6, <2>2, <2>3, <2>4 DEF BootTypeOK, FilesAreRun, Up
<1> QED BY <1>4, <1>5, <1>6 DEF Init

(* Their rows. *)
LEMMA InitRows ==
  ASSUME Init
  PROVE  /\ UsersOK /\ tokens \subseteq TokenRows /\ AccountsOK /\ JobsOK
         /\ ~ThisRelease => \A u \in DOMAIN users : users[u].role = "admin"
         /\ ThisRelease => Owned
         /\ \A u \in DOMAIN users : users[u].by = None
         /\ \A t \in tokens : t.epoch = "current"
         /\ \A j \in DOMAIN jobs : jobs[j].account \in DOMAIN accounts
<1>1. Root \in User /\ Ann \in User /\ A1 \in AccountId /\ J1 \in JobId
  BY DEF User, AccountId, JobId
<1>2. UserRow("admin") \in UserRows /\ UserRow("user") \in UserRows
      /\ \A role : UserRow(role).by = None /\ UserRow(role).role = role
  BY DEF UserRow, UserRows, Role
<1>3. ASSUME NEW f, f = <<>> PROVE DOMAIN f = {} /\ f = [x \in DOMAIN f |-> f[x]]
  BY <1>3
<1>4. CASE NewDatabase
  <2>1. DOMAIN users = {} /\ DOMAIN accounts = {} /\ DOMAIN jobs = {} /\ tokens = {}
    BY <1>3, <1>4 DEF NewDatabase
  <2>2. UsersOK /\ AccountsOK /\ JobsOK
    BY <1>4, <2>1 DEF NewDatabase, UsersOK, AccountsOK, JobsOK
  <2> QED BY <2>1, <2>2 DEF Owned
<1>5. CASE FirstRelease
  <2>1. /\ users = <<>> \/ users = [u \in {Root} |-> UserRow("admin")]
        /\ tokens = {} /\ accounts = [a \in {A1} |-> None] /\ jobs = <<>>
    BY <1>5 DEF FirstRelease
  <2>2. UsersOK /\ \A u \in DOMAIN users : users[u].role = "admin" /\ users[u].by = None
    <3>1. CASE users = <<>>
      <4>1. DOMAIN users = {} /\ users = [x \in DOMAIN users |-> users[x]]
        BY <1>3, <3>1
      <4> QED BY <4>1 DEF UsersOK
    <3>2. CASE users = [u \in {Root} |-> UserRow("admin")]
      BY <1>1, <1>2, <3>2 DEF UsersOK
    <3> QED BY <2>1, <3>1, <3>2
  <2>3. AccountsOK /\ JobsOK /\ DOMAIN jobs = {}
    BY <1>1, <2>1 DEF AccountsOK, JobsOK
  <2>4. ~ThisRelease
    <3>1. A1 \in {A1} /\ Ann # None
      BY ServiceConstants
    <3>2. accounts[A1] = None
      BY <2>1
    <3> QED BY <3>1, <3>2 DEF ThisRelease
  <2> QED BY <2>1, <2>2, <2>3, <2>4
<1>6. CASE ThisRelease
  <2>1. /\ users = [u \in User |-> UserRow(IF u = Root THEN "admin" ELSE "user")]
        /\ tokens = {Session(Root), Session(Ann)}
        /\ accounts = [a \in {A1} |-> Ann]
        /\ jobs = [j \in {J1} |-> [account |-> A1, by |-> Ann]]
    BY <1>6 DEF ThisRelease
  <2>2. UsersOK /\ \A u \in DOMAIN users : users[u].by = None
    BY <1>2, <2>1 DEF UsersOK
  <2>3. tokens \subseteq TokenRows /\ \A t \in tokens : t.epoch = "current"
    BY <1>1, <2>1 DEF Session, TokenRows
  <2>4. AccountsOK /\ Owned
    BY <1>1, <2>1, ServiceConstants DEF AccountsOK, Owned
  <2>5. JobsOK /\ \A j \in DOMAIN jobs : jobs[j].account \in DOMAIN accounts
    BY <1>1, <2>1 DEF JobsOK, JobRows
  <2> QED BY <1>6, <2>2, <2>3, <2>4, <2>5
<1> QED BY <1>4, <1>5, <1>6 DEF Init

(* A new database, and those an earlier release leaves, satisfy it. *)
LEMMA InitSInv == Init => SInv
<1> SUFFICES ASSUME Init PROVE SInv
  OBVIOUS
<1>1. Fresh = [op |-> "none", pc |-> "new", sub |-> None, user |-> None, val |-> None]
  BY DEF Fresh
<1>2. /\ codes = {} /\ received = {} /\ runs = <<>> /\ loose = FALSE /\ failures = 0
      /\ req = [q \in Request |-> Fresh]
  BY DEF Init
<1>3. ReqTypeOK
  <2>1. Fresh \in ReqState /\ Prepared(Fresh)
    BY <1>1 DEF ReqState, Prepared, Val, UserPc, JobPc
  <2> QED BY <1>2, <2>1 DEF ReqTypeOK
<1>4. RunsOK /\ DOMAIN runs = {}
  BY <1>2 DEF RunsOK
<1>5. DataTypeOK
  <2>1. \A q \in Request :
          /\ DOMAIN req[q] = DOMAIN Fresh
          /\ req[q].sub \in User \cup {None}
          /\ req[q].user \in User \cup {None}
          /\ req[q].pc \in {"new", "over"} => req[q].sub = None
    BY <1>1, <1>2
  <2>2. received \in SUBSET Request /\ loose \in BOOLEAN /\ failures \in 0 .. MaxFailures
    <3>1. MaxFailures \in Nat
      BY ServiceConstants
    <3>2. failures \in 0 .. MaxFailures
      BY <1>2, <3>1
    <3>3. received \in SUBSET Request /\ loose \in BOOLEAN
      BY <1>2
    <3> QED BY <3>2, <3>3
  <2>3. codes \subseteq CodeRows
    BY <1>2
  <2> QED BY <1>4, <2>1, <2>2, <2>3, InitRows
          DEF DataTypeOK, UsersOK, UserRows, TokenRows, CodeRows, AccountsOK, JobsOK, JobRows,
              RunsOK, RunRows
<1>6. StartIsInOrder
  BY InitFiles, InitRows DEF StartIsInOrder
<1>7. OldSessionsEnd
  BY InitRows DEF OldSessionsEnd
<1>8. CodesComeFirst
  <2>1. \A u \in DOMAIN users : users[u].by \notin Request
    BY InitRows, ServiceConstants
  <2>2. \A q \in Request : req[q].pc # "createUser"
    BY <1>1, <1>2
  <2> QED BY <2>1, <2>2 DEF CodesComeFirst, PendingHasCode
<1>9. RunStatusIsTrue
  BY <1>4 DEF RunStatusIsTrue
<1>10. ReferencesHold
  BY <1>4, InitRows DEF ReferencesHold
<1> QED BY <1>3, <1>5, <1>6, <1>7, <1>8, <1>9, <1>10, InitFiles DEF SInv, TypeOK

(* The invariant is inductive. *)
LEMMA NextSInv == SInv /\ [Next]_vars => SInv'
  BY TypesKept, StartKept, SessionsKept, CodeKept, RunStatusKept, ReferencesKept DEF SInv

(* So it holds in every state. *)
LEMMA SInvHolds == Spec => []SInv
  BY InitSInv, NextSInv, PTL DEF Spec

-----------------------------------------------------------------------------
(* Every variable of the service, and what a request holds, is of its type. *)
THEOREM ServiceTypeCorrect == Spec => []TypeOK
<1>1. SInv => TypeOK
  BY DEF SInv
<1> QED BY <1>1, SInvHolds, PTL

(* A recorded file was run, whatever crash came between its statements; the *)
(* server serves a database that is migrated, whose old accounts are owned. *)
THEOREM MigrationsAreRun == Spec => []MigrationsHold
<1>1. SInv => MigrationsHold
  <2> SUFFICES ASSUME SInv PROVE MigrationsHold
    OBVIOUS
  <2>1. FilesAreRun /\ StartIsInOrder
    BY DEF SInv, StartIsInOrder
  <2>2. Up => recorded[3] # 0
    BY <2>1, FilesAre DEF FilesAreRun, Up
  <2>3. Up => Owned /\ Root \in DOMAIN users
    BY <2>1, <2>2 DEF StartIsInOrder
  <2> QED BY <2>1, <2>3 DEF MigrationsHold, FilesAreRun, Owned, Up
<1> QED BY <1>1, SInvHolds, PTL

(* A session older than the password, or the access, of its user has its end *)
(* ahead, unless its revocation was cut short or its login was under way.    *)
THEOREM SessionsAreEnded == Spec => []OldSessionsEnd
<1>1. SInv => OldSessionsEnd
  BY DEF SInv
<1> QED BY <1>1, SInvHolds, PTL

(* Whoever registered has a code, at every point a crash may come. *)
THEOREM NobodyWithoutCode == Spec => []PendingHasCode
<1>1. SInv => PendingHasCode
  BY DEF SInv, CodesComeFirst
<1> QED BY <1>1, SInvHolds, PTL

(* A row of a run says what became of it, whatever other requests do. *)
THEOREM RunsTellTheTruth == Spec => []RunStatusIsTrue
<1>1. SInv => RunStatusIsTrue
  BY DEF SInv
<1> QED BY <1>1, SInvHolds, PTL

(* With foreign keys enforced, no interleaving leaves a reference to a row *)
(* that is gone.                                                           *)
THEOREM NoDanglingReferences == Spec => []ReferencesHold
<1>1. SInv => ReferencesHold
  BY DEF SInv
<1> QED BY <1>1, SInvHolds, PTL
=============================================================================
