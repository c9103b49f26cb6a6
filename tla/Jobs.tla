-------------------------------- MODULE Jobs --------------------------------
(***************************************************************************)
(* Accounts, cleanup jobs and the rows of their runs                       *)
(* (internal/service/account/service.go, internal/service/cleanup/         *)
(* service.go and their repositories).  What a run does on the server is   *)
(* module Cleanup; here it ends, well or not.                              *)
(*                                                                         *)
(* A statement goes over any connection of the pool.  "PRAGMA foreign_keys *)
(* = ON" was run on one of them (internal/db/db.go, applyPragmas): on      *)
(* another a reference is neither checked nor followed.                    *)
(***************************************************************************)
EXTENDS ServiceData

JobAsk(op, pc, sub, val) == [op |-> op, pc |-> pc, sub |-> sub, user |-> None, val |-> val]

(* The statement goes over a connection that enforces foreign keys, or not. *)
Connection(enforced) == loose' = (loose \/ ~enforced)

-----------------------------------------------------------------------------
(* Service.Create: the user who asks is the owner. *)
CreateAccount(q, u) ==
    /\ New(q)
    /\ Subject(u)
    /\ Starts(q, JobAsk("account", "createAccount", u, None))
    /\ UNCHANGED <<authVars, jobVars, failures>>

InsertAccount(q) ==
    /\ At(q, "createAccount")
    /\ accounts' = With(accounts, q, req[q].sub)
    /\ End(q)
    /\ UNCHANGED <<authVars, jobs, runs, loose, failures>>

(* Service.Delete: access is checked, the row is deleted after it. *)
DeleteAccount(q, u, a) ==
    /\ New(q)
    /\ AccountAccess(u, a)
    /\ Starts(q, JobAsk("account", "deleteAccount", u, a))
    /\ UNCHANGED <<authVars, jobVars, failures>>

(* Variant for testing the checks: a reference without ON DELETE SET NULL.  *)
DeleteAccountRowOnly(q) ==
    /\ At(q, "deleteAccount")
    /\ accounts' = Without(accounts, req[q].val)
    /\ End(q)
    /\ UNCHANGED <<authVars, jobs, runs, loose, failures>>

(* ON DELETE SET NULL for the jobs of the account. *)
DeleteAccountRow(q) ==
    /\ At(q, "deleteAccount")
    /\ \E enforced \in BOOLEAN :
         /\ Connection(enforced)
         /\ jobs' = [j \in DOMAIN jobs |->
              IF enforced /\ jobs[j].account = req[q].val
                THEN [jobs[j] EXCEPT !.account = None] ELSE jobs[j]]
    /\ accounts' = Without(accounts, req[q].val)
    /\ End(q)
    /\ UNCHANGED <<authVars, runs, failures>>
-----------------------------------------------------------------------------
(* GetJob cannot read a job whose account_id is NULL: Scan fails.  An admin, *)
(* the creator, or who has access to the account gets on.                    *)
Readable(j) == j \in DOMAIN jobs /\ jobs[j].account # None

JobAccess(u, j) ==
    /\ Readable(j)
    /\ Subject(u)
    /\ Admin(u) \/ jobs[j].by = u \/ AccountAccess(u, jobs[j].account)

(* The account a job names must be there, where references are checked. *)
Names(a, enforced) == ~enforced \/ a \in DOMAIN accounts

(* CreateJob, UpdateJob, DeleteJob and Run read and check, and then write. *)
CreateJob(q, u, a) ==
    /\ New(q)
    /\ AccountAccess(u, a)
    /\ Starts(q, JobAsk("job", "createJob", u, a))
    /\ UNCHANGED <<authVars, jobVars, failures>>

InsertJob(q) ==
    /\ At(q, "createJob")
    /\ \E enforced \in BOOLEAN :
         /\ Connection(enforced)
         /\ jobs' = IF Names(req[q].val, enforced)
                      THEN With(jobs, q, [account |-> req[q].val, by |-> req[q].sub]) ELSE jobs
    /\ End(q)
    /\ UNCHANGED <<authVars, accounts, runs, failures>>

UpdateJob(q, u, j, a) ==
    /\ New(q)
    /\ JobAccess(u, j)
    /\ AccountAccess(u, a)
    /\ Starts(q, JobAsk("job", "updateJob", u, <<j, a>>))
    /\ UNCHANGED <<authVars, jobVars, failures>>

UpdateJobRow(q) ==
    /\ At(q, "updateJob")
    /\ LET j == req[q].val[1]
           a == req[q].val[2]
       IN \E enforced \in BOOLEAN :
            /\ Connection(enforced)
            /\ jobs' = IF j \in DOMAIN jobs /\ Names(a, enforced)
                         THEN [jobs EXCEPT ![j].account = a] ELSE jobs
    /\ End(q)
    /\ UNCHANGED <<authVars, accounts, runs, failures>>

DeleteJob(q, u, j) ==
    /\ New(q)
    /\ JobAccess(u, j)
    /\ Starts(q, JobAsk("job", "deleteJob", u, j))
    /\ UNCHANGED <<authVars, jobVars, failures>>

(* ON DELETE CASCADE for the runs of the job. *)
DeleteJobRow(q) ==
    /\ At(q, "deleteJob")
    /\ jobs' = Without(jobs, req[q].val)
    /\ \E enforced \in BOOLEAN :
         /\ Connection(enforced)
         /\ runs' = Restrict(runs, {r \in DOMAIN runs : enforced => runs[r].job # req[q].val})
    /\ End(q)
    /\ UNCHANGED <<authVars, accounts, failures>>
-----------------------------------------------------------------------------
Run(q, u, j) ==
    /\ New(q)
    /\ JobAccess(u, j)
    /\ Starts(q, JobAsk("run", "createRun", u, j))
    /\ UNCHANGED <<authVars, jobVars, failures>>

(* CreateRun, and the goroutine starts; without the row it does not. *)
CreateRun(q) ==
    /\ At(q, "createRun")
    /\ \E enforced \in BOOLEAN :
         /\ Connection(enforced)
         /\ IF ~enforced \/ req[q].val \in DOMAIN jobs
              THEN /\ runs' = With(runs, q, [job |-> req[q].val, status |-> "running"])
                   /\ req' = [req EXCEPT ![q].pc = "execute", ![q].val = None]
              ELSE End(q) /\ UNCHANGED runs
    /\ UNCHANGED <<authVars, accounts, jobs, failures>>

(* Execute, with nil or an error. *)
Execute(q, outcome) ==
    /\ At(q, "execute")
    /\ req' = [req EXCEPT ![q].pc = "updateRun", ![q].val = outcome]
    /\ UNCHANGED <<authVars, jobVars, failures>>

(* Variant for testing the checks: WHERE job_id = ?, status = 'running'.    *)
UpdateRunOfJob(q) ==
    /\ At(q, "updateRun")
    /\ runs' = [r \in DOMAIN runs |->
         IF q \in DOMAIN runs /\ runs[r].job = runs[q].job /\ runs[r].status = "running"
           THEN [runs[r] EXCEPT !.status = req[q].val] ELSE runs[r]]
    /\ req' = [req EXCEPT ![q].pc = "over", ![q].sub = None]
    /\ UNCHANGED <<authVars, accounts, jobs, loose, failures>>

(* Variant for testing the checks: a status the column does not admit.      *)
UpdateRunInterrupted(q) ==
    /\ At(q, "updateRun")
    /\ runs' = IF q \in DOMAIN runs THEN [runs EXCEPT ![q].status = "interrupted"] ELSE runs
    /\ req' = [req EXCEPT ![q].pc = "over", ![q].sub = None]
    /\ UNCHANGED <<authVars, accounts, jobs, loose, failures>>

(* UpdateRun; a row that is gone with its job stays gone. *)
UpdateRun(q) ==
    /\ At(q, "updateRun")
    /\ runs' = IF q \in DOMAIN runs THEN [runs EXCEPT ![q].status = req[q].val] ELSE runs
    /\ req' = [req EXCEPT ![q].pc = "over", ![q].sub = None]
    /\ UNCHANGED <<authVars, accounts, jobs, loose, failures>>

(* The error of UpdateRun is ignored: the row goes on to say "running". *)
JobFails(q) ==
    /\ req[q].pc \in {"createAccount", "deleteAccount", "createJob", "updateJob",
                      "deleteJob", "createRun", "updateRun"}
    /\ Fails(q)

JobStep(q) ==
    \/ \E u \in User :
         \/ CreateAccount(q, u)
         \/ \E a \in DOMAIN accounts :
              \/ DeleteAccount(q, u, a) \/ CreateJob(q, u, a)
              \/ \E j \in DOMAIN jobs : UpdateJob(q, u, j, a)
         \/ \E j \in DOMAIN jobs : DeleteJob(q, u, j) \/ Run(q, u, j)
    \/ InsertAccount(q) \/ DeleteAccountRow(q)
    \/ InsertJob(q) \/ UpdateJobRow(q) \/ DeleteJobRow(q)
    \/ CreateRun(q) \/ UpdateRun(q) \/ JobFails(q)
    \/ \E outcome \in {"done", "failed"} : Execute(q, outcome)
=============================================================================
