----------------------------- MODULE ServiceData -----------------------------
(***************************************************************************)
(* What the requests of the HTTP API share: the tables users, user_tokens, *)
(* user_otps, mail_accounts, cleanup_jobs and cleanup_job_runs             *)
(* (internal/db/migrations), and the requests in progress.  A request is a *)
(* goroutine; each of its statements is a step and commits by itself.      *)
(*                                                                         *)
(* A name, a password, a filter are left out: no property tells two of     *)
(* them apart.  A row that a request inserts has the request for its id.   *)
(***************************************************************************)
EXTENDS Naturals, FiniteSets, Functions

CONSTANTS
    Root, Ann,             \* admin@localhost of the seed, and another address
    A1, J1,                \* an account and a job of an earlier process
    Request,               \* bound: requests, each made once
    None,                  \* NULL, and the creator of rows there were before
    MaxFailures,           \* bound: statements that fail
    MaxCrashes             \* bound: ends of the process

ASSUME ServiceConstants ==
    /\ MaxFailures \in Nat /\ MaxCrashes \in Nat
    /\ Root # Ann
    /\ {Root, Ann, A1, J1, None, "seed"} \cap Request = {}
    /\ None \notin {Root, Ann, A1, J1, "seed"}

User == {Root, Ann}
AccountId == {A1} \cup Request
JobId == {J1} \cup Request
Role == {"user", "admin"}
Instant == 1 .. Cardinality(Request)

VARIABLES
    users,                 \* [SUBSET User -> role, is_active and the request that inserted it]
    tokens,                \* set of rows of user_tokens; epoch is a history, see Auth
    codes,                 \* set of rows of user_otps; at orders created_at
    received,              \* SUBSET Request: the codes that arrived by mail
    accounts,              \* [SUBSET AccountId -> owner_id]
    jobs,                  \* [SUBSET JobId -> account_id and created_by]
    runs,                  \* [SUBSET Request -> job_id and status]
    loose,                 \* history: a statement went without foreign keys
    req,                   \* [Request -> what the goroutine holds]
    failures               \* bound: statements that failed

authVars == <<users, tokens, codes, received>>
jobVars == <<accounts, jobs, runs, loose>>
dataVars == <<authVars, jobVars, req, failures>>

Fresh == [op |-> "none", pc |-> "new", sub |-> None, user |-> None, val |-> None]
Over == [Fresh EXCEPT !.pc = "over"]

New(q) == req[q].pc = "new"
At(q, pc) == req[q].pc = pc
Goto(q, pc) == req' = [req EXCEPT ![q].pc = pc]
Starts(q, r) == req' = [req EXCEPT ![q] = r]
End(q) == req' = [req EXCEPT ![q] = Over]

(* A statement fails, for lack of a lock or of space, and the request with it. *)
Failure == failures < MaxFailures /\ failures' = failures + 1

Fails(q) ==
    /\ Failure
    /\ End(q)
    /\ UNCHANGED <<authVars, jobVars>>

Without(f, x) == Restrict(f, DOMAIN f \ {x})
With(f, x, v) == [y \in DOMAIN f \cup {x} |-> IF y = x THEN v ELSE f[y]]

ActiveUser(u) == u \in DOMAIN users /\ users[u].active

(* SessionAuth: a request with a token of an active user is that user's.  It *)
(* reads the role with it; what it did not change since, it still believes.  *)
Subject(u) == ActiveUser(u) /\ \E t \in tokens : t.user = u
Admin(u) == Subject(u) /\ users[u].role = "admin"

(* EnsureAccountAccess: an admin needs no row, another user must own it. *)
AccountAccess(u, a) ==
    Subject(u) /\ (Admin(u) \/ (a \in DOMAIN accounts /\ accounts[a] = u))

DataTypeOK ==
    /\ DOMAIN users \subseteq User
    /\ users \in [DOMAIN users ->
         [role : Role, active : BOOLEAN, by : {None, "seed"} \cup Request]]
    /\ tokens \subseteq [id : User \cup Request, user : User, epoch : {"current", "old", "spared"}]
    /\ codes \subseteq [id : Request, user : User, type : {"registration", "forgot_password"},
                        at : Instant, used : BOOLEAN, expired : BOOLEAN]
    /\ received \in SUBSET Request
    /\ DOMAIN accounts \subseteq AccountId
    /\ accounts \in [DOMAIN accounts -> User \cup {None}]
    /\ DOMAIN jobs \subseteq JobId
    /\ jobs \in [DOMAIN jobs -> [account : AccountId \cup {None}, by : User]]
    /\ DOMAIN runs \subseteq Request
    /\ runs \in [DOMAIN runs -> [job : JobId, status : {"running", "done", "failed"}]]
    /\ loose \in BOOLEAN
    /\ failures \in 0 .. MaxFailures
    /\ \A q \in Request :
         /\ DOMAIN req[q] = DOMAIN Fresh
         /\ req[q].sub \in User \cup {None}
         /\ req[q].user \in User \cup {None}
         /\ req[q].pc \in {"new", "over"} => req[q].sub = None
=============================================================================
