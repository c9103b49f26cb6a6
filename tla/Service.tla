------------------------------- MODULE Service -------------------------------
(***************************************************************************)
(* The service around the archive: it migrates the database it finds,      *)
(* seeds the admin and serves requests, concurrently, until it crashes     *)
(* (cmd/giraffemail/main.go, internal/api/router.go).                      *)
(***************************************************************************)
EXTENDS Migrations, Auth, Jobs

vars == <<dataVars, bootVars>>

UserRow(role) == [role |-> role, active |-> TRUE, by |-> None]
Session(u) == [id |-> u, user |-> u, epoch |-> "current"]

(* The databases there are: none yet; one of the first release, with or     *)
(* without an admin; one of this release, with a user, an account, a job    *)
(* and two open sessions.                                                   *)
NewDatabase ==
    /\ recorded = [v \in Version |-> 0]
    /\ ran = {}
    /\ users = <<>>
    /\ tokens = {}
    /\ accounts = <<>>
    /\ jobs = <<>>

FirstRelease ==
    /\ recorded = [v \in Version |-> IF v = 1 THEN 1 ELSE 0]
    /\ ran = Statements(1)
    /\ users \in {<<>>, [u \in {Root} |-> UserRow("admin")]}
    /\ tokens = {}
    /\ accounts = [a \in {A1} |-> None]
    /\ jobs = <<>>

ThisRelease ==
    /\ recorded = [v \in Version |-> IF v = 3 THEN 4 ELSE v]
    /\ ran = Statements(1) \cup Statements(2) \cup Statements(4)
    /\ users = [u \in User |-> UserRow(IF u = Root THEN "admin" ELSE "user")]
    /\ tokens = {Session(Root), Session(Ann)}
    /\ accounts = [a \in {A1} |-> Ann]
    /\ jobs = [j \in {J1} |-> [account |-> A1, by |-> Ann]]

Init ==
    /\ NewDatabase \/ FirstRelease \/ ThisRelease
    /\ codes = {}
    /\ received = {}
    /\ runs = <<>>
    /\ loose = FALSE
    /\ req = [q \in Request |-> Fresh]
    /\ failures = 0
    /\ boot = Down
    /\ crashes = 0

Next ==
    \/ BootNext
    \/ Up /\ (AuthNext \/ \E q \in Request : JobStep(q)) /\ UNCHANGED bootVars

Spec == Init /\ [][Next]_vars
-----------------------------------------------------------------------------
(* Every variable holds a value its column or Go type admits. *)
TypeOK == DataTypeOK /\ BootTypeOK

(* What schema_migrations records was run to its last statement, whatever   *)
(* crash came between; the server serves only when every number is          *)
(* recorded; and the accounts of the first release are the admin's then, if *)
(* there was one ("migration backfills existing rows to the first admin").  *)
MigrationsHold ==
    /\ \A v \in Version : recorded[v] # 0 => Statements(recorded[v]) \subseteq ran
    /\ Up =>
         /\ \A v \in Version : recorded[v] # 0
         /\ users[Root].by = None => \A a \in DOMAIN accounts : accounts[a] # None

(* A new password, or the end of a user's access, ends the sessions there   *)
(* were: one that is still open has its revocation ahead, unless that was   *)
(* cut short, or its login was already under way (ChangePassword,           *)
(* OTPForgotPassword, SetUserActive; seed --force ends none).               *)
OldSessionsEnd ==
    \A t \in tokens : t.epoch = "old" =>
        \E q \in Request : req[q].user = t.user /\ req[q].pc \in {"findUser", "revoke"}

(* Nobody is registered without a code: the row of a user who registered    *)
(* has its code in user_otps, so that neither a crash nor a failure leaves  *)
(* an address that can neither register again nor be confirmed (Register    *)
(* stores the code first).                                                  *)
PendingHasCode ==
    \A u \in DOMAIN users : users[u].by \in Request => \E c \in codes : c.id = users[u].by

(* A row of cleanup_job_runs tells of its own run, whatever other runs of   *)
(* the job end meanwhile: "running" while it is at work, then the outcome;  *)
(* "running" for ever only if the end was lost (Run, UpdateRun).            *)
RunStatusIsTrue ==
    \A r \in DOMAIN runs :
        /\ req[r].pc \in {"execute", "updateRun"} => runs[r].status = "running"
        /\ runs[r].status # "running" => req[r].pc = "over" /\ req[r].val = runs[r].status
        /\ req[r].pc = "over" /\ req[r].val # None => runs[r].status = req[r].val

(* As long as every statement went over a connection that enforces foreign  *)
(* keys, the rows a job and a run name are there, although each request     *)
(* checks in one statement and writes in another.                           *)
ReferencesHold ==
    loose \/
        /\ \A j \in DOMAIN jobs : jobs[j].account \in DOMAIN accounts \cup {None}
        /\ \A r \in DOMAIN runs : runs[r].job \in DOMAIN jobs
=============================================================================
