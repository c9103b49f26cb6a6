------------------------------ MODULE Migrations ------------------------------
(***************************************************************************)
(* The start of the process: the entrypoint runs migrate and seed, and     *)
(* serve (scripts/docker-entrypoint.sh).  migrate (internal/db/db.go) runs *)
(* the files of the migrations directory in the order of their names,      *)
(* unless schema_migrations has their number.  A file's statements and the *)
(* record of its number commit one by one, and a crash may come between.   *)
(***************************************************************************)
EXTENDS ServiceData, Sequences

VARIABLES
    recorded,              \* [1 .. 3 -> number of the file schema_migrations names, or 0]
    ran,                   \* the statements that were run, <<file, statement>>
    boot,                  \* [pc, file, stmt]: what the process is at
    crashes                \* bound: ends of the process

bootVars == <<recorded, ran, boot, crashes>>

(* The files in the order of sort.Slice; "down" comes before "up". *)
Files == <<
    [version |-> 1, sql |-> <<"tables">>],
    [version |-> 2, sql |-> <<"drop cursor index">>],
    [version |-> 2, sql |-> <<"cursor index">>],
    [version |-> 3, sql |-> <<"add owner_id", "owner index", "backfill owner_id">>]>>

Version == {Files[f].version : f \in DOMAIN Files}
Statements(f) == {<<f, i>> : i \in DOMAIN Files[f].sql}
Down == [pc |-> "down", file |-> 1, stmt |-> 1]
Up == boot.pc = "serving"

BootTypeOK ==
    /\ recorded \in [Version -> {0} \cup DOMAIN Files]
    /\ ran \subseteq UNION {Statements(f) : f \in DOMAIN Files}
    /\ boot \in [pc : {"down", "check", "exec", "record", "seed", "serving", "refused"},
                 file : 1 .. Len(Files) + 1, stmt : Nat \ {0}]
    /\ crashes \in 0 .. MaxCrashes

(* Open: the directory is opened, the files are gone through. *)
Open ==
    /\ boot.pc = "down"
    /\ boot' = [Down EXCEPT !.pc = "check"]
    /\ UNCHANGED <<dataVars, recorded, ran, crashes>>

(* Variant for testing the checks: the number is recorded before the SQL runs. *)
CheckAndRecord ==
    /\ boot.pc = "check"
    /\ boot.file \in DOMAIN Files
    /\ LET v == Files[boot.file].version IN
         /\ recorded' = [recorded EXCEPT ![v] = IF @ = 0 THEN boot.file ELSE @]
         /\ boot' = IF recorded[v] = 0 THEN [boot EXCEPT !.pc = "exec"]
                    ELSE [boot EXCEPT !.file = @ + 1]
    /\ UNCHANGED <<dataVars, ran, crashes>>

(* A file whose number is recorded is skipped, whichever file was recorded. *)
CheckMigration ==
    /\ boot.pc = "check"
    /\ boot.file \in DOMAIN Files
    /\ boot' = IF recorded[Files[boot.file].version] = 0
                 THEN [boot EXCEPT !.pc = "exec", !.stmt = 1]
                 ELSE [boot EXCEPT !.file = @ + 1]
    /\ UNCHANGED <<dataVars, recorded, ran, crashes>>

(* The accounts without an owner get the first admin, if there is one. *)
Backfill ==
    accounts' = [a \in DOMAIN accounts |->
        IF accounts[a] = None /\ \E u \in DOMAIN users : users[u].role = "admin"
          THEN CHOOSE u \in DOMAIN users : users[u].role = "admin"
          ELSE accounts[a]]

(* The statements but one may run again; the column must not be there yet. *)
ApplyStatement ==
    /\ boot.pc = "exec"
    /\ LET s == <<boot.file, boot.stmt>>
           sql == Files[boot.file].sql
           last == boot.stmt = Len(sql)
       IN /\ ~(sql[boot.stmt] = "add owner_id" /\ s \in ran)
          /\ ran' = ran \cup {s}
          /\ IF sql[boot.stmt] = "backfill owner_id" THEN Backfill ELSE UNCHANGED accounts
          /\ boot' = [boot EXCEPT !.pc = IF last THEN "record" ELSE "exec",
                                  !.stmt = IF last THEN 1 ELSE @ + 1]
    /\ UNCHANGED <<authVars, jobs, runs, loose, req, failures, recorded, crashes>>

(* ALTER TABLE fails: "duplicate column name".  The process does not start, *)
(* and neither does the next.                                               *)
ApplyRefused ==
    /\ boot.pc = "exec"
    /\ Files[boot.file].sql[boot.stmt] = "add owner_id"
    /\ <<boot.file, boot.stmt>> \in ran
    /\ boot' = [Down EXCEPT !.pc = "refused"]
    /\ UNCHANGED <<dataVars, recorded, ran, crashes>>

RecordMigration ==
    /\ boot.pc = "record"
    /\ recorded' = [recorded EXCEPT ![Files[boot.file].version] = boot.file]
    /\ boot' = [boot EXCEPT !.pc = "check", !.file = @ + 1]
    /\ UNCHANGED <<dataVars, ran, crashes>>

MigrationsDone ==
    /\ boot.pc = "check"
    /\ boot.file \notin DOMAIN Files
    /\ boot' = [Down EXCEPT !.pc = "seed"]
    /\ UNCHANGED <<dataVars, recorded, ran, crashes>>

AdminRow == [role |-> "admin", active |-> TRUE, by |-> "seed"]

(* seedAdmin without --force leaves an existing admin alone. *)
SeedAdmin ==
    /\ boot.pc = "seed"
    /\ users' = IF Root \in DOMAIN users THEN users ELSE With(users, Root, AdminRow)
    /\ boot' = [boot EXCEPT !.pc = "serving"]
    /\ UNCHANGED <<tokens, codes, received, jobVars, req, failures, recorded, ran, crashes>>

(* seed --force, beside the server: the row is an active admin's again.  The *)
(* sessions that are open stay open.                                         *)
SeedForce ==
    /\ Up
    /\ Root \in DOMAIN users
    /\ users' = [users EXCEPT ![Root].role = "admin", ![Root].active = TRUE]
    /\ UNCHANGED <<tokens, codes, received, jobVars, req, failures, bootVars>>

(* The process ends, at the start or with requests at work. *)
Crash ==
    /\ boot.pc \notin {"down", "refused"}
    /\ crashes < MaxCrashes
    /\ crashes' = crashes + 1
    /\ boot' = Down
    /\ req' = [q \in Request |-> IF req[q].pc \in {"new", "over"} THEN req[q] ELSE Over]
    /\ tokens' = {[t EXCEPT !.epoch = IF @ = "old" THEN "spared" ELSE @] : t \in tokens}
    /\ UNCHANGED <<users, codes, received, jobVars, failures, recorded, ran>>

BootNext ==
    \/ Open \/ CheckMigration \/ ApplyStatement \/ ApplyRefused \/ RecordMigration
    \/ MigrationsDone \/ SeedAdmin \/ SeedForce \/ Crash
=============================================================================
