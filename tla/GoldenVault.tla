----------------------------- MODULE GoldenVault -----------------------------
(***************************************************************************)
(* What the program promises for the texts of one account (README.md, the  *)
(* golden rule): a text on the server may be archived, what is archived    *)
(* stays so and may be taken off the server, or put back.  While no other  *)
(* mail client deletes, nothing else ever leaves the server.               *)
(***************************************************************************)
CONSTANT Body              \* the texts

VARIABLES
    server,                \* the texts of which a mailbox has a message
    archive                \* the texts that a row and a blob keep

goldenVars == <<server, archive>>

GoldenInit == server = {} /\ archive = {}

Arrive(b) == server' = server \cup {b} /\ UNCHANGED archive

Keep(b) ==
    /\ b \in server
    /\ archive' = archive \cup {b}
    /\ UNCHANGED server

(* One EXPUNGE may take several. *)
Free ==
    /\ UNCHANGED archive
    /\ server' \subseteq server
    /\ server \ server' \subseteq archive

GoldenNext == Free \/ \E b \in Body : Arrive(b) \/ Keep(b)

GoldenSpec == GoldenInit /\ [][GoldenNext]_goldenVars
=============================================================================
