------------------------------ MODULE BlobVault ------------------------------
(***************************************************************************)
(* What the rest of the program takes a blob store to be                   *)
(* (internal/store/blob.go, the comments of Write and atomicWrite): a text *)
(* is there or it is not, Write puts it there in one step, a row is only   *)
(* committed for a text that Write put there, and nothing takes a text     *)
(* away but a mishap of the machine or a change of the key.                *)
(***************************************************************************)
EXTENDS Naturals

CONSTANT Path              \* an account and a text: the file of one blob

VARIABLES
    kept,                  \* the blobs that verify
    lost,                  \* the blobs a mishap took and no Write put back
    referenced,            \* the blobs a committed row names
    mishaps                \* how many mishaps there were

vaultVars == <<kept, lost, referenced, mishaps>>

VaultInit ==
    /\ kept = {}
    /\ lost = {}
    /\ referenced = {}
    /\ mishaps = 0

Put(p) ==
    /\ kept' = kept \cup {p}
    /\ lost' = lost \ {p}
    /\ UNCHANGED <<referenced, mishaps>>

Reference(p) ==
    /\ p \in kept \cup lost
    /\ referenced' = referenced \cup {p}
    /\ UNCHANGED <<kept, lost, mishaps>>

(* A blob decays or is lost with the power, or the key changes, which also *)
(* makes blobs of that key readable again; commits may be lost as well.    *)
Mishap ==
    /\ kept' \in SUBSET Path
    /\ lost' = (lost \cup kept) \ kept'
    /\ referenced' \in SUBSET referenced
    /\ mishaps' = mishaps + 1

VaultNext ==
    \/ \E p \in Path : Put(p) \/ Reference(p)
    \/ Mishap

VaultSpec == VaultInit /\ [][VaultNext]_vaultVars
=============================================================================
