\* The mailbox is recreated under a new UIDVALIDITY while a run deletes and the synchronisation works.
SPECIFICATION Spec
CONSTANTS
    Mailbox = {inbox}
    Body = {a, b}
    NoBody = NoBody
    MaxUid = 2
    MaxValidity = 2
    ClientActs = {"delete"}
    IndexBatch = 2
    MaxFaults = 1
    Run = {r1}
    Action = {"delete"}
    ChunkSize = 1
    RunFaults = 0
    MaxRestores = 0
SYMMETRY Symmetry
INVARIANTS
    ArchivedHasBlob

    
