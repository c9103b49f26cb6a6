\* One run between two mailboxes, deleting or moving with the COPY, STORE, EXPUNGE fallback.
SPECIFICATION Spec
CONSTANTS
    Mailbox = {inbox, sub}
    Body = {a, b}
    NoBody = NoBody
    MaxUid = 2
    MaxValidity = 1
    ClientActs = {}
    IndexBatch = 2
    MaxFaults = 0
    Run = {r1}
    Action = {"delete", "move"}
    ChunkSize = 2
    RunFaults = 1
    MaxRestores = 0
SYMMETRY Symmetry
INVARIANTS
    DeletedIsGone
PROPERTIES
    GoldenRule
    MoveKeepsMessage
    ImplementsGoldenVault
