\* Two delete runs and a restore while another client flags and unflags.
SPECIFICATION Spec
CONSTANTS
    Mailbox = {inbox}
    Body = {a, b}
    NoBody = NoBody
    MaxUid = 2
    MaxValidity = 1
    ClientActs = {"flag"}
    IndexBatch = 2
    MaxFaults = 0
    Run = {r1, r2}
    Action = {"delete"}
    ChunkSize = 1
    RunFaults = 0
    MaxRestores = 1
SYMMETRY Symmetry
INVARIANTS
    RestoreExact
PROPERTIES
    FlagsOnlyArchived
