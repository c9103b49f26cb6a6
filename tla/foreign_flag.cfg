\* A message another client flagged and the archive does not hold.
SPECIFICATION Spec
CONSTANTS
    Mailbox = {inbox}
    Body = {a, b}
    NoBody = NoBody
    MaxUid = 2
    MaxValidity = 1
    ClientActs = {"flag"}
    IndexBatch = 2
    MaxFaults = 0
    Run = {r1}
    Action = {"delete"}
    ChunkSize = 1
    RunFaults = 0
    MaxRestores = 0
PROPERTIES
    GoldenRule
