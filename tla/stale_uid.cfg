\* A cleanup run across a change of UIDVALIDITY.
SPECIFICATION Spec
CONSTANTS
    Mailbox = {inbox}
    Body = {a, b}
    NoBody = NoBody
    MaxUid = 1
    MaxValidity = 2
    ClientActs = {"delete"}
    IndexBatch = 1
    MaxFaults = 0
    Run = {r1}
    Action = {"delete"}
    ChunkSize = 1
    RunFaults = 0
    MaxRestores = 0
PROPERTIES
    GoldenRule
