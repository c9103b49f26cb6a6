\* A mailbox another client empties.
SPECIFICATION FairSpec
CONSTANTS
    Mailbox = {inbox}
    Body = {a}
    NoBody = NoBody
    MaxUid = 2
    MaxValidity = 1
    ClientActs = {"delete"}
    IndexBatch = 1
    MaxFaults = 0
    Run = {}
    Action = {"delete"}
    ChunkSize = 1
    RunFaults = 0
    MaxRestores = 0
PROPERTIES
    GoneIsMarked
