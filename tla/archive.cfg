\* Synchronisation and one delete run, with another client, two failures and crashes, under fairness.
SPECIFICATION FairSpec
CONSTANTS
    Mailbox = {inbox}
    Body = {a, b}
    NoBody = NoBody
    MaxUid = 2
    MaxValidity = 1
    ClientActs = {"delete"}
    IndexBatch = 1
    MaxFaults = 1
    Run = {r1}
    Action = {"delete"}
    ChunkSize = 1
    RunFaults = 1
    MaxRestores = 0
INVARIANTS
    TypeOK
    ArchivedIsIndexedMessage
    CursorCovers
PROPERTIES
    GoldenRule
    EventuallyArchived
    RunsEnd
