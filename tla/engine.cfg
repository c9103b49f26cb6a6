\* Two accounts, one worker, requests; one sync may hang, one account may be deleted.
SPECIFICATION FairSpec
CONSTANTS
    Account = {a1, a2}
    WorkerCount = 1
    Trigger = {g}
    MaxHangs = 1
    MaxDeletes = 1
CHECK_DEADLOCK FALSE
INVARIANTS
    TypeOK
    StatusIsTrue
    RoundsAreBounded
PROPERTIES
    EveryAccountIsServed
    OthersAreServed
