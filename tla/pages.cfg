\* Lists and searches in pages of one or two messages, while rows come, go and change.
SPECIFICATION Spec
CONSTANTS
    MaxRows = 4
    MaxDate = 2
    MaxLimit = 2
    DefaultLimit = 1
    MaxChanges = 2
CHECK_DEADLOCK FALSE
INVARIANTS
    TypeOK
    PagesAreSorted
    PagesAreComplete
    TotalIsListed
