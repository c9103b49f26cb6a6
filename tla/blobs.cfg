\* Two writers and fsck over one text of two accounts, with crashes, decay, power failures and two keys.
SPECIFICATION Spec
CONSTANTS
    Account = {a1, a2}
    Text = {t}
    Writer = {w1, w2}
    Key = {NoKey, k}
    NoKey = NoKey
    Nobody = Nobody
    MaxMishaps = 1
    MaxCrashes = 1
INVARIANTS
    TypeOK
    RowsAreReadable
    CleanReportIsTrue
    
    LocksAreOwned
SYMMETRY Symmetry
PROPERTIES
    ImplementsVault
