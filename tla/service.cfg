\* Three requests and one failed statement beside migrations and seed, with one crash; requests are bounded, so it ends.
SPECIFICATION Spec
CONSTANTS
    Root = Root
    Ann = Ann
    A1 = A1
    J1 = J1
    None = None
    Request = {q1, q2, q3}
    MaxFailures = 1
    MaxCrashes = 1
SYMMETRY RequestSymmetry
CHECK_DEADLOCK FALSE
INVARIANTS
    TypeOK
    MigrationsHold
    OldSessionsEnd
    
    RunStatusIsTrue
    
