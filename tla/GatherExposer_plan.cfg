\* Increments, callbacks, generations, gauges and summaries, each with its own setup.
SPECIFICATION GatherSpec
CONSTANTS
    Nil = Nil
    Setups <- MCSetups
    Observed = {0, 1}
    FamilyBucket = 0
    Staleness = 4
    MaxDeletes = 1
    MaxRounds = 6
    MaxTime = 7
INVARIANTS
    NeverTwice
    Conserved
    NoWrap
PROPERTY
    SafeDelete
CHECK_DEADLOCK FALSE
