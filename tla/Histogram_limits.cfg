SPECIFICATION Spec
CONSTANTS
    low = low
    mid = mid
    high = high
    neg = neg
    nan = nan
    Observers = {o1, o2}
    Scraper = scraper
    Timer = timer
    None = None
    Values = {low, mid, high, neg, nan}
    NaNs = {nan}
    Negatives = {neg}
    FineKey <- Keys
    NumBuckets = 1
    Bucket <- ClassicBucket
    Native = TRUE
    MaxBuckets = 1
    ZeroThreshold <- BelowAll
    MaxThreshold = 0
    MaxLevel = 2
    Resets = TRUE
    MaxObservations = 3
    MaxScrapes = 2
SYMMETRY Symmetry
INVARIANTS
    CoolIsWhole
    RestIsExact
PROPERTIES
    ResetShows
    ImplementsAtomicCut
