SPECIFICATION Spec
CONSTANTS
    low = low
    mid = mid
    high = high
    neg = neg
    nan = nan
    Observers = {o1, o2}
    Scraper = scraper
    Timer = timer
    None = None
    Values = {low, mid, neg}
    NaNs = {}
    Negatives = {neg}
    FineKey <- Keys
    NumBuckets = 1
    Bucket <- ClassicBucket
    Native = TRUE
    MaxBuckets = 1
    ZeroThreshold <- BelowAll
    MaxThreshold = 1
    MaxLevel = 2
    Resets = FALSE
    MaxObservations = 3
    MaxScrapes = 1
SYMMETRY Symmetry
INVARIANTS
    ZeroBucketWhole
