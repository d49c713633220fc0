SPECIFICATION FairSpec
CONSTANTS
    low = low
    mid = mid
    high = high
    neg = neg
    nan = nan
    Observers = {o1, o2}
    Scraper = scraper
    Timer = timer
    None = None
    Values = {mid, high}
    NaNs = {}
    Negatives = {}
    FineKey <- Keys
    NumBuckets = 1
    Bucket <- ClassicBucket
    Native = TRUE
    MaxBuckets = 1
    ZeroThreshold <- BelowAll
    MaxThreshold <- BelowAll
    MaxLevel = 1
    Resets = TRUE
    MaxObservations = 3
    MaxScrapes = 1
PROPERTIES
    CooldownEnds
    ResolutionRestored
