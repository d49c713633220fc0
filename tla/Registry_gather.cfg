SPECIFICATION Spec
CONSTANTS
    l1 = l1
    l2 = l2
    vec = vec
    two = two
    other = other
    loose = loose
    Callers = {p1, p2}
    Readers = {r1, r2}
    LabelSets = {l1, l2}
    Hash <- OneHash
    Matches <- OneMatch
    Instances = {i1, i2}
    None = None
    Registrars = {r}
    Collectors = {vec, two, other, loose}
    DescsOf <- Descs
    Vec = vec
    VecMetric <- VecMetricOf
    MetricsOf <- Metrics
    Panicking = {loose}
    Keeps <- Some
    Suffixed <- MagicNames
    NoDesc <- InvalidDesc
    Pedantic = TRUE
    Capacity = 1
    MaxChanges = 4
    MaxGathers = 1
SYMMETRY Symmetry
INVARIANTS
    OneInstance
    TrackedIsInVec
    UniqueDescs
    SelfConsistent
    Accounted
    NeverStuck
