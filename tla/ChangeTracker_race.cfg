SPECIFICATION Spec
CONSTANTS
    w1 = w1
    w2 = w2
    a = a
    b = b
    Writers = {w1, w2}
    Consumer = consumer
    Instances = {a, b}
    NumShards = 2
    ShardOf <- TwoShards
    Request <- InOrder
    Grouped = {}
    MaxRequests = 1
    MaxRounds = 2
    None = None
INVARIANTS
    NoLostWrite
    CutIsOneMoment
    CausalPrefix
PROPERTIES
    ImplementsAtomicCut
