SPECIFICATION Spec
CONSTANTS
    Writers = {w1, w2}
    Instances = {i1, i2}
    Nil = Nil
    Setups <- AllSetups
SYMMETRY Symmetry
INVARIANTS
    Conserved
    NothingStranded
    Bookkeeping
    IncrementsOnly
PROPERTIES
    BaselineForward
