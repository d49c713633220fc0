SPECIFICATION Spec
CONSTANTS
    Writers = {w1, w2}
    Instances = {i1, i2}
    Nil = Nil
    Setups <- PeekSetups
SYMMETRY Symmetry
PROPERTIES
    HeldLeftAlone
