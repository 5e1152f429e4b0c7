CONSTANTS
    Handles = {f, g}
    Impls = {i1, i2}
    NoImpl = NoImpl
    Root = Root
    Paths = {p, q}
    Inodes = {x1}
    MaxLen = 1
SPECIFICATION Spec
INVARIANTS
    TypeOK
    NothingLeaks
    WrittenStored
SYMMETRY Symmetry
