SPECIFICATION ViewerSpec
CONSTANTS
    Jobs = {d1, d2}
    Dataset = d1
    Deps = {d2}
CHECK_DEADLOCK FALSE
INVARIANTS
    ViewerTypeOK
    ShownIsWhole
    VInv
