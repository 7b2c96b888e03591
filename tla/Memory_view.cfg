SPECIFICATION Spec
CONSTANTS
    Frames = {f1, f2}
    PageSize = 2
    Values = {0, 1}
    Vmos = {v1, v2}
    Mappings = {m1}
    Pages = {0, 1}
    MaxLen = 2
    Buffers <- MCBuffers
    Sizes <- MCSizes
    None = none
SYMMETRY MCSymmetry
CHECK_DEADLOCK FALSE
INVARIANTS
    FramesOwnedOnce
    PagesShowTheirVmo
PROPERTIES
    ViewSpec
    ChildIsSnapshot
