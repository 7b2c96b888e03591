SPECIFICATION Spec
CONSTANTS
    MaxVmos = 3
    Lens <- MCLens
    Ranges <- MCRanges
    MaxCount = 1
    Word = 5
    MaxMiscounted = 1
    Mappings = {m1}
    Pins = {q1, q2}
    Cached = cached
    Uncached = uncached
    Policies = {cached, uncached}
    None = none
SYMMETRY Symmetry
CONSTRAINT FewUses
CHECK_DEADLOCK FALSE
INVARIANTS
    SliceInside
    FamilyOK
    CachedWhileShared
    MappedKeepsPolicy
    PinsAccounted
PROPERTIES
    PolicyChangesUnused
