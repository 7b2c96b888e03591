SPECIFICATION Spec
CONSTANTS
    Regions = {root, r1, r2}
    Mappings = {m1, m2}
    Callers = {a1, a2}
    Root = root
    None = none
    Size = 2
    Lens = {1, 2}
    Flags <- MCFlags
SYMMETRY Symmetry
CHECK_DEADLOCK FALSE
INVARIANTS
    SiblingsDisjoint
    PageTableOK
    DeadChildLeaves
    LiveIsReachable
    NoDeadlock
