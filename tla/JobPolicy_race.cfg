SPECIFICATION Spec
CONSTANTS
    Jobs = {root, j1, j2}
    Procs = {p1}
    RootJob = root
    Callers = {c1}
    bad_handle = bad_handle
    new_any = new_any
    allow = allow
    deny = deny
    Conditions = {bad_handle, new_any}
    Policies = {allow, deny}
    Requests <- Lists
    None = none
SYMMETRY Symmetry
CHECK_DEADLOCK FALSE
INVARIANTS
    ProcessHasPolicy
