SPECIFICATION Spec
CONSTANTS
    Nodes = {1, 3, 5}
    Services = {2, 4, 6}
    Scheduled = {2, 4}
    Constrained = {6}
    Drains = {o1}
    Activates = {a1, t1, t2}
    Twins = {t1, t2}
    Labelings = {l1}
    ServiceOps = {v1}
    Sessions = {x1, x2}
    None = none
    Mixes = {{1, 2, o1, a1}, {1, 6, l1, v1}, {3, 4, 5, t1, t2}}
    Quiet = {3, 5}
    MaxVer = 2
SYMMETRY Symmetry
INVARIANTS OneWriter NoLockCycle Exclusion
PROPERTIES OperationsKeepContract
CHECK_DEADLOCK FALSE
