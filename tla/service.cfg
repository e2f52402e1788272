SPECIFICATION Spec
CONSTANTS
    Deploys = {d1}
    Rollbacks = {r1, r2}
    Scales = {s1}
    Restarts = {p1}
    Images = {i0, i1, i2}
    Replicas = {n0, n1, n2}
    None = none
    Mixes = {{d1, r1, r2, i1, i2, n0}, {s1, p1, i0, n1, n2}}
    MaxVer = 6
    MaxForce = 1
SYMMETRY Symmetry
INVARIANTS EndedIsOver TablesAgree OneUnfinished
PROPERTIES OperationsKeepContract NeverResent SuccessStands
CHECK_DEADLOCK FALSE
