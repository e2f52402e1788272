SPECIFICATION Spec
CONSTANTS
    Deploys = {d1}
    Rollbacks = {}
    Scales = {}
    Restarts = {}
    Images = {i1, i2}
    Replicas = {n1}
    None = none
    Mixes = {{d1, i1, i2, n1}}
    MaxVer = 4
    MaxForce = 0
SYMMETRY Symmetry
INVARIANTS UncertainIsNotFailed
CHECK_DEADLOCK FALSE
