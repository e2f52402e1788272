SPECIFICATION Spec
CONSTANTS
    Deploys = {d1}
    Rollbacks = {r1, r2}
    Scales = {}
    Restarts = {}
    Images = {i1, i2}
    Replicas = {n1}
    None = none
    Mixes = {{d1, r1, r2, i1, i2, n1}}
    MaxVer = 6
    MaxForce = 0
SYMMETRY Symmetry
PROPERTIES OnlyFailedRollsBack
CHECK_DEADLOCK FALSE
