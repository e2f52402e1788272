SPECIFICATION FairSpec
CONSTANTS
    Requests = {r1, r2}
    Puts = {p1, p2}
    Clusters = {c1, c2}
    NoCluster = none
    MaxGen = 2
INVARIANTS RunningOnlyWhileOpen AckSurvives ConfirmedOnly IInv
PROPERTIES ImplementsContract PutGetsLock
