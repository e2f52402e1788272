SPECIFICATION Spec
CONSTANTS
    Tokens = {t1}
    ClaimIds = {c1, c2}
    Nodes = {n1, n2}
    Roles = {worker}
    Swarms = {s1, s2, s3}
    Taken = {s3}
    Names = {m1, m2}
    Sessions = {x1, x2}
    None = none
    MaxChanges = 2
SYMMETRY Symmetry
INVARIANTS RegistrationStands OneClaimant AuditsFollowRow CompletionAgrees
PROPERTY CompletedWasFit
