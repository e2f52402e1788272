SPECIFICATION Spec
CONSTANTS
    Ops = {o1}
    Agents = {a1}
    Coordinators = {k1}
    None = none
    MaxGen = 3
SYMMETRY Symmetry
INVARIANTS UnseenIsRecoverable
