SPECIFICATION Spec
CONSTANTS
    Ops = {o1}
    Agents = {a1, a2}
    Coordinators = {k1}
    None = none
    MaxGen = 5
SYMMETRY Symmetry
INVARIANTS Fenced
PROPERTIES AgentsKeepContract
