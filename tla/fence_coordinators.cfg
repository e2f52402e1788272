SPECIFICATION Spec
CONSTANTS
    Ops = {o1}
    Agents = {a1}
    Coordinators = {k1, k2}
    None = none
    MaxGen = 5
SYMMETRY Symmetry
INVARIANTS Fenced ClosedBlocksAgents FailedMeansNotApplied LiveRequestHasEvidence ClosedHasNoOpenWork
