SPECIFICATION FairSpec
CONSTANTS
    N = 2
    Primary = 1
    Swarms = {s1, s2}
    Reads = {c1}
    Mutations = {m1}
    Configured = {s1, none}
    None = none
INVARIANTS SentOnce ReadsOfReference IInv
PROPERTIES UpdatedWhereMeant FailoverServes
