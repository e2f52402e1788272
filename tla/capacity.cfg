SPECIFICATION Spec
CONSTANTS
    Nodes = {n1, n2}
    Tasks = {t1, t2}
    Labels = {"a", "b"}
    MaxInt = 3
    MaxUint = 4
    Sizes <- MCSizes
    Reservations <- MCReservations
    Services <- MCServices
    Targets = {2, 4}
    MaxChanges = 2
    None = none
SYMMETRY Symmetry
INVARIANTS BlockedHasNoRoom SufficientHasRoom 
