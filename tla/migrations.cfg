SPECIFICATION FairSpec
CONSTANTS
    Procs = {p1, p2}
    Catalog <- MCCatalog
    None = none
INVARIANTS RecordedMeansApplied ServingFits LookIsFresh
PROPERTY StartEnds
