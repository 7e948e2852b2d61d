\* Loads of one and two time units; valid and invalid windows and SLO documents.
SPECIFICATION Spec
CONSTANTS
    Params <- MCParams
    SLOs <- MCSLOs
    Samples <- MCSamples
    NaN = NaN
    Empty = Empty
    Error = Error
    Bound = 1
    Callers = {c1, c2}
    MaxTime = 3
INVARIANTS
    VerdictInv
    PassIsEarned
    ScoresAgree
    QueriesArePast
    WindowsTile
PROPERTIES
    VerdictEnds
