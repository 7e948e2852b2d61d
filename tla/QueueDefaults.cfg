\* A submission races two PUTs and an edit of the defaults; one call
\* of a PUT and one of the submission fail.
\* Requests, edits and the clock are finite.
SPECIFICATION Spec
CHECK_DEADLOCK FALSE
SYMMETRY RequestSymmetry
CONSTANTS
    mysql = mysql
    Unset = {s2}
    Scenarios = {s1, s2}
    Values = {1, 2}
    None = None
    Junk = Junk
    Puts = {p1, p2}
    MaxEdits = 1
    MaxStoreFaults = 1
    Posts = {q1}
    Bumps = {}
    Baked <- MCBaked
    LaneOf <- MCLaneOf
    Slots = 1
    Half = 4
    MaxTime = 0
    MaxSubmitFaults = 1
INVARIANTS
    StoreInv
    EffectiveIsApplied
PROPERTIES
    KeepsMap
