\* Two scenarios share a lane, one without a priority; a request reprioritises a
\* run. The priority 10 wraps to 2. One call of a submission may fail.
\* Requests and the clock are finite.
SPECIFICATION Spec
CHECK_DEADLOCK FALSE
SYMMETRY RequestSymmetry
CONSTANTS
    mysql = mysql
    Unset = {s2}
    Scenarios = {s1, s2}
    Values = {10}
    None = None
    Junk = Junk
    Puts = {}
    MaxEdits = 0
    MaxStoreFaults = 0
    Posts = {q1, q2}
    Bumps = {b1}
    Baked <- MCBaked
    LaneOf <- MCLaneOf
    Slots = 1
    Half = 4
    MaxTime = 1
    MaxSubmitFaults = 1
INVARIANTS
    TypeOK
    QueueInv
    AcceptedRunsAreDistinct
    QueueShowsReleaseOrder
