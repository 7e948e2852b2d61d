\* One run, watched by a page and a waiting command; a channel of one place; one
\* fault. Every Workflow is deleted in the end.
SPECIFICATION Spec
CHECK_DEADLOCK FALSE
CONSTANTS
    Runs = {r1}
    Watched = r1
    QueueCap = 1
    MaxLoads = 2
    MaxNotices = 1
    MaxFaults = 1
INVARIANTS
    StreamInv
    NoGap
    ClientsAreFaithful
PROPERTIES
    WaitEnds
    PageShowsEnd
