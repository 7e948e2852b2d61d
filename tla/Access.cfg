\* One person, one CI job, two exchanges at a time, two signing keys.
\* The clock is finite.
SPECIFICATION Spec
CHECK_DEADLOCK FALSE
SYMMETRY Symmetry
CONSTANTS
    Person = person
    Jobs = {job}
    IdGroups <- MCIdGroups
    CIGroups <- MCCIGroups
    Bindings <- MCBindings
    Exchanges = {x1, x2}
    Keys = {k1, k2}
    Lifetime = 2
    Step = 1
    DefaultExpiry = 2
    Intervals = {0}
    Expiries = {0}
    IdLifetime = 1
    MaxTime = 3
INVARIANTS
    AccessInv
    AccessIsBounded
    ExchangeGivesNoMore
    OnePollPastDeadline
PROPERTIES
    SlowDownIsHonoured
