\* Three requests for one id, one of them perhaps abandoned or hit by a failing call.
\* The requests are finite.
SPECIFICATION Spec
CHECK_DEADLOCK FALSE
CONSTANTS
    Requests = {q1, q2, q3}
    MaxFaults = 1
    MaxEdits = 1
INVARIANTS
    SchedulesInv
    QuietWhenTold
    OneCreateWins
    AnswersAreTrue
