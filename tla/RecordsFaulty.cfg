\* Crashes and failed puts around one run.
\* Every Workflow is deleted in the end, and nothing is left to do.
SPECIFICATION SafetySpec
CHECK_DEADLOCK FALSE
CONSTANTS
    Runs = {r1}
    Scheduled = {}
    QueueCap = 4
    PromptHandlers = TRUE
    MaxCrashes = 2
    MaxWriteFailures = 2
INVARIANTS
    TypeOK
    NeverAhead
PROPERTIES
    KeepsRecord
