\* MinIO is healthy; two runs compete for the one-place channel and the Syncer,
\* and the process crashes once. Every Workflow is deleted in the end, and
\* nothing is left to do.
SPECIFICATION Spec
CHECK_DEADLOCK FALSE
CONSTANTS
    Runs = {r1, r2}
    Scheduled = {r2}
    QueueCap = 1
    PromptHandlers = TRUE
    MaxCrashes = 1
    MaxWriteFailures = 0
INVARIANTS
    RecordInv
    SeenIsWritten
    AnsweredRunIsFound
PROPERTIES
    EndIsRecorded
