\* One run, which may go to the framework cluster or to a remote target that comes,
\* breaks and goes.
SPECIFICATION Spec
CONSTANTS
    Runs = {r1}
    Targets = {t1}
    Local = local
    PromptInformer = TRUE
    MaxFaults = 2
INVARIANTS
    LifecycleInv
    CleanupIsFinal
PROPERTIES
    LocalOrphansReaped
