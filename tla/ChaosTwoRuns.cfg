\* Two runs in the framework cluster under one watchdog: the whole promise.
SPECIFICATION Spec
CONSTANTS
    Runs = {r1, r2}
    Targets = {}
    Local = local
    PromptInformer = TRUE
    MaxFaults = 0
PROPERTIES
    ReapsOnlyEndedRuns
    KeepsPromise
