\* No faults at all: is a remote target ever cleared of an ended run's chaos?
SPECIFICATION Spec
CONSTANTS
    Runs = {r1}
    Targets = {t1}
    Local = local
    PromptInformer = TRUE
    MaxFaults = 0
PROPERTIES
    RemoteOrphansReaped
