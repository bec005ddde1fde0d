SPECIFICATION Spec
CONSTANTS
    Steps <- MC_Steps
    MaxComponents = 6
    WarnThreshold = 40
    KillThreshold = 90
INVARIANTS
    EverySignOnce
    NoVerdictOnOneSuspicion
    HarmlessNames
    KernelLinesAgree
PROPERTIES
    SensitiveAnywhere
CHECK_DEADLOCK FALSE
