SPECIFICATION Spec
CONSTANTS
    Cgroups = {c1, c2}
    Cpus = {cpu1, cpu2}
    Deltas <- MC_Deltas
    Window = 1
    WarnThreshold = 2
    KillThreshold = 3
    MaxTime = 4
    MaxBacklog = 2
    MaxHeld = 3
SYMMETRY CpuAndCgroupSymmetry
INVARIANTS
    TypeOK
    ScoreMatchesStory
    StalenessBounded
    StoryKeepsWindow
    DecisionFollowsScore
PROPERTIES
    Detection
CHECK_DEADLOCK FALSE
