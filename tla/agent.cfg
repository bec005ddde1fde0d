SPECIFICATION AgentFairSpec
CONSTANTS
    db0 = db0
    db0b = db0b
    db0_1 = db0_1
    db0b_1 = db0b_1
    NoPod = NoPod
    NoKey = NoKey
    NoCgroup = NoCgroup
    PodOf <- MC_PodOf
    NsOf <- MC_NsOf
    NameOf <- MC_NameOf
    OwnerOf <- MC_OwnerOf
    OwnerKeys <- MC_OwnerKeys
    Pods = {db0, db0b}
    Cgroups = {db0_1, db0b_1}
    Workers = {w1}
    QueueSize = 1
    ExcludeNamespaces = {"system"}
    WarnOnlyNamespaces = {"infra"}
    DryRun = FALSE
    RepeatEnabled = FALSE
    RepeatAction = "alert"
    CgroupKillFails = FALSE
    HasApi = TRUE
    SyncOn = TRUE
    ApiFails = TRUE
    RepeatWindow = 1
    RepeatThreshold = 2
    MaxTime = 0
    MaxRecords = 2
    MaxBacklog = 1
    MetricsOn = TRUE
    KernelEnforce = TRUE
    ArmedSize = 1
INVARIANTS
    AgentTypeOK
    PromisesKept
PROPERTIES
    KillReachesProcesses
    CondemnedDeleted
CHECK_DEADLOCK FALSE
