SPECIFICATION AgentSpec
CONSTANTS
    db0 = db0
    db0b = db0b
    db0_1 = db0_1
    db0b_1 = db0b_1
    NoPod = NoPod
    NoKey = NoKey
    NoCgroup = NoCgroup
    PodOf <- MC_PodOf
    NsOf <- MC_NsOf
    NameOf <- MC_NameOf
    OwnerOf <- MC_OwnerOf
    OwnerKeys <- MC_OwnerKeys
    Pods = {db0}
    Cgroups = {db0_1}
    Workers = {w1}
    QueueSize = 1
    ExcludeNamespaces = {"system"}
    WarnOnlyNamespaces = {"infra"}
    DryRun = FALSE
    RepeatEnabled = FALSE
    RepeatAction = "alert"
    CgroupKillFails = FALSE
    HasApi = TRUE
    SyncOn = FALSE
    ApiFails = TRUE
    RepeatWindow = 1
    RepeatThreshold = 2
    MaxTime = 0
    MaxRecords = 2
    MaxBacklog = 2
    MetricsOn = TRUE
    KernelEnforce = TRUE
    ArmedSize = 1
INVARIANTS
    KillAnswered
CHECK_DEADLOCK FALSE
