SPECIFICATION FairSpec
CONSTANTS
    db0 = db0
    db0b = db0b
    app = app
    dns = dns
    sys = sys
    db0_1 = db0_1
    db0b_1 = db0b_1
    app_1 = app_1
    dns_1 = dns_1
    sys_1 = sys_1
    NoPod = NoPod
    NoKey = NoKey
    PodOf <- MC_PodOf
    NsOf <- MC_NsOf
    NameOf <- MC_NameOf
    OwnerOf <- MC_OwnerOf
    OwnerKeys <- MC_OwnerKeys
    Pods = {db0, app}
    Cgroups = {db0_1, app_1}
    Workers = {w1, w2}
    QueueSize = 1
    ExcludeNamespaces = {"system"}
    WarnOnlyNamespaces = {"infra"}
    DryRun = FALSE
    RepeatEnabled = FALSE
    RepeatAction = "alert"
    CgroupKillFails = TRUE
    HasApi = TRUE
    SyncOn = FALSE
    ApiFails = TRUE
    RepeatWindow = 1
    RepeatThreshold = 2
    MaxTime = 0
    MaxRecords = 3
INVARIANTS
    TypeOK
    InFlightExact
    NoDuplicateRequest
    PromisesKept
PROPERTIES
    RequestsDrain
    Service
CHECK_DEADLOCK FALSE
