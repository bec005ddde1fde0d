SPECIFICATION Spec
CONSTANTS
    db0 = db0
    db0b = db0b
    app = app
    dns = dns
    sys = sys
    db0_1 = db0_1
    db0b_1 = db0b_1
    app_1 = app_1
    dns_1 = dns_1
    sys_1 = sys_1
    NoPod = NoPod
    NoKey = NoKey
    PodOf <- MC_PodOf
    NsOf <- MC_NsOf
    NameOf <- MC_NameOf
    OwnerOf <- MC_OwnerOf
    OwnerKeys <- MC_OwnerKeys
    Pods = {dns, sys}
    Cgroups = {dns_1, sys_1}
    Workers = {w1}
    QueueSize = 1
    ExcludeNamespaces = {"system"}
    WarnOnlyNamespaces = {"infra"}
    DryRun = FALSE
    RepeatEnabled = TRUE
    RepeatAction = "kill"
    CgroupKillFails = FALSE
    HasApi = TRUE
    SyncOn = TRUE
    ApiFails = FALSE
    RepeatWindow = 1
    RepeatThreshold = 2
    MaxTime = 2
    MaxRecords = 3
INVARIANTS
    ProtectedUntouched
PROPERTIES
    EscalationJustified
    CountExact
    EscalationNeedsBurst
CHECK_DEADLOCK FALSE
