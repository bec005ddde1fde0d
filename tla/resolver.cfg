SPECIFICATION ResolverSpec
CONSTANTS
    db0 = db0
    db0b = db0b
    app = app
    db0_1 = db0_1
    db0b_1 = db0b_1
    app_1 = app_1
    app_2 = app_2
    NoPod = NoPod
    Pods = {db0, db0b, app}
    Cgroups = {db0_1, db0b_1, app_1, app_2}
    PodOf <- MC_PodOf
    NsOf <- MC_NsOf
    NameOf <- MC_NameOf
    OwnerOf <- MC_OwnerOf
    HasApi = TRUE
    SyncOn = TRUE
    ApiFails = TRUE
INVARIANTS
    ResolverTypeOK
    NegativeCacheSound
    OwnersLagByOne
CHECK_DEADLOCK FALSE
