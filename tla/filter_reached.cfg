SPECIFICATION FilterFairSpec
CONSTANTS
    dns = dns
    sys = sys
    dns_1 = dns_1
    sys_1 = sys_1
    NoPod = NoPod
    PodOf <- MC_PodOf
    NsOf <- MC_NsOf
    NameOf <- MC_NameOf
    OwnerOf <- MC_OwnerOf
    Pods = {dns}
    Cgroups = {dns_1}
    HostCgroups = {h1}
    MapSize = 1
    ExcludeNamespaces = {"system"}
    WarnOnlyNamespaces = {"infra"}
    KernelEnforce = TRUE
    HasApi = TRUE
    SyncOn = TRUE
    ApiFails = TRUE
PROPERTIES
    PolicyReached
CHECK_DEADLOCK FALSE
