SPECIFICATION FilterSpec
CONSTANTS
    dns = dns
    sys = sys
    dns_1 = dns_1
    sys_1 = sys_1
    NoPod = NoPod
    PodOf <- MC_PodOf
    NsOf <- MC_NsOf
    NameOf <- MC_NameOf
    OwnerOf <- MC_OwnerOf
    Pods = {dns}
    Cgroups = {dns_1}
    HostCgroups = {h1}
    MapSize = 4
    ExcludeNamespaces = {"system"}
    WarnOnlyNamespaces = {"infra"}
    KernelEnforce = TRUE
    HasApi = TRUE
    SyncOn = TRUE
    ApiFails = TRUE
INVARIANTS
    WarnOnlyNeverKilled
CHECK_DEADLOCK FALSE
