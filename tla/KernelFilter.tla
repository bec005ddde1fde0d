---------------------------- MODULE KernelFilter ----------------------------
(***************************************************************************)
(* The in-kernel side of the agent and the thread that feeds it: the       *)
(* probes and the two maps of bpf/syscall_tracer.py, and the scan of       *)
(* core/cgroup_sync.py that classifies the cgroups of pods and of the      *)
(* host.  The kernel reads the maps whenever a process makes a traced      *)
(* call, also while the agent starts and in the middle of a scan.          *)
(*                                                                         *)
(* The scan and the poll thread share the resolver.  Here each list call   *)
(* fills both its caches at once (PodResolver has the steps in between):   *)
(* a class depends on one of them only.                                    *)
(***************************************************************************)
EXTENDS PodResolver, FiniteSets

CONSTANTS
    HostCgroups,        \* cgroups under system.slice and the like
    MapSize,            \* entries the cgroup_class map has room for
    ExcludeNamespaces,
    WarnOnlyNamespaces,
    KernelEnforce       \* --kernel-enforce

ASSUME FilterAssumption ==
    /\ HostCgroups \cap Cgroups = {}
    /\ MapSize \in Nat
    /\ KernelEnforce \in BOOLEAN

VARIABLES
    hosts,          \* hosts[h]: what became of the host cgroup h
    cgroup_class,   \* the map, "unknown" where it has no entry
    armed,          \* the keys of the armed_cgroups map
    pending,        \* the cgroups with events in the perf buffer
    signalled,      \* history: cgroups with a process killed by a probe
    scan,           \* where the agent is in filling the map
    todo            \* the cgroups this pass has yet to meet

kernelVars == <<cgroup_class, armed, pending, signalled>>
scanVars == <<scan, todo>>
filterVars == <<clusterVars, resolverVars, hosts, kernelVars, scanVars>>

AllCgroups == Cgroups \cup HostCgroups

Classes == {"unknown", "pod", "host", "excluded", "warn_only"}

FilterTypeOK ==
    /\ ClusterTypeOK
    /\ ResolverTypeOK
    /\ hosts \in [HostCgroups -> {"absent", "there", "gone"}]
    /\ cgroup_class \in [AllCgroups -> Classes]
    /\ Cardinality({g \in AllCgroups : cgroup_class[g] # "unknown"}) <= MapSize
    /\ armed \subseteq Cgroups
    /\ pending \subseteq AllCgroups
    /\ signalled \subseteq AllCgroups
    /\ scan \in {"down", "prefill", "wait", "pods", "hosts"}
    /\ todo \subseteq AllCgroups
    /\ scan \in {"down", "wait"} => todo = {}

\* The cgroup directory exists.
Exists(g) ==
    IF g \in HostCgroups THEN hosts[g] = "there"
                         ELSE procs[g] \in {"running", "killed"}

HostsThere == {h \in HostCgroups : Exists(h)}
PodsThere == {c \in Cgroups : Exists(c)}

\* An agent that starts, for the first time or again: the maps are loaded
\* with the probes and the caches are new.
Fresh ==
    /\ cgroup_class' = [g \in AllCgroups |-> "unknown"]
    /\ armed' = {}
    /\ pending' = {}
    /\ path_cache' = {}
    /\ not_in_kubepods' = {}
    /\ pod_cache' = {}
    /\ owner_cache' = {}

FilterInit ==
    /\ ClusterInit
    /\ ResolverInit
    /\ hosts \in [HostCgroups -> {"absent", "there"}]
    /\ cgroup_class = [g \in AllCgroups |-> "unknown"]
    /\ armed = {}
    /\ pending = {}
    /\ signalled = {}
    /\ scan = "down"
    /\ todo = {}

-----------------------------------------------------------------------------
(* The probes.                                                             *)

SkippedClasses == {"host", "excluded"}

\* should_skip returns 0.
Traced(g) == scan # "down" /\ Exists(g) /\ cgroup_class[g] \notin SkippedClasses

\* kill_allowed returns 1.
KillAllowed(g) == cgroup_class[g] # "warn_only"

\* bpf_send_signal, in a program built with KERNEL_ENFORCE.
Signal(g) == signalled' = signalled \cup (IF KernelEnforce THEN {g} ELSE {})

\* perf_submit: the event is in the buffer, or lost because that is full or
\* not open yet.
Submit(g) ==
    \/ scan # "prefill" /\ pending' = pending \cup {g}
    \/ UNCHANGED pending

\* execve, openat, openat2, open_tree, connect.
Observe(g) ==
    /\ Traced(g)
    /\ Submit(g)
    /\ UNCHANGED <<clusterVars, resolverVars, hosts, scanVars, cgroup_class,
                   armed, signalled>>

\* maybe_kill does not kill for a container runtime.
MaybeKill(g) ==
    \/ g \in armed /\ KillAllowed(g) /\ Signal(g)
    \/ UNCHANGED signalled

\* chroot, mount, move_mount, fsmount, ptrace.
Armable(g) ==
    /\ Traced(g)
    /\ MaybeKill(g)
    /\ Submit(g)
    /\ UNCHANGED <<clusterVars, resolverVars, hosts, scanVars, cgroup_class, armed>>

\* red_line_kill does not kill for a container runtime either.
RedLineKill(g) ==
    \/ KillAllowed(g) /\ Signal(g)
    \/ UNCHANGED signalled

\* pivot_root, init_module, finit_module, delete_module, setns.
RedLine(g) ==
    /\ Traced(g)
    /\ RedLineKill(g)
    /\ Submit(g)
    /\ UNCHANGED <<clusterVars, resolverVars, hosts, scanVars, cgroup_class, armed>>

Probe(g) == Observe(g) \/ Armable(g) \/ RedLine(g)

-----------------------------------------------------------------------------
(* Filling the map.                                                        *)

\* _classify: no write when the directory has vanished or the map is full.
Classify(g, class) ==
    LET written == {a \in AllCgroups : cgroup_class[a] # "unknown"}
    IN  cgroup_class' =
            IF Exists(g) /\ Cardinality(written \cup {g}) <= MapSize
            THEN [cgroup_class EXCEPT ![g] = class]
            ELSE cgroup_class

\* What policies.yaml says of a pod's containers.
PolicyClass(p) ==
    IF NsOf[p] \in ExcludeNamespaces THEN "excluded"
    ELSE IF NsOf[p] \in WarnOnlyNamespaces THEN "warn_only" ELSE "pod"

\* The mutated forms: a pod that is not known is not observed either, or a
\* pod is known for as long as the API server lists it.
PodClassFailClosed(c) ==
    IF PodOf[c] \in pod_cache' THEN PolicyClass(PodOf[c]) ELSE "excluded"
PodClassIfListed(c) ==
    IF PodOf[c] \in apiPods THEN PolicyClass(PodOf[c]) ELSE "pod"

\* _pod_class, after its lookup_pod.
PodClass(c) ==
    IF PodOf[c] \in pod_cache' THEN PolicyClass(PodOf[c]) ELSE "pod"

\* BPF(text=...): from here on the probes see every traced call.
Attach ==
    /\ scan = "down"
    /\ Fresh
    /\ scan' = "prefill"
    /\ todo' = HostsThere
    /\ UNCHANGED <<clusterVars, syncVars, hosts, signalled>>

\* The agent exits or crashes, and its maps and probes are gone.
AgentStops ==
    /\ scan # "down"
    /\ Fresh
    /\ scan' = "down"
    /\ todo' = {}
    /\ UNCHANGED <<clusterVars, syncVars, hosts, signalled>>

\* One directory of _prefill_host_classes or of the host pass of scan_once.
VisitHost(h) ==
    /\ scan \in {"prefill", "hosts"}
    /\ h \in todo
    /\ Classify(h, "host")
    /\ todo' = todo \ {h}
    /\ UNCHANGED <<clusterVars, resolverVars, hosts, armed, pending, signalled,
                   scan>>

\* _loop: the first scan follows at once, the next after the interval.
ScanStarts ==
    /\ scan = "wait"
    /\ SyncOn
    /\ scan' = "pods"
    /\ todo' = PodsThere
    /\ UNCHANGED <<clusterVars, resolverVars, hosts, kernelVars>>

\* The mutated form: a pod that is known already is not classified again.
VisitNewPod(c) ==
    /\ scan = "pods"
    /\ c \in todo
    /\ IF PodOf[c] \notin pod_cache
       THEN ListPods /\ Classify(c, PodClass(c))
       ELSE UNCHANGED <<pod_cache, owner_cache, cgroup_class>>
    /\ todo' = todo \ {c}
    /\ UNCHANGED <<clusterVars, path_cache, not_in_kubepods, syncVars, hosts,
                   armed, pending, signalled, scan>>

\* One directory of the pods' pass: the lookup, if need be, and the write.
VisitPod(c) ==
    /\ scan = "pods"
    /\ c \in todo
    /\ IF PodOf[c] \notin pod_cache /\ HasApi
       THEN ListPods
       ELSE UNCHANGED <<pod_cache, owner_cache>>
    /\ Classify(c, PodClass(c))
    /\ todo' = todo \ {c}
    /\ UNCHANGED <<clusterVars, path_cache, not_in_kubepods, syncVars, hosts,
                   armed, pending, signalled, scan>>

\* The mutated form: the next pass goes on where the exception came.
LookupRaisesUncleared ==
    /\ ApiFails /\ HasApi
    /\ scan = "pods"
    /\ \E c \in todo : PodOf[c] \notin pod_cache
    /\ scan' = "wait"
    /\ UNCHANGED <<todo, clusterVars, resolverVars, hosts, kernelVars>>

\* The list call raises: no other directory is met, not of hosts either.
LookupRaises ==
    /\ ApiFails /\ HasApi
    /\ scan = "pods"
    /\ \E c \in todo : PodOf[c] \notin pod_cache
    /\ scan' = "wait"
    /\ todo' = {}
    /\ UNCHANGED <<clusterVars, resolverVars, hosts, kernelVars>>

\* A pass is over.
PassDone ==
    /\ todo = {}
    /\ scan \in {"prefill", "pods", "hosts"}
    /\ scan' = IF scan = "pods" THEN "hosts" ELSE "wait"
    /\ todo' = IF scan = "pods" THEN HostsThere ELSE {}
    /\ UNCHANGED <<clusterVars, resolverVars, hosts, kernelVars>>

ScanStep ==
    \/ \E h \in HostCgroups : VisitHost(h)
    \/ ScanStarts
    \/ \E c \in Cgroups : VisitPod(c)
    \/ LookupRaises
    \/ PassDone

-----------------------------------------------------------------------------

\* on_event, for a container's event; what it resolves, and arm and disarm.
\* (Agent has the decision between them.)
OnEvent(c) ==
    /\ scan \in {"wait", "pods", "hosts"}
    /\ c \in pending
    /\ pending' = pending \ {c}
    /\ \/ NotPodCgroup(c) /\ UNCHANGED <<pod_cache, owner_cache, syncVars, armed>>
       \/ /\ IsPodCgroup(c)
          /\ Resolved(c) \/ Unresolved(c) \/ ResolveRaises(c)
          /\ armed' \in {armed, armed \cup {c}, armed \ {c}}
    /\ UNCHANGED <<clusterVars, hosts, scanVars, cgroup_class, signalled>>

\* on_event, for the event of a host process: it is dropped.
OnHostEvent(h) ==
    /\ scan \in {"wait", "pods", "hosts"}
    /\ h \in pending
    /\ pending' = pending \ {h}
    /\ UNCHANGED <<clusterVars, resolverVars, hosts, scanVars, cgroup_class,
                   armed, signalled>>

\* os.walk may or may not come by the directory of a container that starts.
PodsChange ==
    /\ ClusterNext
    /\ \/ UNCHANGED todo
       \/ scan = "pods" /\ todo' = todo \cup (PodsThere' \ PodsThere)
    /\ UNCHANGED <<resolverVars, hosts, kernelVars, scan>>

\* A service or a login session starts, or stops.
HostChanges(h) ==
    /\ \/ hosts[h] = "absent" /\ hosts' = [hosts EXCEPT ![h] = "there"]
       \/ hosts[h] = "there" /\ hosts' = [hosts EXCEPT ![h] = "gone"]
    /\ \/ UNCHANGED todo
       \/ scan \in {"prefill", "hosts"} /\ todo' = todo \cup (HostsThere' \ HostsThere)
    /\ UNCHANGED <<clusterVars, resolverVars, kernelVars, scan>>

FilterNext ==
    \/ Attach
    \/ AgentStops
    \/ ScanStep
    \/ \E g \in AllCgroups : Probe(g)
    \/ \E c \in Cgroups : OnEvent(c)
    \/ \E h \in HostCgroups : OnHostEvent(h)
    \/ PodsChange
    \/ \E h \in HostCgroups : HostChanges(h)

FilterSpec == FilterInit /\ [][FilterNext]_filterVars

\* The CgroupSync thread keeps running.  Its list calls may fail again and
\* again but not for ever: a container that every pass comes to is classified
\* in one of them.  Nobody else is under an obligation.
FilterFairness ==
    /\ WF_filterVars(ScanStep)
    /\ \A c \in Cgroups : SF_filterVars(VisitPod(c))

FilterFairSpec == FilterSpec /\ FilterFairness

-----------------------------------------------------------------------------

\* "We drop ONLY what is known to be host-owned" (syscall_tracer.py:90), or
\* excluded: whatever the lookups return, and however late they are, the
\* kernel is blind to a container only if its namespace is excluded.
BlindOnlyByPolicy ==
    \A c \in Cgroups :
        cgroup_class[c] \in SkippedClasses => NsOf[PodOf[c]] \in ExcludeNamespaces

\* Once the kernel knows a container as warn_only it keeps it so for as long
\* as the agent runs, and kills no process of it: also when the pod is
\* deleted and its containers are terminating, when the API server fails and
\* when a detection arms the cgroup.
ProtectionSticks ==
    [][\A c \in Cgroups :
          cgroup_class[c] = "warn_only" /\ scan' # "down" =>
              /\ cgroup_class'[c] = "warn_only"
              /\ c \in signalled' => c \in signalled]_filterVars

MapFull == Cardinality({g \in AllCgroups : cgroup_class[g] # "unknown"}) >= MapSize

\* A container that keeps running gets the class policies.yaml gives it, as
\* long as the pod is there to be listed and the agent stays up; only a map
\* that is full, of whatever, leaves it unknown.
PolicyReached ==
    \A c \in Cgroups :
        scan = "wait" /\ procs[c] = "running" /\ PodOf[c] \in apiPods ~>
            \/ cgroup_class[c] = PolicyClass(PodOf[c])
            \/ cgroup_class[c] = "unknown" /\ MapFull
            \/ procs[c] # "running" \/ PodOf[c] \notin apiPods \/ scan = "down"

\* "CLASS_WARN_ONLY = 4  # warn_only_namespaces -> detect, never kill"
\* (ARCHITECTURE.md:365)
WarnOnlyNeverKilled ==
    \A c \in signalled \cap Cgroups : NsOf[PodOf[c]] \notin WarnOnlyNamespaces

=============================================================================
