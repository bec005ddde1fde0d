---------------------------- MODULE PodResolver -----------------------------
(***************************************************************************)
(* core/pod_resolver.py: cgroup id -> cgroup path -> pod uid -> namespace  *)
(* and name, with the four caches that the poll thread and the CgroupSync  *)
(* thread share without a lock.                                            *)
(*                                                                         *)
(* A cached path, name or owner never changes, so each cache is the set of *)
(* its keys.  The lookups of the poll thread are atomic; those of the      *)
(* CgroupSync thread, which the poll thread interrupts, are one step per   *)
(* cache write.                                                            *)
(***************************************************************************)
EXTENDS Cluster

CONSTANTS
    OwnerOf,    \* OwnerOf[p]: the identifier _extract_owner gives
    NoPod,      \* stands for "no pod in the middle of being cached"
    HasApi,     \* FALSE with --no-k8s: core_v1 is None
    SyncOn,     \* FALSE with --no-kernel-filter: no CgroupSync thread
    ApiFails    \* whether calls to the API server may raise

ASSUME ResolverAssumption ==
    /\ NoPod \notin Pods
    /\ HasApi \in BOOLEAN
    /\ SyncOn \in BOOLEAN
    /\ ApiFails \in BOOLEAN

VARIABLES
    path_cache,         \* cgroup ids whose path is cached
    not_in_kubepods,    \* cgroup ids known not to be under kubepods
    pod_cache,          \* pods whose namespace and name are cached
    owner_cache,        \* pods whose owner is cached
    listing,            \* pods of the CgroupSync thread's list call, not yet cached
    mid                 \* the pod it has put in pod_cache only

syncVars == <<listing, mid>>
cacheVars == <<path_cache, not_in_kubepods, pod_cache, owner_cache>>
resolverVars == <<cacheVars, syncVars>>

ResolverTypeOK ==
    /\ path_cache \subseteq Cgroups
    /\ not_in_kubepods \subseteq Cgroups
    /\ pod_cache \subseteq Pods
    /\ owner_cache \subseteq Pods
    /\ listing \subseteq Pods
    /\ mid \in Pods \cup {NoPod}

ResolverInit ==
    /\ path_cache = {}
    /\ not_in_kubepods = {}
    /\ pod_cache = {}
    /\ owner_cache = {}
    /\ listing = {}
    /\ mid = NoPod

\* A new PodResolver, when the agent is started again.
ResolverReset ==
    /\ path_cache' = {}
    /\ not_in_kubepods' = {}
    /\ pod_cache' = {}
    /\ owner_cache' = {}
    /\ listing' = {}
    /\ mid' = NoPod

\* find_cgroup_path returns a path: cached, or found by walking cgroupfs.
PathFound(c) == c \in path_cache \/ procs[c] \in {"running", "killed"}

\* lookup_pod of the poll thread, past the test of the cache.
ListPods ==
    /\ HasApi
    /\ pod_cache' = pod_cache \cup apiPods
    /\ owner_cache' = owner_cache \cup apiPods

\* resolve(c) returns the namespace and name of PodOf[c].
Resolved(c) ==
    /\ PathFound(c)
    /\ path_cache' = path_cache \cup {c}
    /\ IF PodOf[c] \in pod_cache
       THEN UNCHANGED <<pod_cache, owner_cache>>
       ELSE PodOf[c] \in apiPods /\ ListPods
    /\ UNCHANGED <<not_in_kubepods, syncVars>>

\* resolve(c) returns None: no path, or a pod the API server does not list.
Unresolved(c) ==
    /\ IF PathFound(c)
       THEN /\ PodOf[c] \notin pod_cache
            /\ path_cache' = path_cache \cup {c}
            /\ IF HasApi
               THEN PodOf[c] \notin apiPods /\ ListPods
               ELSE UNCHANGED <<pod_cache, owner_cache>>
       ELSE UNCHANGED <<path_cache, pod_cache, owner_cache>>
    /\ UNCHANGED <<not_in_kubepods, syncVars>>

\* The list call raises, and the exception leaves resolve(c).
ResolveRaises(c) ==
    /\ ApiFails
    /\ HasApi
    /\ PathFound(c)
    /\ PodOf[c] \notin pod_cache
    /\ path_cache' = path_cache \cup {c}
    /\ UNCHANGED <<not_in_kubepods, pod_cache, owner_cache, syncVars>>

\* owner_of(c) after resolve(c), with the default its caller gives it.  The
\* pod is in pod_cache, so lookup_pod returns at once and fills nothing.
OwnerKey(c) ==
    IF PodOf[c] \in owner_cache' THEN OwnerOf[PodOf[c]] ELSE Key(PodOf[c])

\* The mutated form: the path is cached under the pod.
IsPodCgroupByPod(c) ==
    /\ c \in path_cache \/ (c \notin not_in_kubepods /\ PathFound(c))
    /\ path_cache' = path_cache \cup {PodOf[c]}
    /\ UNCHANGED not_in_kubepods

\* is_pod_cgroup(c) returns TRUE.
IsPodCgroup(c) ==
    /\ c \in path_cache \/ (c \notin not_in_kubepods /\ PathFound(c))
    /\ path_cache' = path_cache \cup {c}
    /\ UNCHANGED not_in_kubepods

\* The mutated form: a cgroup whose pod is not listed is cached as no pod's.
NotPodCgroupUnlisted(c) ==
    /\ c \notin path_cache
    /\ c \in not_in_kubepods \/ PodOf[c] \notin apiPods
    /\ not_in_kubepods' = not_in_kubepods \cup {c}
    /\ UNCHANGED path_cache

\* is_pod_cgroup(c) returns FALSE.
NotPodCgroup(c) ==
    /\ c \notin path_cache
    /\ c \in not_in_kubepods \/ ~PathFound(c)
    /\ not_in_kubepods' = not_in_kubepods \cup {c}
    /\ UNCHANGED path_cache

-----------------------------------------------------------------------------

\* lookup_pod of the CgroupSync thread: the list call for a pod it met in
\* cgroupfs and that is not cached.
SyncList ==
    /\ SyncOn /\ HasApi
    /\ listing = {} /\ mid = NoPod
    /\ \E c \in Cgroups :
          procs[c] \in {"running", "killed"} /\ PodOf[c] \notin pod_cache
    /\ listing' = apiPods
    /\ UNCHANGED <<clusterVars, cacheVars, mid>>

\* One iteration of its loop over the pods: first the one cache ...
SyncCachePod(p) ==
    /\ p \in listing /\ mid = NoPod
    /\ pod_cache' = pod_cache \cup {p}
    /\ mid' = p
    /\ UNCHANGED <<clusterVars, path_cache, not_in_kubepods, owner_cache,
                   listing>>

\* The mutated form: an owner that cannot be read is passed over.
SyncSkipOwner ==
    /\ mid # NoPod
    /\ listing' = listing \ {mid}
    /\ mid' = NoPod
    /\ UNCHANGED <<clusterVars, cacheVars>>

\* ... then the other.
SyncCacheOwner ==
    /\ mid # NoPod
    /\ owner_cache' = owner_cache \cup {mid}
    /\ listing' = listing \ {mid}
    /\ mid' = NoPod
    /\ UNCHANGED <<clusterVars, path_cache, not_in_kubepods, pod_cache>>

SyncNext ==
    \/ SyncList
    \/ \E p \in Pods : SyncCachePod(p)
    \/ SyncCacheOwner

-----------------------------------------------------------------------------
(* The resolver on its own: the poll thread filters and resolves the       *)
(* cgroups of events, for any container that ever ran.                     *)

resolverOnlyVars == <<clusterVars, resolverVars>>

FilterEvent(c) ==
    /\ procs[c] # "absent"
    /\ IsPodCgroup(c) \/ NotPodCgroup(c)
    /\ UNCHANGED <<clusterVars, pod_cache, owner_cache, syncVars>>

ResolveEvent(c) ==
    /\ procs[c] # "absent"
    /\ Resolved(c) \/ Unresolved(c) \/ ResolveRaises(c)
    /\ UNCHANGED clusterVars

ResolverNext ==
    \/ ClusterNext /\ UNCHANGED resolverVars
    \/ SyncNext
    \/ \E c \in Cgroups : FilterEvent(c)
    \/ \E c \in Cgroups : ResolveEvent(c)

ResolverOnlyInit == ClusterInit /\ ResolverInit

ResolverSpec == ResolverOnlyInit /\ [][ResolverNext]_resolverOnlyVars

\* A container that is there is never filtered out: the negative cache, which
\* is never cleared, holds no cgroup that still exists, and none whose path
\* is known.  An attack in such a container would never be scored.
NegativeCacheSound ==
    \A c \in not_in_kubepods :
        c \notin path_cache /\ procs[c] \notin {"running", "killed"}

\* At most one pod has its name cached and its owner not, the one the
\* CgroupSync thread is writing; only its detections can be miscounted, and
\* a pod known by its owner never falls back to being known by its name.
OwnersLagByOne ==
    /\ pod_cache \ owner_cache \subseteq {mid}
    /\ owner_cache \subseteq pod_cache

=============================================================================
