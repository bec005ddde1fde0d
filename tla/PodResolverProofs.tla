-------------------------- MODULE PodResolverProofs -------------------------
(***************************************************************************)
(* Proofs about PodResolver, for any cluster: types, the negative cache,   *)
(* and the two caches that the CgroupSync thread fills one after the       *)
(* other.  K8sKillerProofs uses the lemmas about types.                    *)
(***************************************************************************)
EXTENDS PodResolver, TLAPS

\* What happens to the cluster keeps its types.
LEMMA ClusterType == ClusterTypeOK /\ ClusterNext => ClusterTypeOK'
<1> SUFFICES ASSUME ClusterTypeOK, ClusterNext PROVE ClusterTypeOK'
  OBVIOUS
<1> USE DEF ClusterTypeOK, ProcStates
<1>1. CASE \E p \in Pods : CreatePod(p)
  BY <1>1 DEF CreatePod
<1>2. CASE \E c \in Cgroups : StartContainer(c)
  BY <1>2 DEF StartContainer
<1>3. CASE \E p \in Pods : DeletePod(p)
  BY <1>3 DEF DeletePod
<1>4. CASE \E c \in Cgroups : RemoveCgroup(c)
  BY <1>4 DEF RemoveCgroup
<1> QED
  BY <1>1, <1>2, <1>3, <1>4 DEF ClusterNext

\* What a resolution does to the caches keeps their types.
LEMMA ResolveType ==
    ASSUME ClusterTypeOK, ResolverTypeOK, NEW c \in Cgroups,
           Resolved(c) \/ Unresolved(c) \/ ResolveRaises(c)
    PROVE  ResolverTypeOK'
<1> USE DEF ResolverTypeOK, ClusterTypeOK, syncVars, ListPods
<1>1. CASE Resolved(c)
  BY <1>1 DEF Resolved
<1>2. CASE Unresolved(c)
  BY <1>2 DEF Unresolved
<1>3. CASE ResolveRaises(c)
  BY <1>3 DEF ResolveRaises
<1> QED
  BY <1>1, <1>2, <1>3

\* A step of the CgroupSync thread keeps the types of the caches.
LEMMA SyncType ==
    ASSUME ClusterTypeOK, ResolverTypeOK, SyncNext
    PROVE  ClusterTypeOK' /\ ResolverTypeOK'
<1> USE DEF ResolverTypeOK, ClusterTypeOK, clusterVars, cacheVars
<1>1. CASE SyncList
  BY <1>1 DEF SyncList
<1>2. CASE \E p \in Pods : SyncCachePod(p)
  BY <1>2 DEF SyncCachePod
<1>3. CASE SyncCacheOwner
  BY <1>3 DEF SyncCacheOwner
<1> QED
  BY <1>1, <1>2, <1>3 DEF SyncNext

\* Every action keeps the types.
LEMMA ResolverTypeStep ==
    ClusterTypeOK /\ ResolverTypeOK /\ [ResolverNext]_resolverOnlyVars
      => ClusterTypeOK' /\ ResolverTypeOK'
<1> SUFFICES ASSUME ClusterTypeOK, ResolverTypeOK,
                    [ResolverNext]_resolverOnlyVars
             PROVE  ClusterTypeOK' /\ ResolverTypeOK'
  OBVIOUS
<1> USE DEF resolverVars, clusterVars, cacheVars, syncVars
<1>1. CASE ClusterNext /\ UNCHANGED resolverVars
  BY <1>1, ClusterType DEF ResolverTypeOK
<1>2. CASE SyncNext
  BY <1>2, SyncType
<1>3. CASE \E c \in Cgroups : FilterEvent(c)
  BY <1>3 DEF FilterEvent, IsPodCgroup, NotPodCgroup, ClusterTypeOK,
     ResolverTypeOK
<1>4. CASE \E c \in Cgroups : ResolveEvent(c)
  BY <1>4, ResolveType DEF ResolveEvent, ClusterTypeOK
<1>5. CASE UNCHANGED resolverOnlyVars
  BY <1>5 DEF resolverOnlyVars, ClusterTypeOK, ResolverTypeOK
<1> QED
  BY <1>1, <1>2, <1>3, <1>4, <1>5 DEF ResolverNext

\* The caches hold cgroups and pods, as their keys say.
THEOREM ResolverTypeCorrect == ResolverSpec => [](ClusterTypeOK /\ ResolverTypeOK)
<1>1. ClusterInit /\ ResolverInit => ClusterTypeOK /\ ResolverTypeOK
  BY DEF ClusterInit, ResolverInit, ClusterTypeOK, ResolverTypeOK, ProcStates
<1> QED
  BY <1>1, ResolverTypeStep, PTL DEF ResolverSpec, ResolverOnlyInit

-----------------------------------------------------------------------------

\* A cgroup in the negative cache is one whose directory is gone for good,
\* and whose path was not known when it went.
GoneForGood ==
    \A c \in not_in_kubepods : procs[c] = "removed" /\ c \notin path_cache

\* No step brings a removed cgroup back, and is_pod_cgroup enters no other in
\* the negative cache.
LEMMA GoneStep ==
    ClusterTypeOK /\ ResolverTypeOK /\ GoneForGood
      /\ [ResolverNext]_resolverOnlyVars => GoneForGood'
<1> SUFFICES ASSUME ClusterTypeOK, ResolverTypeOK, GoneForGood,
                    [ResolverNext]_resolverOnlyVars
             PROVE  GoneForGood'
  OBVIOUS
<1> USE DEF GoneForGood, resolverVars, clusterVars, cacheVars, syncVars
<1>1. CASE ClusterNext /\ UNCHANGED resolverVars
  <2>1. \A c \in Cgroups : procs[c] = "removed" => procs'[c] = "removed"
    BY <1>1 DEF ClusterNext, CreatePod, StartContainer, DeletePod,
       RemoveCgroup, ClusterTypeOK
  <2> QED
    BY <1>1, <2>1 DEF ResolverTypeOK
<1>2. CASE SyncNext
  BY <1>2 DEF SyncNext, SyncList, SyncCachePod, SyncCacheOwner
<1>3. CASE \E c \in Cgroups : FilterEvent(c)
  <2>1. PICK c \in Cgroups : FilterEvent(c)
    BY <1>3
  <2>2. CASE IsPodCgroup(c)
    BY <2>1, <2>2 DEF FilterEvent, IsPodCgroup
  <2>3. CASE NotPodCgroup(c)
    <3>1. c \notin not_in_kubepods => procs[c] = "removed"
      BY <2>1, <2>3 DEF FilterEvent, NotPodCgroup, PathFound, ClusterTypeOK,
         ProcStates
    <3> QED
      BY <2>1, <2>3, <3>1 DEF FilterEvent, NotPodCgroup
  <2> QED
    BY <2>1, <2>2, <2>3 DEF FilterEvent
<1>4. CASE \E c \in Cgroups : ResolveEvent(c)
  <2>1. PICK c \in Cgroups : ResolveEvent(c)
    BY <1>4
  <2>2. /\ UNCHANGED <<procs, not_in_kubepods>>
        /\ \/ UNCHANGED path_cache
           \/ PathFound(c) /\ path_cache' = path_cache \cup {c}
    BY <2>1 DEF ResolveEvent, Resolved, Unresolved, ResolveRaises
  <2> QED
    BY <2>2 DEF PathFound
<1>5. CASE UNCHANGED resolverOnlyVars
  BY <1>5 DEF resolverOnlyVars
<1> QED
  BY <1>1, <1>2, <1>3, <1>4, <1>5 DEF ResolverNext

\* Although it is never cleared, the negative cache never hides a container
\* that is there: what it holds can never come back.
THEOREM NoContainerHidden == ResolverSpec => []NegativeCacheSound
<1>1. ClusterInit /\ ResolverInit => GoneForGood
  BY DEF ResolverInit, GoneForGood
<1>2. GoneForGood => NegativeCacheSound
  BY DEF GoneForGood, NegativeCacheSound
<1> QED
  BY <1>1, <1>2, ResolverTypeCorrect, GoneStep, PTL DEF ResolverSpec, ResolverOnlyInit

-----------------------------------------------------------------------------

\* The strengthening: the pod between the two writes has its name cached.
OwnersInv == OwnersLagByOne /\ (mid # NoPod => mid \in pod_cache)

\* Every step keeps it: the poll thread fills both caches in one step, the
\* CgroupSync thread is between two writes for one pod at a time.
LEMMA OwnersStep ==
    ResolverTypeOK /\ OwnersInv /\ [ResolverNext]_resolverOnlyVars => OwnersInv'
<1> SUFFICES ASSUME ResolverTypeOK, OwnersInv, [ResolverNext]_resolverOnlyVars
             PROVE  OwnersInv'
  OBVIOUS
<1> USE DEF OwnersInv, OwnersLagByOne, resolverVars, cacheVars, syncVars
<1>1. CASE ClusterNext /\ UNCHANGED resolverVars
  BY <1>1
<1>2. CASE SyncList
  BY <1>2 DEF SyncList
<1>3. CASE \E p \in Pods : SyncCachePod(p)
  BY <1>3, ResolverAssumption DEF SyncCachePod, ResolverTypeOK
<1>4. CASE SyncCacheOwner
  BY <1>4 DEF SyncCacheOwner
<1>5. CASE \E c \in Cgroups : FilterEvent(c)
  BY <1>5 DEF FilterEvent
<1>6. CASE \E c \in Cgroups : ResolveEvent(c)
  BY <1>6 DEF ResolveEvent, Resolved, Unresolved, ResolveRaises, ListPods
<1>7. CASE UNCHANGED resolverOnlyVars
  BY <1>7 DEF resolverOnlyVars
<1> QED
  BY <1>1, <1>2, <1>3, <1>4, <1>5, <1>6, <1>7 DEF ResolverNext, SyncNext

\* At any time at most one pod is known by its name and not by its owner.
THEOREM OwnerWindow == ResolverSpec => []OwnersLagByOne
<1>1. ClusterInit /\ ResolverInit => OwnersInv
  BY DEF ResolverInit, OwnersInv, OwnersLagByOne
<1>2. OwnersInv => OwnersLagByOne
  BY DEF OwnersInv
<1> QED
  BY <1>1, <1>2, ResolverTypeCorrect, OwnersStep, PTL DEF ResolverSpec, ResolverOnlyInit

=============================================================================
