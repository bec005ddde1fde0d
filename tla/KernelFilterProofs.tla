------------------------- MODULE KernelFilterProofs -------------------------
(***************************************************************************)
(* Proofs about KernelFilter, for any cluster, host, policy and size of    *)
(* the map: the map never holds more than it has room for, the kernel is   *)
(* blind to excluded namespaces only, and it does not unlearn that a       *)
(* container is warn_only while the agent runs.                            *)
(***************************************************************************)
EXTENDS KernelFilter, PodResolverProofs, FiniteSetTheorems

\* What the entry of a container in the map says, as far as it is there; a
\* pod with the entry warn_only is in the cache, which is why another scan
\* cannot take it for an unknown one.
EntrySound(c) ==
    /\ cgroup_class[c] \in {"unknown", "pod", "excluded", "warn_only"}
    /\ cgroup_class[c] = "excluded" => NsOf[PodOf[c]] \in ExcludeNamespaces
    /\ cgroup_class[c] = "warn_only" =>
          /\ NsOf[PodOf[c]] \in WarnOnlyNamespaces \ ExcludeNamespaces
          /\ PodOf[c] \in pod_cache

\* The inductive invariant: entries are sound, and an agent that is down has
\* none.
MapInv ==
    /\ cgroup_class \in [AllCgroups -> Classes]
    /\ \A c \in Cgroups : EntrySound(c)
    /\ scan = "down" => \A c \in Cgroups : cgroup_class[c] = "unknown"

\* What one step may do to the map and to the cache.
Kept == UNCHANGED cgroup_class /\ pod_cache \subseteq pod_cache'

\* A resolution of the poll thread only adds to the cache of pods.
LEMMA ResolveGrows ==
    ASSUME NEW c, Resolved(c) \/ Unresolved(c) \/ ResolveRaises(c)
    PROVE  pod_cache \subseteq pod_cache'
<1>1. CASE Resolved(c)
  BY <1>1 DEF Resolved, ListPods
<1>2. CASE Unresolved(c)
  BY <1>2 DEF Unresolved, ListPods
<1>3. CASE ResolveRaises(c)
  BY <1>3 DEF ResolveRaises
<1> QED
  BY <1>1, <1>2, <1>3

\* The steps that write the map are the start and the end of the agent and
\* the visits of a directory; the cache of pods shrinks with the agent only.
LEMMA FilterSteps ==
    ASSUME [FilterNext]_filterVars
    PROVE  \/ Attach
           \/ AgentStops
           \/ \E h \in HostCgroups : VisitHost(h)
           \/ \E c \in Cgroups : VisitPod(c)
           \/ Kept /\ (scan' = "down" => scan = "down")
<1> USE DEF Kept, resolverVars, cacheVars, kernelVars, scanVars
<1>1. CASE ScanStarts \/ LookupRaises \/ PassDone
  BY <1>1 DEF ScanStarts, LookupRaises, PassDone
<1>2. CASE \E g \in AllCgroups : Probe(g)
  BY <1>2 DEF Probe, Observe, Armable, RedLine
<1>3. CASE \E c \in Cgroups : OnEvent(c)
  BY <1>3, ResolveGrows DEF OnEvent
<1>4. CASE \E h \in HostCgroups : OnHostEvent(h)
  BY <1>4 DEF OnHostEvent
<1>5. CASE PodsChange
  BY <1>5 DEF PodsChange
<1>6. CASE \E h \in HostCgroups : HostChanges(h)
  BY <1>6 DEF HostChanges
<1>7. CASE UNCHANGED filterVars
  BY <1>7 DEF filterVars
<1> QED
  BY <1>1, <1>2, <1>3, <1>4, <1>5, <1>6, <1>7 DEF FilterNext, ScanStep

\* A write changes at most the entry of the directory that is visited.
LEMMA ClassifyWrites ==
    ASSUME cgroup_class \in [AllCgroups -> Classes],
           NEW g \in AllCgroups, NEW class \in Classes, Classify(g, class)
    PROVE  /\ cgroup_class' \in [AllCgroups -> Classes]
           /\ \A a \in AllCgroups \ {g} : cgroup_class'[a] = cgroup_class[a]
           /\ cgroup_class'[g] \in {cgroup_class[g], class}
<1>1. \/ cgroup_class' = [cgroup_class EXCEPT ![g] = class]
      \/ cgroup_class' = cgroup_class
  BY Zenon DEF Classify
<1> QED
  BY <1>1

\* A lookup of the scan only adds to the cache of pods.
LEMMA VisitGrows ==
    ASSUME NEW c, VisitPod(c)
    PROVE  pod_cache \subseteq pod_cache'
  BY DEF VisitPod, ListPods

\* The classes the policy singles out are given to pods of their namespaces,
\* and warn_only to known pods only.
LEMMA PodClassMeaning ==
    ASSUME NEW c
    PROVE  /\ PodClass(c) = "excluded" => NsOf[PodOf[c]] \in ExcludeNamespaces
           /\ PodClass(c) = "warn_only" =>
                 /\ NsOf[PodOf[c]] \in WarnOnlyNamespaces \ ExcludeNamespaces
                 /\ PodOf[c] \in pod_cache'
  BY DEF PodClass, PolicyClass

\* Every step keeps the map sound.
LEMMA MapStep == MapInv /\ [FilterNext]_filterVars => MapInv'
<1> SUFFICES ASSUME MapInv, [FilterNext]_filterVars PROVE MapInv'
  OBVIOUS
<1>1. CASE Attach \/ AgentStops
  BY <1>1 DEF Attach, AgentStops, Fresh, MapInv, EntrySound, AllCgroups, Classes
<1>2. ASSUME NEW h \in HostCgroups, VisitHost(h) PROVE MapInv'
  <2>1. /\ cgroup_class' \in [AllCgroups -> Classes]
        /\ \A c \in Cgroups : cgroup_class'[c] = cgroup_class[c]
    <3>1. h \in AllCgroups /\ "host" \in Classes /\ Classify(h, "host")
      BY <1>2 DEF VisitHost, AllCgroups, Classes
    <3>2. \A c \in Cgroups : c \in AllCgroups \ {h}
      BY FilterAssumption DEF AllCgroups
    <3> QED
      BY <3>1, <3>2, ClassifyWrites DEF MapInv
  <2>2. pod_cache' = pod_cache /\ scan' = scan
    BY <1>2 DEF VisitHost, resolverVars, cacheVars
  <2> QED
    BY <2>1, <2>2 DEF MapInv, EntrySound
<1>3. ASSUME NEW d \in Cgroups, VisitPod(d) PROVE MapInv'
  <2>1. PodClass(d) \in {"pod", "excluded", "warn_only"}
    BY DEF PodClass, PolicyClass
  <2>2. /\ cgroup_class' \in [AllCgroups -> Classes]
        /\ \A c \in Cgroups \ {d} : cgroup_class'[c] = cgroup_class[c]
        /\ cgroup_class'[d] \in {cgroup_class[d], PodClass(d)}
    <3>1. d \in AllCgroups /\ PodClass(d) \in Classes /\ Classify(d, PodClass(d))
      BY <1>3, <2>1 DEF VisitPod, AllCgroups, Classes
    <3> QED
      BY <3>1, ClassifyWrites DEF MapInv, AllCgroups
  <2>3. pod_cache \subseteq pod_cache' /\ scan' = scan /\ scan = "pods"
    BY <1>3, VisitGrows DEF VisitPod
  <2>4. /\ PodClass(d) = "excluded" => NsOf[PodOf[d]] \in ExcludeNamespaces
        /\ PodClass(d) = "warn_only" =>
              /\ NsOf[PodOf[d]] \in WarnOnlyNamespaces \ ExcludeNamespaces
              /\ PodOf[d] \in pod_cache'
    BY PodClassMeaning
  <2>5. EntrySound(d)'
    BY <2>1, <2>2, <2>3, <2>4 DEF MapInv, EntrySound
  <2>6. \A c \in Cgroups \ {d} : EntrySound(c)'
    BY <2>2, <2>3 DEF MapInv, EntrySound
  <2> QED
    BY <2>2, <2>3, <2>5, <2>6 DEF MapInv
<1>4. CASE Kept /\ (scan' = "down" => scan = "down")
  BY <1>4 DEF Kept, MapInv, EntrySound
<1> QED
  BY <1>1, <1>2, <1>3, <1>4, FilterSteps

\* The map is empty to begin with.
LEMMA MapInit == FilterInit => MapInv
  BY DEF FilterInit, MapInv, EntrySound, AllCgroups, Classes

\* Whatever the lookups return, and however late they are, the kernel drops
\* the events of a container only if its namespace is excluded.
THEOREM FailOpen == FilterSpec => []BlindOnlyByPolicy
<1>1. MapInv => BlindOnlyByPolicy
  BY DEF MapInv, EntrySound, BlindOnlyByPolicy, SkippedClasses
<1> QED
  BY <1>1, MapInit, MapStep, PTL DEF FilterSpec

\* A scan that meets a warn_only container again finds its pod in the cache.
LEMMA WarnOnlyAgain ==
    ASSUME MapInv, NEW c \in Cgroups, cgroup_class[c] = "warn_only", VisitPod(c)
    PROVE  PodClass(c) = "warn_only"
<1>1. PodOf[c] \in pod_cache'
  BY VisitGrows DEF MapInv, EntrySound
<1> QED
  BY <1>1 DEF MapInv, EntrySound, PodClass, PolicyClass

\* The probes kill no process of a container the kernel knows as warn_only.
LEMMA WarnOnlySpared ==
    ASSUME [FilterNext]_filterVars, NEW c \in Cgroups,
           cgroup_class[c] = "warn_only", c \in signalled'
    PROVE  c \in signalled
<1>1. CASE \E g \in AllCgroups : Probe(g)
  BY <1>1 DEF Probe, Observe, Armable, RedLine, MaybeKill, RedLineKill,
     KillAllowed, Signal
<1>2. CASE ~\E g \in AllCgroups : Probe(g)
  <2>1. UNCHANGED signalled
    BY <1>2 DEF FilterNext, filterVars, kernelVars, Attach, AgentStops,
       ScanStep, VisitHost, ScanStarts, VisitPod, LookupRaises, PassDone,
       OnEvent, OnHostEvent, PodsChange, HostChanges
  <2> QED
    BY <2>1
<1> QED
  BY <1>1, <1>2

\* A container once known as warn_only stays so and is not killed from the
\* kernel, also while its pod terminates and the API server fails.
THEOREM WarnOnlyKept == FilterSpec => ProtectionSticks
<1>1. ASSUME MapInv, [FilterNext]_filterVars, NEW c \in Cgroups,
             cgroup_class[c] = "warn_only", scan' # "down"
      PROVE  cgroup_class'[c] = "warn_only"
  <2>1. ~Attach /\ ~AgentStops
    BY <1>1 DEF Attach, AgentStops, MapInv
  <2>2. ASSUME NEW h \in HostCgroups, VisitHost(h)
        PROVE  cgroup_class'[c] = "warn_only"
    <3>1. /\ h \in AllCgroups /\ "host" \in Classes /\ Classify(h, "host")
          /\ c \in AllCgroups \ {h}
      BY <2>2, FilterAssumption DEF VisitHost, AllCgroups, Classes
    <3> QED
      BY <1>1, <3>1, ClassifyWrites DEF MapInv
  <2>3. ASSUME NEW d \in Cgroups, VisitPod(d)
        PROVE  cgroup_class'[c] = "warn_only"
    <3>1. d \in AllCgroups /\ c \in AllCgroups /\ PodClass(d) \in Classes
          /\ Classify(d, PodClass(d))
      BY <2>3 DEF VisitPod, AllCgroups, Classes, PodClass, PolicyClass
    <3>2. CASE d = c
      BY <1>1, <2>3, <3>1, <3>2, ClassifyWrites, WarnOnlyAgain DEF MapInv
    <3>3. CASE d # c
      BY <1>1, <3>1, <3>3, ClassifyWrites DEF MapInv
    <3> QED
      BY <3>2, <3>3
  <2>4. CASE Kept
    BY <1>1, <2>4 DEF Kept
  <2> QED
    BY <1>1, <2>1, <2>2, <2>3, <2>4, FilterSteps
<1>2. MapInv /\ [FilterNext]_filterVars =>
          [\A c \in Cgroups :
              cgroup_class[c] = "warn_only" /\ scan' # "down" =>
                  /\ cgroup_class'[c] = "warn_only"
                  /\ c \in signalled' => c \in signalled]_filterVars
  BY <1>1, WarnOnlySpared
<1> QED
  BY <1>2, MapInit, MapStep, PTL DEF FilterSpec, ProtectionSticks

-----------------------------------------------------------------------------
(* Types and the size of the map.                                          *)

\* The cgroups that have an entry in the map.
Written == {g \in AllCgroups : cgroup_class[g] # "unknown"}

\* What FilterTypeOK says, without what the map's entries mean: the two maps,
\* the scan, and what it reads.
MapFits == /\ cgroup_class \in [AllCgroups -> Classes]
           /\ Cardinality(Written) <= MapSize

NodeTypes == /\ ClusterTypeOK
             /\ ResolverTypeOK
             /\ hosts \in [HostCgroups -> {"absent", "there", "gone"}]

EventTypes == /\ armed \subseteq Cgroups
              /\ pending \subseteq AllCgroups
              /\ signalled \subseteq AllCgroups

ScanTypes == /\ scan \in {"down", "prefill", "wait", "pods", "hosts"}
             /\ todo \subseteq AllCgroups
             /\ scan \in {"down", "wait"} => todo = {}

LEMMA TypesRestated ==
    FilterTypeOK <=> MapFits /\ NodeTypes /\ EventTypes /\ ScanTypes
  BY DEF FilterTypeOK, MapFits, Written, NodeTypes, EventTypes, ScanTypes

\* A write that finds the map full is no write, so one that is made fits.
LEMMA ClassifyFits ==
    ASSUME MapFits, NEW g \in AllCgroups, NEW class \in Classes \ {"unknown"},
           Classify(g, class)
    PROVE  MapFits'
<1>1. cgroup_class' \in [AllCgroups -> Classes]
  BY ClassifyWrites DEF MapFits
<1>2. CASE cgroup_class' = cgroup_class
  BY <1>1, <1>2 DEF MapFits, Written
<1>3. CASE cgroup_class' # cgroup_class
  <2>1. /\ cgroup_class' = [cgroup_class EXCEPT ![g] = class]
        /\ Cardinality(Written \cup {g}) <= MapSize
    BY <1>3 DEF Classify, Written
  <2>2. Written' = Written \cup {g}
    BY <2>1 DEF MapFits, Written
  <2> QED
    BY <1>1, <2>1, <2>2 DEF MapFits
<1> QED
  BY <1>2, <1>3

\* A map without entries fits.
LEMMA EmptyFits ==
    /\ cgroup_class = [g \in AllCgroups |-> "unknown"] => MapFits
    /\ cgroup_class' = [g \in AllCgroups |-> "unknown"] => MapFits'
<1>1. Cardinality({}) <= MapSize
  BY FS_EmptySet, FilterAssumption
<1>2. ASSUME cgroup_class = [g \in AllCgroups |-> "unknown"]
      PROVE  MapFits
  <2>1. Written = {} /\ cgroup_class \in [AllCgroups -> Classes]
    BY <1>2 DEF Written, Classes
  <2> QED
    BY <1>1, <2>1 DEF MapFits
<1>3. ASSUME cgroup_class' = [g \in AllCgroups |-> "unknown"]
      PROVE  MapFits'
  <2>1. Written' = {} /\ cgroup_class' \in [AllCgroups -> Classes]
    BY <1>3 DEF Written, Classes
  <2> QED
    BY <1>1, <2>1 DEF MapFits
<1> QED
  BY <1>2, <1>3

\* No step overfills the map, not even one that meets a cgroup that has
\* vanished meanwhile.
LEMMA FitsStep == MapFits /\ [FilterNext]_filterVars => MapFits'
<1> SUFFICES ASSUME MapFits, [FilterNext]_filterVars PROVE MapFits'
  OBVIOUS
<1>1. CASE Attach \/ AgentStops
  BY <1>1, EmptyFits DEF Attach, AgentStops, Fresh
<1>2. ASSUME NEW h \in HostCgroups, VisitHost(h) PROVE MapFits'
  <2>1. h \in AllCgroups /\ "host" \in Classes \ {"unknown"}
    BY DEF AllCgroups, Classes
  <2> QED
    BY <1>2, <2>1, ClassifyFits DEF VisitHost
<1>3. ASSUME NEW c \in Cgroups, VisitPod(c) PROVE MapFits'
  <2>1. c \in AllCgroups /\ PodClass(c) \in Classes \ {"unknown"}
    BY DEF AllCgroups, Classes, PodClass, PolicyClass
  <2> QED
    BY <1>3, <2>1, ClassifyFits DEF VisitPod
<1>4. CASE Kept
  BY <1>4 DEF Kept, MapFits, Written
<1> QED
  BY <1>1, <1>2, <1>3, <1>4, FilterSteps

\* The node and the resolver keep their types.
LEMMA NodeStep == NodeTypes /\ [FilterNext]_filterVars => NodeTypes'
<1> SUFFICES ASSUME NodeTypes, [FilterNext]_filterVars PROVE NodeTypes'
  OBVIOUS
<1>1. CASE Attach \/ AgentStops
  BY <1>1 DEF Attach, AgentStops, Fresh, NodeTypes, ClusterTypeOK,
     ResolverTypeOK, clusterVars, syncVars
<1>2. CASE \E c \in Cgroups : VisitPod(c)
  BY <1>2 DEF VisitPod, ListPods, NodeTypes, ClusterTypeOK, ResolverTypeOK,
     clusterVars, syncVars
<1>3. CASE \E c \in Cgroups : OnEvent(c)
  <2>1. PICK c \in Cgroups : OnEvent(c)
    BY <1>3
  <2>2. ClusterTypeOK' /\ hosts' = hosts
    BY <2>1 DEF OnEvent, NodeTypes, ClusterTypeOK, clusterVars
  <2>3. CASE Resolved(c) \/ Unresolved(c) \/ ResolveRaises(c)
    BY <2>2, <2>3, ResolveType DEF NodeTypes
  <2>4. CASE NotPodCgroup(c) /\ UNCHANGED <<pod_cache, owner_cache, syncVars>>
    BY <2>2, <2>4 DEF NotPodCgroup, NodeTypes, ResolverTypeOK, syncVars
  <2> QED
    BY <2>1, <2>3, <2>4 DEF OnEvent
<1>4. CASE PodsChange
  <2>1. ClusterTypeOK'
    BY <1>4, ClusterType DEF PodsChange, NodeTypes
  <2>2. ResolverTypeOK' /\ hosts' = hosts
    BY <1>4 DEF PodsChange, NodeTypes, ResolverTypeOK, resolverVars, cacheVars,
       syncVars
  <2> QED
    BY <2>1, <2>2 DEF NodeTypes
<1>5. CASE \E h \in HostCgroups : HostChanges(h)
  BY <1>5 DEF HostChanges, NodeTypes, ClusterTypeOK, ResolverTypeOK,
     clusterVars, resolverVars, cacheVars, syncVars
<1>6. CASE UNCHANGED <<clusterVars, resolverVars, hosts>>
  BY <1>6 DEF NodeTypes, ClusterTypeOK, ResolverTypeOK, clusterVars,
     resolverVars, cacheVars, syncVars
<1>7. \/ Attach \/ AgentStops
      \/ \E c \in Cgroups : VisitPod(c)
      \/ \E c \in Cgroups : OnEvent(c)
      \/ PodsChange
      \/ \E h \in HostCgroups : HostChanges(h)
      \/ UNCHANGED <<clusterVars, resolverVars, hosts>>
  BY DEF FilterNext, filterVars, ScanStep, VisitHost, ScanStarts, LookupRaises,
         PassDone, Probe, Observe, Armable, RedLine, OnHostEvent
<1> QED
  BY <1>1, <1>2, <1>3, <1>4, <1>5, <1>6, <1>7

\* So do the other map, the buffer and the record of signals.
LEMMA EventStep == EventTypes /\ [FilterNext]_filterVars => EventTypes'
<1> SUFFICES ASSUME EventTypes, [FilterNext]_filterVars PROVE EventTypes'
  OBVIOUS
<1>1. CASE \E g \in AllCgroups : Probe(g)
  BY <1>1 DEF Probe, Observe, Armable, RedLine, MaybeKill, RedLineKill, Submit,
     Signal, EventTypes
<1>2. CASE \E c \in Cgroups : OnEvent(c)
  BY <1>2 DEF OnEvent, EventTypes, AllCgroups
<1>3. CASE \E h \in HostCgroups : OnHostEvent(h)
  BY <1>3 DEF OnHostEvent, EventTypes
<1>4. CASE Attach \/ AgentStops
  BY <1>4 DEF Attach, AgentStops, Fresh, EventTypes
<1>5. CASE UNCHANGED <<armed, pending, signalled>>
  BY <1>5 DEF EventTypes
<1>6. \/ \E g \in AllCgroups : Probe(g)
      \/ \E c \in Cgroups : OnEvent(c)
      \/ \E h \in HostCgroups : OnHostEvent(h)
      \/ Attach \/ AgentStops
      \/ UNCHANGED <<armed, pending, signalled>>
  BY DEF FilterNext, filterVars, kernelVars, ScanStep, VisitHost, ScanStarts,
         VisitPod, LookupRaises, PassDone, PodsChange, HostChanges
<1> QED
  BY <1>1, <1>2, <1>3, <1>4, <1>5, <1>6

\* And the scan: nothing is left to meet when no pass is under way.
LEMMA ScanTypeStep == ScanTypes /\ [FilterNext]_filterVars => ScanTypes'
<1> SUFFICES ASSUME ScanTypes, [FilterNext]_filterVars PROVE ScanTypes'
  OBVIOUS
<1> USE DEF ScanTypes, AllCgroups, HostsThere, PodsThere
<1>1. CASE Attach \/ AgentStops
  BY <1>1 DEF Attach, AgentStops
<1>2. CASE \/ \E h \in HostCgroups : VisitHost(h)
           \/ \E c \in Cgroups : VisitPod(c)
  BY <1>2 DEF VisitHost, VisitPod
<1>3. CASE ScanStarts \/ LookupRaises \/ PassDone
  BY <1>3 DEF ScanStarts, LookupRaises, PassDone
<1>4. CASE PodsChange
  BY <1>4 DEF PodsChange
<1>5. CASE \E h \in HostCgroups : HostChanges(h)
  BY <1>5 DEF HostChanges
<1>6. CASE UNCHANGED scanVars
  BY <1>6 DEF scanVars
<1>7. \/ Attach \/ AgentStops
      \/ \E h \in HostCgroups : VisitHost(h)
      \/ \E c \in Cgroups : VisitPod(c)
      \/ ScanStarts \/ LookupRaises \/ PassDone
      \/ PodsChange
      \/ \E h \in HostCgroups : HostChanges(h)
      \/ UNCHANGED scanVars
  BY DEF FilterNext, filterVars, ScanStep, Probe, Observe, Armable, RedLine,
         OnEvent, OnHostEvent
<1> QED
  BY <1>1, <1>2, <1>3, <1>4, <1>5, <1>6, <1>7

\* The two maps, the perf buffer and the scan always hold what the code
\* expects; in particular cgroup_class never holds more entries than the map
\* has room for, and a pass that was broken off leaves nothing behind.
THEOREM FilterTypeCorrect == FilterSpec => []FilterTypeOK
<1>1. FilterInit => MapFits /\ NodeTypes /\ EventTypes /\ ScanTypes
  <2> SUFFICES ASSUME FilterInit
               PROVE  MapFits /\ NodeTypes /\ EventTypes /\ ScanTypes
    OBVIOUS
  <2>1. MapFits
    BY EmptyFits DEF FilterInit
  <2>2. NodeTypes
    BY DEF FilterInit, ClusterInit, ResolverInit, NodeTypes, ClusterTypeOK,
           ProcStates, ResolverTypeOK
  <2>3. EventTypes /\ ScanTypes
    BY DEF FilterInit, EventTypes, ScanTypes
  <2> QED
    BY <2>1, <2>2, <2>3
<1> QED
  BY <1>1, FitsStep, NodeStep, EventStep, ScanTypeStep, TypesRestated, PTL
     DEF FilterSpec

=============================================================================
