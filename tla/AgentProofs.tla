---------------------------- MODULE AgentProofs -----------------------------
(***************************************************************************)
(* Proofs about Agent: every step of the agent is a step of the killer, or *)
(* one of the resolver that leaves the killer alone.  So what is proved of *)
(* K8sKiller, whose handle_kill anybody may call at any time, is true of   *)
(* it where on_event calls it, with whatever else the poll thread does.    *)
(***************************************************************************)
EXTENDS Agent, K8sKillerProofs

\* A detection comes from a container that ran at some time: the part of the
\* inductive invariant that AgentTypeOK does not say.
OnceRan ==
    /\ \A i \in DOMAIN perf : procs[perf[i]] # "absent"
    /\ reacting # NoCgroup => procs[reacting] # "absent"

AgentInv == AgentTypeOK /\ OnceRan

\* The resolutions that on_event makes apart from handle_kill: the filter of
\* pod cgroups, and the namespace of a transition.
OnEventResolves ==
    /\ UNCHANGED <<clusterVars, trackerVars, killerVars>>
    /\ ResolverTypeOK'

-----------------------------------------------------------------------------
(* The steps of the agent, seen by the killer.                             *)

\* Handling the oldest event takes it from the buffer.
LEMMA EventTaken ==
    ASSUME AgentInv, NEW c, NextEvent(c)
    PROVE  /\ c \in Cgroups /\ procs[c] # "absent" /\ reacting = NoCgroup
           /\ perf' \in Seq(Cgroups)
           /\ \A i \in DOMAIN perf' : procs[perf'[i]] # "absent"
           /\ pc = "idle"
<1>1. perf \in Seq(Cgroups) /\ perf # <<>> /\ c = Head(perf) /\ perf' = Tail(perf)
      /\ reacting = NoCgroup
  BY DEF AgentInv, AgentTypeOK, NextEvent
<1>2. /\ Len(perf) \in Nat \ {0}
      /\ DOMAIN perf = 1 .. Len(perf)
      /\ Head(perf) = perf[1]
      /\ Head(perf) \in Cgroups
      /\ Tail(perf) \in Seq(Cgroups)
      /\ DOMAIN Tail(perf) = 1 .. Len(perf) - 1
      /\ \A i \in 1 .. Len(perf) - 1 : Tail(perf)[i] = perf[i + 1]
  BY <1>1, HeadTailProperties, LenProperties, EmptySeq
<1>3. \A i \in 1 .. Len(perf) : procs[perf[i]] # "absent"
  BY <1>2 DEF AgentInv, OnceRan
<1>4. procs[c] # "absent"
  BY <1>1, <1>2, <1>3
<1>5. \A i \in 1 .. Len(perf) - 1 : i + 1 \in 1 .. Len(perf)
  BY <1>2
<1>6. \A i \in DOMAIN perf' : procs[perf'[i]] # "absent"
  BY <1>1, <1>2, <1>3, <1>5
<1>7. pc = "idle"
  BY <1>1, AgentAssumption DEF AgentInv, AgentTypeOK, TypeOK, KillerTypeOK
<1> QED
  BY <1>1, <1>2, <1>4, <1>6, <1>7

\* The filter and the resolution of a transition change caches only.
LEMMA OnEventCaches ==
    ASSUME ClusterTypeOK, ResolverTypeOK, NEW c \in Cgroups
    PROVE  /\ /\ IsPodCgroup(c) \/ NotPodCgroup(c)
              /\ UNCHANGED <<pod_cache, owner_cache, syncVars>>
              => ResolverTypeOK'
           /\ IsPodCgroup(c) /\ NamespaceKnown(c) => ResolverTypeOK'
           /\ ResolveRaises(c) => ResolverTypeOK'
<1>1. ASSUME IsPodCgroup(c) \/ NotPodCgroup(c),
             UNCHANGED <<pod_cache, owner_cache, syncVars>>
      PROVE  ResolverTypeOK'
  BY <1>1 DEF IsPodCgroup, NotPodCgroup, ResolverTypeOK, syncVars
<1>2. ASSUME IsPodCgroup(c), NamespaceKnown(c)
      PROVE  ResolverTypeOK'
  <2>1. CASE MetricsOn
    BY <1>2, <2>1, ResolveType DEF NamespaceKnown
  <2>2. CASE ~MetricsOn
    BY <1>1, <1>2, <2>2 DEF NamespaceKnown
  <2> QED
    BY <2>1, <2>2
<1>3. ResolveRaises(c) => ResolverTypeOK'
  BY ResolveType
<1> QED
  BY <1>1, <1>2, <1>3

\* What on_event does with an event, up to the call of handle_kill.
LEMMA EventStep ==
    ASSUME AgentInv, NEW c \in Cgroups,
           Ignore(c) \/ Warn(c) \/ Kill(c) \/ TransitionRaises(c)
    PROVE  OnEventResolves /\ AgentInv'
<1>1. NextEvent(c)
  BY DEF Ignore, Warn, Kill, TransitionRaises, Transition
<1>2. TypeOK /\ ClusterTypeOK /\ ResolverTypeOK
  BY DEF AgentInv, AgentTypeOK, TypeOK
<1>3. UNCHANGED <<clusterVars, trackerVars, killerVars>>
  BY DEF Ignore, Warn, Kill, TransitionRaises
<1>4. ResolverTypeOK'
  BY <1>2, OnEventCaches DEF Ignore, Warn, Kill, TransitionRaises, Transition
<1>5. TypeOK'
  BY <1>2, <1>3, <1>4 DEF TypeOK, ClusterTypeOK, TrackerTypeOK, KillerTypeOK,
     clusterVars, trackerVars, killerVars, pollVars, workerVars, historyVars
<1>6. pc' = "idle" /\ procs' = procs
  BY <1>1, <1>3, EventTaken DEF killerVars, pollVars, clusterVars
<1>7. last_decision' \in [Cgroups -> Decisions]
  BY DEF Ignore, Warn, Kill, TransitionRaises, Transition, AgentInv,
         AgentTypeOK, Decisions
<1>8. armed' \subseteq Cgroups
  BY DEF Ignore, Warn, Kill, TransitionRaises, Arm, AgentInv, AgentTypeOK
<1>9. reacting' \in {NoCgroup, c}
  BY <1>1 DEF Ignore, Warn, Kill, TransitionRaises, NextEvent
<1>10. AgentTypeOK'
  BY <1>1, <1>5, <1>6, <1>7, <1>8, <1>9, EventTaken DEF AgentTypeOK, Decisions
<1>11. OnceRan'
  BY <1>1, <1>6, <1>9, EventTaken DEF OnceRan
<1> QED
  BY <1>3, <1>4, <1>10, <1>11 DEF OnEventResolves, AgentInv

\* A container that ran does not become one that never did.
LEMMA RanStays ==
    ASSUME ClusterTypeOK, ClusterNext \/ UNCHANGED procs \/ CgroupKill,
           NEW c \in Cgroups, procs[c] # "absent"
    PROVE  procs'[c] # "absent"
<1>1. CASE ClusterNext
  BY <1>1 DEF ClusterNext, CreatePod, StartContainer, DeletePod, RemoveCgroup,
     ClusterTypeOK
<1>2. CASE CgroupKill
  BY <1>2 DEF CgroupKill, ClusterTypeOK
<1> QED
  BY <1>1, <1>2

\* So the agent's own invariant depends on little.
LEMMA AgentInvKept ==
    ASSUME AgentInv, TypeOK',
           ClusterNext \/ UNCHANGED procs \/ CgroupKill,
           UNCHANGED <<perf, last_decision, armed>>,
           \/ reacting' = NoCgroup /\ pc' = "idle"
           \/ reacting' = reacting /\ (pc' # "idle" => reacting = job')
    PROVE  AgentInv'
<1>1. ClusterTypeOK
  BY DEF AgentInv, AgentTypeOK, TypeOK
<1>2. AgentTypeOK'
  BY AgentAssumption DEF AgentInv, AgentTypeOK, Decisions
<1>3. \A i \in DOMAIN perf : perf[i] \in Cgroups
  BY ElementOfSeq, LenProperties DEF AgentInv, AgentTypeOK
<1>4. OnceRan'
  BY <1>1, <1>3, RanStays DEF AgentInv, AgentTypeOK, OnceRan
<1> QED
  BY <1>2, <1>4 DEF AgentInv

\* Once on_event calls handle_kill, the steps are the killer's.
LEMMA ReactionStep ==
    ASSUME AgentInv,
           \/ \E c \in Cgroups : KillSpared(c) \/ KillProceeds(c)
           \/ (CgroupKill \/ Dedup \/ Put \/ Discard) /\ UNCHANGED agentOnlyVars
           \/ Killed
    PROVE  Next /\ AgentInv'
<1>1. CASE \E c \in Cgroups : KillSpared(c)
  <2>1. PICK c \in Cgroups : KillSpared(c)
    BY <1>1
  <2>2. procs[c] # "absent"
    BY <2>1, AgentAssumption DEF KillSpared, AgentInv, OnceRan
  <2>3. Next
    BY <2>1, <2>2 DEF KillSpared, Next, HandleKill
  <2>4. TypeOK'
    BY <2>3, TypeStep DEF AgentInv, AgentTypeOK
  <2>5. UNCHANGED procs /\ pc' = "idle"
    BY <2>1 DEF KillSpared, HandleKillSpares, clusterVars, killerVars, pollVars
  <2> QED
    BY <2>1, <2>3, <2>4, <2>5, AgentInvKept DEF KillSpared
<1>2. CASE \E c \in Cgroups : KillProceeds(c)
  <2>1. PICK c \in Cgroups : KillProceeds(c)
    BY <1>2
  <2>2. procs[c] # "absent"
    BY <2>1, AgentAssumption DEF KillProceeds, AgentInv, OnceRan
  <2>3. Next
    BY <2>1, <2>2 DEF KillProceeds, Next, HandleKill
  <2>4. TypeOK'
    BY <2>3, TypeStep DEF AgentInv, AgentTypeOK
  <2>5. UNCHANGED procs /\ job' = c /\ reacting = c
    BY <2>1 DEF KillProceeds, HandleKillProceeds, clusterVars
  <2> QED
    BY <2>1, <2>3, <2>4, <2>5, AgentInvKept DEF KillProceeds, agentOnlyVars
<1>3. CASE (CgroupKill \/ Dedup \/ Put \/ Discard) /\ UNCHANGED agentOnlyVars
  <2>1. Next
    BY <1>3 DEF Next, PollStep
  <2>2. TypeOK'
    BY <2>1, TypeStep DEF AgentInv, AgentTypeOK
  <2>3. UNCHANGED procs \/ CgroupKill
    BY <1>3 DEF Dedup, Put, Discard, clusterVars
  <2>4. reacting = job /\ job' = job
    BY <1>3 DEF CgroupKill, Dedup, Put, Discard, AgentInv, AgentTypeOK
  <2> QED
    BY <1>3, <2>1, <2>2, <2>3, <2>4, AgentInvKept DEF agentOnlyVars
<1>4. CASE Killed
  <2>1. Next
    BY <1>4 DEF Killed, Next, PollStep
  <2>2. TypeOK'
    BY <2>1, TypeStep DEF AgentInv, AgentTypeOK
  <2>3. UNCHANGED <<procs, perf>> /\ pc' = "idle" /\ reacting' = NoCgroup
    BY <1>4 DEF Killed, Return, clusterVars
  <2>4. last_decision' \in [Cgroups -> Decisions] /\ armed' \subseteq Cgroups
    BY <1>4 DEF Killed, AgentInv, AgentTypeOK, Decisions
  <2>5. AgentTypeOK' /\ OnceRan'
    BY <2>2, <2>3, <2>4 DEF AgentInv, AgentTypeOK, OnceRan, Decisions
  <2> QED
    BY <2>1, <2>5 DEF AgentInv
<1> QED
  BY <1>1, <1>2, <1>3, <1>4

\* The steps of the other threads and of the node are steps of the killer,
\* and an event put in the perf buffer is none.
LEMMA OtherStep ==
    ASSUME AgentInv,
           \/ \E c \in Cgroups : Emit(c)
           \/ (\E w \in Workers : WorkerStep(w)) /\ UNCHANGED agentOnlyVars
           \/ Surroundings /\ UNCHANGED agentOnlyVars
    PROVE  [Next]_vars /\ AgentInv'
<1>1. CASE \E c \in Cgroups : Emit(c)
  <2>1. PICK c \in Cgroups : Emit(c)
    BY <1>1
  <2>2. /\ UNCHANGED <<vars, last_decision, armed, reacting>>
        /\ perf' = Append(perf, c) /\ procs[c] = "running"
    BY <2>1 DEF Emit
  <2>3. TypeOK' /\ procs' = procs /\ pc' = pc /\ job' = job
    BY <2>2, TypeStep DEF AgentInv, AgentTypeOK, vars, clusterVars, killerVars,
       pollVars
  <2>4. perf \in Seq(Cgroups) /\ Len(perf) \in Nat
    BY LenProperties DEF AgentInv, AgentTypeOK
  <2>5. /\ perf' \in Seq(Cgroups)
        /\ \A i \in DOMAIN perf' : i \in DOMAIN perf \/ i = Len(perf) + 1
        /\ perf'[Len(perf) + 1] = c
        /\ \A i \in DOMAIN perf : perf'[i] = perf[i]
    BY <2>2, <2>4, AppendProperties, LenProperties
  <2>6. AgentTypeOK'
    BY <2>2, <2>3, <2>5 DEF AgentInv, AgentTypeOK, Decisions
  <2>7. OnceRan'
    BY <2>2, <2>3, <2>5 DEF AgentInv, OnceRan
  <2> QED
    BY <2>2, <2>6, <2>7 DEF AgentInv
<1>2. CASE /\ UNCHANGED agentOnlyVars
           /\ (\E w \in Workers : WorkerStep(w)) \/ Surroundings
  <2>1. Next
    BY <1>2 DEF Next
  <2>2. TypeOK'
    BY <2>1, TypeStep DEF AgentInv, AgentTypeOK
  <2>3. UNCHANGED <<pc, job>>
    BY <1>2, AroundTheKiller
       DEF WorkerStep, Get, Delete, Finish, killerVars, pollVars
  <2>4. ClusterNext \/ UNCHANGED procs
    BY <1>2, AroundTheKiller DEF WorkerStep, Get, Delete, Finish, clusterVars
  <2>5. pc' # "idle" => reacting = job'
    BY <2>3 DEF AgentInv, AgentTypeOK
  <2> QED
    BY <1>2, <2>1, <2>2, <2>4, <2>5, AgentInvKept DEF agentOnlyVars
<1> QED
  BY <1>1, <1>2

\* Every step of the agent keeps its invariant, and is a step of the killer or
\* one that leaves the killer alone.
LEMMA AgentStep ==
    AgentInv /\ [AgentNext]_agentVars
      => AgentInv' /\ ([Next]_vars \/ OnEventResolves)
<1> SUFFICES ASSUME AgentInv, [AgentNext]_agentVars
             PROVE  AgentInv' /\ ([Next]_vars \/ OnEventResolves)
  OBVIOUS
<1>1. CASE \E c \in Cgroups :
              Ignore(c) \/ Warn(c) \/ Kill(c) \/ TransitionRaises(c)
  BY <1>1, EventStep
<1>2. CASE \/ \E c \in Cgroups : KillSpared(c) \/ KillProceeds(c)
           \/ (CgroupKill \/ Dedup \/ Put \/ Discard) /\ UNCHANGED agentOnlyVars
           \/ Killed
  BY <1>2, ReactionStep
<1>3. CASE \/ \E c \in Cgroups : Emit(c)
           \/ (\E w \in Workers : WorkerStep(w)) /\ UNCHANGED agentOnlyVars
           \/ Surroundings /\ UNCHANGED agentOnlyVars
  BY <1>3, OtherStep
<1>4. CASE UNCHANGED agentVars
  <2>1. UNCHANGED vars /\ UNCHANGED <<perf, last_decision, armed, reacting>>
    BY <1>4 DEF agentVars, agentOnlyVars
  <2>2. TypeOK' /\ UNCHANGED <<procs, pc, job>>
    BY <2>1, TypeStep DEF AgentInv, AgentTypeOK, vars, clusterVars, killerVars,
       pollVars
  <2>3. pc' # "idle" => reacting = job'
    BY <2>2 DEF AgentInv, AgentTypeOK
  <2> QED
    BY <2>1, <2>2, <2>3, AgentInvKept
<1> QED
  BY <1>1, <1>2, <1>3, <1>4, Zenon DEF AgentNext, Poll

\* The agent starts with its invariant, as a killer that has done nothing.
LEMMA AgentBegins == AgentInit => AgentInv /\ Init
<1> SUFFICES ASSUME AgentInit PROVE AgentInv /\ Init
  OBVIOUS
<1>1. Init /\ TypeOK /\ pc = "idle"
  BY TypeInit DEF AgentInit, Init, KillerInit
<1> QED
  BY <1>1 DEF AgentInit, AgentInv, AgentTypeOK, OnceRan, Decisions

-----------------------------------------------------------------------------
(* What is true of the agent.                                              *)

\* The levels, the armed cgroups and the perf buffer hold what on_event
\* expects, and while handle_kill runs, it runs for the container that
\* on_event reacts to: the level it resets at the end is that container's.
THEOREM AgentTypeCorrect == AgentSpec => []AgentTypeOK
<1>1. AgentInv => AgentTypeOK
  BY DEF AgentInv
<1> QED
  BY <1>1, AgentBegins, AgentStep, PTL DEF AgentSpec

\* The invariants of the killer.
KillerInv == Exact /\ Apart /\ PolicyInv /\ PromiseInv /\ TrackerInv

\* They hold along the steps of the agent.
LEMMA KillerInAgent ==
    /\ AgentInit => KillerInv
    /\ AgentInv /\ KillerInv /\ [AgentNext]_agentVars => KillerInv'
<1>1. ASSUME AgentInit PROVE KillerInv
  <2>1. Init
    BY <1>1, AgentBegins
  <2>2. PolicyInv
    BY <2>1 DEF Init, ClusterInit, KillerInit, PolicyInv, ProtectedUntouched
  <2> QED
    BY <2>1, <2>2, RequestsInit, PromiseBegins, TrackerBegins DEF KillerInv
<1>2. ASSUME AgentInv, KillerInv, [AgentNext]_agentVars
      PROVE  KillerInv'
  <2>1. TypeOK /\ ClusterTypeOK
    BY <1>2 DEF AgentInv, AgentTypeOK, TypeOK
  <2>2. CASE [Next]_vars
    BY <1>2, <2>1, <2>2, RequestsStep, PolicyStep, PromiseStep, TrackerStep
       DEF KillerInv
  <2>3. CASE OnEventResolves
    <3>1. UNCHANGED killerVars /\ UNCHANGED trackerVars /\ UNCHANGED clusterVars
      BY <2>3 DEF OnEventResolves
    <3>2. TrackerInv'
      BY <1>2, <3>1 DEF trackerVars, KillerInv, TrackerInv
    <3>3. Exact' /\ Apart'
      BY <1>2, <3>1, RequestsElsewhere DEF KillerInv
    <3>4. PolicyInv' /\ PromiseInv'
      BY <1>2, <2>1, <3>1, PolicyElsewhere, PromiseElsewhere DEF KillerInv
    <3> QED
      BY <3>2, <3>3, <3>4 DEF KillerInv
  <2> QED
    BY <1>2, <2>2, <2>3, AgentStep
<1> QED
  BY <1>1, <1>2

\* Where on_event makes the detections, a mark in _in_flight still stands for
\* exactly one request.
THEOREM AgentMarksExact == AgentSpec => []InFlightExact
<1>1. KillerInv => InFlightExact
  BY Restated DEF KillerInv
<1> QED
  BY <1>1, AgentBegins, AgentStep, KillerInAgent, PTL DEF AgentSpec

\* And of a pod there is one request at a time.
THEOREM AgentOneRequestPerPod == AgentSpec => []NoDuplicateRequest
<1>1. KillerInv => NoDuplicateRequest
  BY Restated DEF KillerInv
<1> QED
  BY <1>1, AgentBegins, AgentStep, KillerInAgent, PTL DEF AgentSpec

\* Whatever events arrive and whatever decisions follow them, protected
\* namespaces are left alone.
THEOREM AgentProtectedSafe == AgentSpec => []ProtectedUntouched
<1>1. KillerInv => ProtectedUntouched
  BY DEF KillerInv, PolicyInv
<1> QED
  BY <1>1, AgentBegins, AgentStep, KillerInAgent, PTL DEF AgentSpec

\* Where on_event reports a pod as killed, its delete is on its way or the log
\* says what became of it; but for the pod that was taken for a duplicate too
\* late.
THEOREM AgentPromisesKept == AgentSpec => []PromisesKept
<1>1. KillerInv => PromisesKept
  BY DEF KillerInv, PromiseInv
<1> QED
  BY <1>1, AgentBegins, AgentStep, KillerInAgent, PTL DEF AgentSpec

=============================================================================
