------------------------------- MODULE Agent --------------------------------
(***************************************************************************)
(* main.py's on_event around K8sKiller: the perf buffer, the filter of     *)
(* pod cgroups, the transition test on last_decision, arming on WARN,      *)
(* handle_kill on KILL, and the cleanup when it returns True.              *)
(*                                                                         *)
(* What the correlator makes of an event is left open: any decision may    *)
(* follow any other (Correlator models how the score gets there).  An      *)
(* exception in on_event is printed and dropped by the ctypes callback,    *)
(* and the poll thread goes on with the next event.                        *)
(*                                                                         *)
(* The module follows one life of the agent: K8sKiller and KernelFilter    *)
(* have the restarts.                                                      *)
(***************************************************************************)
EXTENDS K8sKiller

CONSTANTS
    NoCgroup,       \* stands for "not reacting to a KILL"
    MaxBacklog,     \* bound of the perf buffer
    MetricsOn,      \* FALSE with --metrics-port 0
    KernelEnforce,  \* --kernel-enforce
    ArmedSize       \* the entries armed_cgroups has room for

ASSUME AgentAssumption ==
    /\ NoCgroup \notin Cgroups
    /\ MaxBacklog \in Nat
    /\ MetricsOn \in BOOLEAN
    /\ KernelEnforce \in BOOLEAN
    /\ ArmedSize \in Nat

VARIABLES
    perf,           \* the events of the perf buffer: the cgroup each is from
    last_decision,  \* the level reacted to last, "ALLOW" if absent
    armed,          \* the keys of the armed_cgroups map
    reacting        \* the cgroup on_event is calling handle_kill for

agentOnlyVars == <<perf, last_decision, armed, reacting>>
agentVars == <<vars, agentOnlyVars>>

Decisions == {"ALLOW", "WARN", "KILL"}

AgentTypeOK ==
    /\ TypeOK
    /\ perf \in Seq(Cgroups)
    /\ last_decision \in [Cgroups -> Decisions]
    /\ armed \subseteq Cgroups
    /\ reacting \in Cgroups \cup {NoCgroup}
    /\ pc # "idle" => reacting = job

AgentInit ==
    /\ Init
    /\ perf = <<>>
    /\ last_decision = [c \in Cgroups |-> "ALLOW"]
    /\ armed = {}
    /\ reacting = NoCgroup

-----------------------------------------------------------------------------

\* A process of the container makes a traced syscall.
Emit(c) ==
    /\ procs[c] = "running"
    /\ Len(perf) < MaxBacklog
    /\ perf' = Append(perf, c)
    /\ UNCHANGED <<vars, last_decision, armed, reacting>>

\* The oldest event reaches on_event, and is from cgroup c.
NextEvent(c) ==
    /\ reacting = NoCgroup
    /\ perf # <<>>
    /\ c = Head(perf)
    /\ perf' = Tail(perf)

\* It is not a pod's, or the decision asks for no reaction: ALLOW, or the
\* level of the last reaction again.
Ignore(c) ==
    /\ NextEvent(c)
    /\ \/ NotPodCgroup(c) /\ UNCHANGED last_decision
       \/ IsPodCgroup(c) /\ UNCHANGED last_decision
       \/ IsPodCgroup(c) /\ last_decision' = [last_decision EXCEPT ![c] = "ALLOW"]
    /\ UNCHANGED <<clusterVars, pod_cache, owner_cache, syncVars, trackerVars,
                   killerVars, armed, reacting>>

\* The transition into WARN or KILL.
Transition(c, decision) ==
    /\ NextEvent(c)
    /\ IsPodCgroup(c)
    /\ last_decision[c] # decision
    /\ last_decision' = [last_decision EXCEPT ![c] = decision]

\* The resolution that metrics.on_detection needs, when metrics are on.
NamespaceKnown(c) ==
    IF MetricsOn
    THEN Resolved(c) \/ Unresolved(c)
    ELSE UNCHANGED <<pod_cache, owner_cache, syncVars>>

\* arm: a full map refuses a new entry, and a log line is all that follows.
Arm(c) ==
    armed' = IF c \in armed \/ Cardinality(armed) < ArmedSize
             THEN armed \cup {c} ELSE armed

\* The mutated form: the pod is armed, not the cgroup.
WarnArmsPod(c) ==
    /\ Transition(c, "WARN")
    /\ NamespaceKnown(c)
    /\ armed' = IF KernelEnforce THEN armed \cup {PodOf[c]} ELSE armed
    /\ UNCHANGED <<clusterVars, trackerVars, killerVars, reacting>>

\* The reaction to WARN: the cgroup is armed, if the map has room.  The level
\* is kept either way, so that nobody tries again.
Warn(c) ==
    /\ Transition(c, "WARN")
    /\ NamespaceKnown(c)
    /\ IF KernelEnforce THEN Arm(c) ELSE UNCHANGED armed
    /\ UNCHANGED <<clusterVars, trackerVars, killerVars, reacting>>

\* The reaction to KILL starts: handle_kill is called next.
Kill(c) ==
    /\ Transition(c, "KILL")
    /\ NamespaceKnown(c)
    /\ reacting' = c
    /\ UNCHANGED <<clusterVars, trackerVars, killerVars, armed>>

\* Resolving the namespace raises: on_event is left with the level recorded
\* and no reaction.
TransitionRaises(c) ==
    /\ MetricsOn
    /\ \E decision \in {"WARN", "KILL"} : Transition(c, decision)
    /\ ResolveRaises(c)
    /\ UNCHANGED <<clusterVars, trackerVars, killerVars, armed, reacting>>

\* handle_kill returns False or raises.
KillSpared(c) ==
    /\ reacting = c
    /\ HandleKillSpares(c)
    /\ reacting' = NoCgroup
    /\ UNCHANGED <<perf, last_decision, armed>>

KillProceeds(c) ==
    /\ reacting = c
    /\ HandleKillProceeds(c)
    /\ UNCHANGED agentOnlyVars

\* handle_kill returns True: the story and the level are dropped, and the
\* cgroup is disarmed.
Killed ==
    /\ Return
    /\ last_decision' = [last_decision EXCEPT ![reacting] = "ALLOW"]
    /\ armed' = armed \ {reacting}
    /\ reacting' = NoCgroup
    /\ UNCHANGED perf

\* The poll thread, from the perf buffer to the end of the reaction.
Poll ==
    \/ \E c \in Cgroups :
          \/ Ignore(c) \/ Warn(c) \/ Kill(c) \/ TransitionRaises(c)
          \/ KillSpared(c) \/ KillProceeds(c)
    \/ (CgroupKill \/ Dedup \/ Put \/ Discard) /\ UNCHANGED agentOnlyVars
    \/ Killed

AgentNext ==
    \/ \E c \in Cgroups : Emit(c)
    \/ Poll
    \/ (\E w \in Workers : WorkerStep(w)) /\ UNCHANGED agentOnlyVars
    \/ Surroundings /\ UNCHANGED agentOnlyVars

AgentSpec == AgentInit /\ [][AgentNext]_agentVars

AgentFairSpec ==
    /\ AgentSpec
    /\ WF_agentVars(Poll)
    /\ \A w \in Workers : WF_agentVars(WorkerStep(w) /\ UNCHANGED agentOnlyVars)

-----------------------------------------------------------------------------

\* "`cgroup.kill` | score >= kill_threshold | SIGKILL to every process in the
\* pod" (ARCHITECTURE.md:286).  on_event reacts to a transition only, so the
\* level KILL must never be left standing for a pod that was not dealt with:
\* unless its namespace is protected or the pod is already gone, a container
\* at that level is one the reaction is still running for.
KillAnswered ==
    \A c \in Cgroups :
        last_decision[c] = "KILL" /\ reacting # c =>
            Protected(NsOf[PodOf[c]]) \/ PodOf[c] \notin apiPods

\* Once on_event decided to kill a container of a pod the resolver knows, its
\* processes end up dead, whatever the API server, the workers and the queue
\* do in the meantime.
KillReachesProcesses ==
    \A c \in Cgroups :
        /\ reacting = c
        /\ PodOf[c] \in pod_cache
        /\ ~Protected(NsOf[PodOf[c]])
        ~> procs[c] # "running"

=============================================================================
