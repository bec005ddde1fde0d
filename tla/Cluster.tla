------------------------------ MODULE Cluster -------------------------------
(***************************************************************************)
(* What the agent runs against, as far as its code uses it: the pods the   *)
(* API server lists for this node, and the cgroups of their containers.    *)
(* A pod is its uid.  It has a namespace and a name, and the API server    *)
(* never holds two pods with the same namespace and name at a time; a      *)
(* StatefulSet gives the name of a deleted pod to its replacement.         *)
(*                                                                         *)
(* None of this is code of the agent.  The module is extended by the       *)
(* modules that model the agent's threads.                                 *)
(***************************************************************************)
EXTENDS Naturals

CONSTANTS
    Pods,       \* pod uids
    Cgroups,    \* container cgroup ids
    PodOf,      \* PodOf[c]: the pod whose container c is
    NsOf,       \* NsOf[p]: its namespace
    NameOf      \* NameOf[p]: its name

ASSUME ClusterAssumption == PodOf \in [Cgroups -> Pods]

VARIABLES
    created,    \* the pods that were ever created
    apiPods,    \* the pods the API server holds
    procs       \* procs[c]: what became of the container of c

clusterVars == <<created, apiPods, procs>>

\* What a pod is called in API requests: delete_namespaced_pod and the
\* queue of K8sKiller know a pod by its namespace and name only.
Key(p) == <<NsOf[p], NameOf[p]>>

Keys == {Key(p) : p \in Pods}

\* "killed" is a container whose processes are dead but whose cgroup
\* directory is still there.
ProcStates == {"absent", "running", "killed", "removed"}

ClusterTypeOK ==
    /\ created \subseteq Pods
    /\ apiPods \subseteq created
    /\ procs \in [Cgroups -> ProcStates]

ClusterInit ==
    /\ created = {}
    /\ apiPods = {}
    /\ procs = [c \in Cgroups |-> "absent"]

CreatePod(p) ==
    /\ p \notin created
    /\ Key(p) \notin {Key(q) : q \in apiPods}
    /\ created' = created \cup {p}
    /\ apiPods' = apiPods \cup {p}
    /\ UNCHANGED procs

\* A container starts, for the first time or as the restart of another one
\* of its pod: a restart gets a new cgroup.
StartContainer(c) ==
    /\ PodOf[c] \in apiPods
    /\ procs[c] = "absent"
    /\ procs' = [procs EXCEPT ![c] = "running"]
    /\ UNCHANGED <<created, apiPods>>

\* Somebody else deletes the pod: a rollout, a drain, a user.
DeletePod(p) ==
    /\ p \in apiPods
    /\ apiPods' = apiPods \ {p}
    /\ UNCHANGED <<created, procs>>

\* The container is gone with its cgroup directory: it exited, it was
\* killed, or kubelet stopped it because its pod is deleted.
RemoveCgroup(c) ==
    /\ procs[c] \in {"running", "killed"}
    /\ procs' = [procs EXCEPT ![c] = "removed"]
    /\ UNCHANGED <<created, apiPods>>

ClusterNext ==
    \/ \E p \in Pods : CreatePod(p)
    \/ \E c \in Cgroups : StartContainer(c)
    \/ \E p \in Pods : DeletePod(p)
    \/ \E c \in Cgroups : RemoveCgroup(c)

=============================================================================
