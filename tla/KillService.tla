---------------------------- MODULE KillService -----------------------------
(***************************************************************************)
(* What K8sKiller promises the rest of the agent about the API server,     *)
(* without queue, threads and lock: a pod is asked for by its namespace    *)
(* and name; of a request there is one at a time; it leads to one attempt  *)
(* to delete what has that name, or is given up; and then it is closed, so *)
(* that the pod can be asked for again.  A restart forgets all requests.   *)
(*                                                                         *)
(* K8sKiller is shown to implement this module (K8sKiller!Service).        *)
(***************************************************************************)
EXTENDS Cluster

VARIABLES
    stage,      \* stage[k]: how far the request for k is
    deleted     \* the pods deleted through the API since the agent started

serviceVars == <<created, apiPods, stage, deleted>>

Stages == {"none", "asked", "ended"}

Init ==
    /\ created = {}
    /\ apiPods = {}
    /\ stage = [k \in Keys |-> "none"]
    /\ deleted = {}

Ask(k) ==
    /\ stage[k] = "none"
    /\ stage' = [stage EXCEPT ![k] = "asked"]
    /\ UNCHANGED <<created, apiPods, deleted>>

\* The one API call of a request: it deletes the pod that has the name now,
\* finds none, or fails.
Attempt(k) ==
    /\ stage[k] = "asked"
    /\ \/ \E p \in apiPods :
            /\ Key(p) = k
            /\ apiPods' = apiPods \ {p}
            /\ deleted' = deleted \cup {p}
       \/ UNCHANGED <<apiPods, deleted>>
    /\ stage' = [stage EXCEPT ![k] = "ended"]
    /\ UNCHANGED created

Close(k) ==
    /\ stage[k] = "ended"
    /\ stage' = [stage EXCEPT ![k] = "none"]
    /\ UNCHANGED <<created, apiPods, deleted>>

Restart ==
    /\ stage' = [k \in Keys |-> "none"]
    /\ deleted' = {}
    /\ UNCHANGED <<created, apiPods>>

\* Pods are created, and deleted by others.
Environment ==
    /\ \/ \E p \in Pods : /\ p \notin created
                          /\ created' = created \cup {p}
                          /\ apiPods' = apiPods \cup {p}
       \/ \E p \in apiPods : apiPods' = apiPods \ {p} /\ UNCHANGED created
    /\ UNCHANGED <<stage, deleted>>

Next ==
    \/ \E k \in Keys : Ask(k) \/ Attempt(k) \/ Close(k)
    \/ Restart
    \/ Environment

Spec == Init /\ [][Next]_serviceVars

\* Every request comes to its end.
FairSpec ==
    /\ Spec
    /\ \A k \in Keys : WF_serviceVars(Attempt(k)) /\ WF_serviceVars(Close(k))

=============================================================================
