---------------------------- MODULE MCK8sKiller -----------------------------
(***************************************************************************)
(* Instances of K8sKiller for TLC.                                         *)
(*                                                                         *)
(*   db0, db0b   a StatefulSet pod and its replacement: one name, two uids *)
(*   app         a pod without an owner                                    *)
(*   dns         a pod of a Deployment in a warn_only namespace            *)
(*   sys         a pod of an excluded namespace                            *)
(***************************************************************************)
EXTENDS K8sKiller, TLC

CONSTANTS db0, db0b, app, dns, sys,
          db0_1, db0b_1, app_1, dns_1, sys_1

MC_PodOf == [c \in Cgroups |->
    CASE c = db0_1 -> db0
      [] c = db0b_1 -> db0b
      [] c = app_1 -> app
      [] c = dns_1 -> dns
      [] c = sys_1 -> sys]

MC_NsOf == [p \in Pods |->
    CASE p \in {db0, db0b, app} -> "prod"
      [] p = dns -> "infra"
      [] p = sys -> "system"]

MC_NameOf == [p \in Pods |->
    CASE p \in {db0, db0b} -> "db-0"
      [] p = app -> "app"
      [] p = dns -> "dns-x"
      [] p = sys -> "sys"]

\* app has no owner: it is counted by its own name.
MC_OwnerOf == [p \in Pods |->
    CASE p \in {db0, db0b} -> <<"prod", "StatefulSet/db">>
      [] p = app -> <<"prod", "app">>
      [] p = dns -> <<"infra", "Deployment/dns">>
      [] p = sys -> <<"system", "DaemonSet/sys">>]

MC_OwnerKeys == {MC_OwnerOf[p] : p \in Pods}
                    \cup {<<MC_NsOf[p], MC_NameOf[p]>> : p \in Pods}

WorkerSymmetry == Permutations(Workers)

=============================================================================
