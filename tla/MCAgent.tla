------------------------------ MODULE MCAgent -------------------------------
(***************************************************************************)
(* Instances of Agent for TLC: db0 is a pod of a StatefulSet and db0b its  *)
(* replacement, which has the same name; each has one container.           *)
(***************************************************************************)
EXTENDS Agent

CONSTANTS db0, db0b, db0_1, db0b_1

MC_PodOf == [c \in Cgroups |-> IF c = db0_1 THEN db0 ELSE db0b]

MC_NsOf == [p \in Pods |-> "prod"]

MC_NameOf == [p \in Pods |-> "db-0"]

MC_OwnerOf == [p \in Pods |-> <<"prod", "StatefulSet/db">>]

MC_OwnerKeys == {<<"prod", "StatefulSet/db">>, <<"prod", "db-0">>}

=============================================================================
