--------------------------- MODULE MCPodResolver ----------------------------
(***************************************************************************)
(* Instance of PodResolver for TLC: db0 and db0b have the same name, app   *)
(* has two containers.                                                     *)
(***************************************************************************)
EXTENDS PodResolver

CONSTANTS db0, db0b, app, db0_1, db0b_1, app_1, app_2

MC_PodOf == [c \in Cgroups |->
    CASE c = db0_1 -> db0
      [] c = db0b_1 -> db0b
      [] c \in {app_1, app_2} -> app]

MC_NsOf == [p \in Pods |-> "prod"]

MC_NameOf == [p \in Pods |-> IF p = app THEN "app" ELSE "db-0"]

MC_OwnerOf == [p \in Pods |->
    IF p = app THEN <<"prod", "app">> ELSE <<"prod", "StatefulSet/db">>]

=============================================================================
