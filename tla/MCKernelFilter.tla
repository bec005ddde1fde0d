--------------------------- MODULE MCKernelFilter ---------------------------
(***************************************************************************)
(* Instances of KernelFilter for TLC: dns is a pod of a warn_only          *)
(* namespace, sys one of an excluded namespace.                            *)
(***************************************************************************)
EXTENDS KernelFilter

CONSTANTS dns, sys, dns_1, sys_1

MC_PodOf == [c \in Cgroups |-> IF c = dns_1 THEN dns ELSE sys]

MC_NsOf == [p \in Pods |-> IF p = dns THEN "infra" ELSE "system"]

MC_NameOf == [p \in Pods |-> p]

MC_OwnerOf == [p \in Pods |-> <<MC_NsOf[p], p>>]

=============================================================================
