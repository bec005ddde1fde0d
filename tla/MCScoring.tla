----------------------------- MODULE MCScoring ------------------------------
(***************************************************************************)
(* The instance of Scoring for TLC: the names of all rules can be built,   *)
(* in their places and in others, next to names that only look like them,  *)
(* relative names, and names with an empty component.                      *)
(***************************************************************************)
EXTENDS Scoring

MC_Steps == {
    <<"">>, <<"host">>, <<"shadow">>, <<"admin.conf">>,
    <<"etc", "shadow">>, <<"etc", "hosts">>, <<"etc", "kubernetes">>,
    <<"pki", "ca.key">>, <<".ssh", "id_rsa">>, <<".ssh", "authorized_keys">>,
    <<"run", "docker.sock">>, <<"run", "containerd.sock">>, <<"run", "crio.sock">>,
    <<"proc", "1", "root">>, <<"proc", "1", "ns">>,
    <<"var", "lib", "kubelet", "pods">> }

=============================================================================
