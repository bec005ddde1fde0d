---------------------------- MODULE MCCorrelator ----------------------------
(***************************************************************************)
(* The instance of Correlator for TLC.  The scores 1 and 2 with thresholds *)
(* 2 and 3 reach WARN with one or two events and KILL with two or three;   *)
(* the score 0 is the library load that only takes a place in the story.   *)
(***************************************************************************)
EXTENDS Correlator, TLC

MC_Deltas == {0, 1, 2}

CpuAndCgroupSymmetry == Permutations(Cpus) \cup Permutations(Cgroups)

=============================================================================
