---------------------------- MODULE MCBatchJobs ----------------------------
(* Instances of BatchJobs for TLC. *)
EXTENDS BatchJobs, TLC

Symmetry == Permutations(Jobs) \cup Permutations(Hosts)
AllEvents == EventKinds
=============================================================================
