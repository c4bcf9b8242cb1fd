---------------------------- MODULE MCMachineEJB ----------------------------
(* Instances of MachineEJB for TLC. *)
EXTENDS MachineEJB, TLC

Symmetry == Permutations(Accounts) \cup Permutations(Jobs) \cup Permutations(Hosts)
AllEvents == EventKinds
=============================================================================
