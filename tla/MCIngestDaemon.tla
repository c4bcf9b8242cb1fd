--------------------------- MODULE MCIngestDaemon ---------------------------
(* Instances of IngestDaemon for TLC: a beads input, and a directory that  *)
(* refers to it.                                                           *)
EXTENDS IngestDaemon, TLC

CONSTANTS beads, run

Inputs == {beads, run}
BeadsOfRun == {<<run, beads>>}
(* SIGTERM is in the run with two daemons. *)
AllButTerm == EventKinds \ {"term"}
Symmetry == Permutations(Jobs) \cup Permutations(Daemons)
=============================================================================
