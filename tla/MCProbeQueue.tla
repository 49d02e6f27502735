---------------------------- MODULE MCProbeQueue ----------------------------
(* Small instances of ProbeQueue for TLC.  Pid slots, kinds, targets and   *)
(* resources are each interchangeable: nothing orders or names them.       *)
EXTENDS ProbeQueue, TLC

Symmetry == Permutations(Procs) \cup Permutations(Kinds)
              \cup Permutations(Targets) \cup Permutations(Resources)
=============================================================================
