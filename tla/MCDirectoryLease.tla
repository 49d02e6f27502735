-------------------------- MODULE MCDirectoryLease --------------------------
(* Small instances of DirectoryLease for TLC; pid slots are                *)
(* interchangeable.                                                        *)
EXTENDS DirectoryLease, TLC

Symmetry == Permutations(Procs)
=============================================================================
