-------------------------- MODULE MCDirectoryLock --------------------------
(* Small instances of DirectoryLock for TLC.  The pid slots are            *)
(* interchangeable: no definition compares or orders them.                 *)
EXTENDS DirectoryLock, TLC

Symmetry == Permutations(Procs)
=============================================================================
