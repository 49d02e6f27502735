------------------------- MODULE MCFirmwareIdentity -------------------------
(* Small instances of FirmwareIdentity for TLC.  Processes and images are  *)
(* each interchangeable: nothing orders or names them.                     *)
EXTENDS FirmwareIdentity, TLC

Symmetry == Permutations(Procs) \cup Permutations(Files)
=============================================================================
