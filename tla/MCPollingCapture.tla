------------------------- MODULE MCPollingCapture -------------------------
(***************************************************************************)
(* PollingCapture for TLC.  Who calls and who asks are interchangeable,    *)
(* which the configurations that check no liveness make use of.            *)
(***************************************************************************)
EXTENDS PollingCapture, TLC

SameCallsAndAskers == Permutations(Calls) \cup Permutations(Askers)
=============================================================================
