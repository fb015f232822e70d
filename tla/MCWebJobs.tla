----------------------------- MODULE MCWebJobs -----------------------------
(* One inventory action, for the files, the cancellation and the restart;  *)
(* or three commands, one of which finds the queue full.                   *)
EXTENDS WebJobs, TLC

MCNone == {}
MCJob == {"a1"}
MCSymmetry == Permutations(Jobs)
=============================================================================
