---------------------------- MODULE MCDownloadTask ----------------------------
(* Two callers share one task's handle. *)
EXTENDS DownloadTask, TLC

CONSTANTS alice, bob

Callers == {alice, bob}
CallerSymmetry == Permutations(Callers)
===============================================================================
