---------------------------- MODULE MCStorageItem ----------------------------
(* A model of two files, with one or two users. *)
EXTENDS StorageItem, TLC

CONSTANTS ada, ben

OneUser == {ada}
TwoUsers == {ada, ben}
Weights == {2}
Symmetry == Permutations(TwoUsers)
===============================================================================
