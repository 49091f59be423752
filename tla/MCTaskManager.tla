---------------------------- MODULE MCTaskManager ----------------------------
(* Two callers of one manager, and a destination whose files are absent,   *)
(* damaged or whole.                                                       *)
EXTENDS TaskManager, TLC

CONSTANTS alice, bob, m1, m2

Two == {alice, bob}
TwoMutexes == {m1, m2}

Damaged == [length |-> 1, sound |-> FALSE]
Whole == [length |-> 1, sound |-> TRUE]
TwoKinds == {Damaged, Whole}
===============================================================================
