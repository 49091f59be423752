--------------------------- MODULE MCChatSession ---------------------------
(* Two turns, one reset and one call of add_tools. *)
EXTENDS ChatSession, TLC

CONSTANTS first, second, resetter, adder

Turns == {first, second}
Resets == {resetter}
Adders == {adder}
Nobody == {}
Symmetry == Permutations(Turns)
=============================================================================
