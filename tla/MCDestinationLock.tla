------------------------- MODULE MCDestinationLock -------------------------
(* Two managers of two applications, each in a process of its own; and three *)
(* managers of one application, of which two share a process.                *)
EXTENDS DestinationLock

CONSTANTS a, b, c

Pair == {a, b}
Trio == {a, b, c}

MCProcessOf == [m \in Manager |-> IF m = a THEN "p" ELSE "q"]
SameApp == [m \in Manager |-> "mirai.universal"]
MixedPair == [m \in Manager |-> IF m = a THEN "mirai.apple" ELSE "mirai.universal"]
============================================================================
