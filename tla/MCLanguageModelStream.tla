----------------------- MODULE MCLanguageModelStream -----------------------
(***************************************************************************)
(* Two tokens and three small models, each of which shows a different      *)
(* mistake in what it is given: the one repeats its context (drafts land), *)
(* the next depends on the seed and on the whole context, the last on what *)
(* a penalty looks at.  The grammar begins with a zero, admits no two ones *)
(* in a row and ends with two zeros.                                       *)
(***************************************************************************)
EXTENDS LanguageModelStream

Sum(s) == Len(SelectSeq(s, LAMBDA t : t = 1))

MCSample(w, context, penalised, seed) ==
  CASE w = "repeat" -> IF Len(context) > 1 THEN context[Len(context) - 1] ELSE 0
    [] w = "stir"   -> (Sum(context) + seed) % 2
    [] w = "shy"    -> (Sum(penalised) + context[1] + Len(penalised)) % 2

MCLegal(s) ==
  /\ s[1] = 0
  /\ \A i \in 2 .. Len(s) : s[i] = 0 \/ s[i - 1] = 0
  /\ \A i \in 3 .. Len(s) : s[i - 1] = 1 \/ s[i - 2] = 1

Bits == {0, 1}
Structured == [window |-> 0, grammar |-> TRUE]
AnyOptions == {[window |-> 0, grammar |-> FALSE], [window |-> 2, grammar |-> FALSE], Structured}
OnlyStructured == {Structured}
=============================================================================
