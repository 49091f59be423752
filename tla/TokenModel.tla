----------------------------- MODULE TokenModel -----------------------------
(***************************************************************************)
(* The language model as a stream of tokens meets it: a function from the  *)
(* tokens in its context, the tokens a repetition penalty looks at, and    *)
(* the seed of the position to the next token, under the mask of a         *)
(* grammar.  What the function computes (the kernels) is a parameter.      *)
(***************************************************************************)
EXTENDS Naturals, Sequences

CONSTANTS
  Token,              \* the vocabulary
  Sample(_, _, _, _), \* weights, context, penalised tokens, seed -> token
  Legal(_)            \* the token sequences that a grammar admits

\* The last n elements of a sequence, or all of a shorter one.
LastOf(s, n) == SubSeq(s, IF Len(s) > n THEN Len(s) - n + 1 ELSE 1, Len(s))

\* A grammar's matcher takes a sequence token by token.
Admitted(s) == \A n \in 1 .. Len(s) : Legal(SubSeq(s, 1, n))

\* The bitmask of a grammar that has accepted consumed.
Allowed(grammar, consumed) ==
  IF grammar THEN {t \in Token : Admitted(Append(consumed, t))} ELSE Token

\* Sampling under a mask: the model's choice if the mask has it, else some
\* token of the mask.
Sampled(weights, context, penalised, seed, allowed) ==
  LET choice == Sample(weights, context, penalised, seed)
  IN  IF choice \in allowed THEN choice
      ELSE CHOOSE t \in (IF allowed = {} THEN Token ELSE allowed) : TRUE

\* Plain decoding, one token per pass: the whole transcript is the context,
\* its end is what the penalty looks at, its last position gives the seed.
NextToken(weights, options, transcript, consumed) ==
  Sampled(weights, transcript, LastOf(transcript, options.window),
          Len(transcript) - 1, Allowed(options.grammar, consumed))
=============================================================================
