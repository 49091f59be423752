--------------------------- MODULE PlainDecoding ---------------------------
(***************************************************************************)
(* What a stream of tokens promises: prompts are appended to a transcript, *)
(* and every token it returns is the one plain decoding gives for the      *)
(* transcript so far, until the context is full.  No cache, no pass in     *)
(* flight, no speculation.  A stream that stops may keep the token it      *)
(* would have returned next; one that goes on without input returns that   *)
(* token first, whatever its own options are.                              *)
(***************************************************************************)
EXTENDS TokenModel

CONSTANTS
  MaxContext,   \* max_context_length of the state
  Options,      \* the sampling options a stream can have
  NoToken

VARIABLES
  weights,      \* the model's parameters, fixed
  transcript,   \* everything prompted and returned
  options,      \* of the latest stream
  opened,       \* how much of the transcript comes before its grammar
  open,         \* is a stream open?
  kept          \* the token that a stream before it has kept, or NoToken

vars == <<weights, transcript, options, opened, open, kept>>

Init == /\ transcript = <<>> /\ opened = 0
        /\ options \in Options
        /\ open = FALSE /\ kept = NoToken

\* A new stream takes more input.  What was kept is forgotten.
Prompt == /\ ~open /\ open' = TRUE
          /\ \E n \in 1 .. MaxContext :
               /\ Len(transcript) + n <= MaxContext
               /\ \E input \in [1 .. n -> Token] : transcript' = transcript \o input
          /\ opened' = Len(transcript')
          /\ options' \in Options
          /\ kept' = NoToken
          /\ UNCHANGED weights

\* A new stream goes on without input.  A grammar that rejects what was kept
\* begins after it.
Continue == /\ ~open /\ open' = TRUE
            /\ kept # NoToken
            /\ options' \in Options
            /\ opened' = Len(transcript)
                 + IF options'.grammar /\ ~Admitted(<<kept>>) THEN 1 ELSE 0
            /\ UNCHANGED <<weights, transcript, kept>>

Coming == IF kept # NoToken THEN kept
          ELSE NextToken(weights, options, transcript,
                         SubSeq(transcript, opened + 1, Len(transcript)))

\* The caller is given the next token.
Emit == /\ open /\ Len(transcript) <= MaxContext
        /\ transcript' = Append(transcript, Coming)
        /\ kept' = NoToken
        /\ UNCHANGED <<weights, options, opened, open>>

Stop == /\ open /\ open' = FALSE
        /\ kept' \in {Coming, NoToken}
        /\ UNCHANGED <<weights, transcript, options, opened>>

Next == Prompt \/ Continue \/ Emit \/ Stop

Spec == Init /\ [][Next]_vars
=============================================================================
