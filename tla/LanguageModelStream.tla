------------------------- MODULE LanguageModelStream -------------------------
(***************************************************************************)
(* LanguageModelStream of backend-uzu: prefill, one pass per call of       *)
(* next(), passes chained before their output is read, speculation with a  *)
(* trie of drafts, acceptance, and the state that outlives a stream when   *)
(* its owner drops it at any point and opens another one over it.          *)
(***************************************************************************)
EXTENDS TokenModel, FiniteSets

CONSTANTS
  Weights,      \* models to consider
  Speculators,  \* "none", "lookup" (prompt lookup), "dflash" (draft model)
  MaxContext,   \* max_context_length
  MaxInput,     \* bound on the length of one prompt
  Options,      \* [window: suffix_repetition_length (0: none), grammar: BOOLEAN]
  LookupWithGrammar,  \* whether streams with a grammar use the prompt lookup
  TreeBudget,   \* nodes of a DFlash tree, root included (16 or 32)
  NGram,        \* MIN_NGRAM = MAX_NGRAM
  DraftLen,     \* DRAFT_LEN
  EntryWindow, WindowPasses, IdleLimit, AcceptBar,  \* of DraftingSchedule
  NoToken,
  Unwritten     \* a row counted as cached whose copy was never submitted

ASSUME StreamAssumption ==
  /\ Token # {} /\ NoToken \notin Token /\ Unwritten \notin Token
  /\ LookupWithGrammar \in BOOLEAN
  /\ MaxContext \in Nat /\ MaxInput \in Nat
  /\ TreeBudget \in Nat \ {0}
  /\ NGram \in Nat \ {0} /\ DraftLen \in Nat \ {0}
  /\ EntryWindow \in Nat \ {0} /\ WindowPasses \in Nat \ {0}
  /\ IdleLimit \in Nat /\ AcceptBar \in Nat
  /\ Speculators \subseteq {"none", "lookup", "dflash"}
  /\ Options \subseteq [window : Nat, grammar : BOOLEAN]

VARIABLES
  weights, speculator,  \* the model, fixed
  options,              \* of the stream that is or was open
  tokens,               \* LanguageModelState.tokens
  kv,                   \* transformer_state: the token behind each cached row
  draftKv,              \* speculator_state (DFlash): likewise
  lastOutput,           \* last_output_token, or NoToken
  phase,                \* DecodingState; "Closed", "Spoiled": no stream is open
  pass,                 \* the pass in flight or being accepted
  taken,                \* num_accepted
  ring,                 \* context_ring: the latest tokens a penalty looks at
  gram,                 \* what the grammar's matcher has accepted
  drafting,             \* DraftingSchedule
  opened                \* history: how many tokens come before the latest grammar

\* What streams may be opened with over this model.
Offered(o) == o.grammar /\ speculator = "lookup" => LookupWithGrammar

vars == <<weights, speculator, options, tokens, kv, draftKv, lastOutput,
          phase, pass, taken, ring, gram, drafting, opened>>
model == <<weights, speculator>>

----------------------------------------------------------------------------
\* The trie of a pass.  A node is named by its path below the root.

\* The tokens of a path, from the root on.
Row(root, path) == <<root>> \o path

\* The nodes on the way to a path, itself included.
Above(path) == {SubSeq(path, 1, n) : n \in 0 .. Len(path)}

Chain(drafts) == Above(drafts)

\* What the draft model may come up with.
Trees(budget) ==
  LET paths == UNION {[1 .. n -> Token] : n \in 0 .. budget - 1}
  IN  {tree \in SUBSET paths : /\ <<>> \in tree
                               /\ IsFiniteSet(tree) /\ Cardinality(tree) <= budget
                               /\ \A path \in tree : Above(path) \subseteq tree}

\* FlatTrie::accept follows the sampled tokens down the trie.
AcceptedPath(trie, out) ==
  CHOOSE path \in trie :
    /\ \A n \in 1 .. Len(path) : path[n] = out[SubSeq(path, 1, n - 1)]
    /\ Append(path, out[path]) \notin trie

\* `full`: the accepted inputs and what was sampled after each of them.
InputsShifted(p) == LET path == AcceptedPath(p.trie, p.out) IN Append(path, p.out[path])
Inputs(p) == Row(p.root, AcceptedPath(p.trie, p.out))
Outputs(p) == LET path == AcceptedPath(p.trie, p.out) IN Append(path, p.out[path])

----------------------------------------------------------------------------
\* PromptLookupSpeculator and its DraftingSchedule.

Propose(history, root) ==
  LET tail == LastOf(history, NGram - 1)
      ends == {e \in NGram .. Len(history) - 1 :
                 history[e] = root /\ SubSeq(history, e - NGram + 1, e - 1) = tail}
      found == CHOOSE e \in ends : \A f \in ends : f <= e
  IN  IF ends = {} THEN <<>>
      ELSE SubSeq(history, found + 1,
                  IF found + DraftLen < Len(history) THEN found + DraftLen ELSE Len(history))

\* Drafts that would have been right DraftLen tokens ago.
HindsightHits(history) ==
  LET start == Len(history) - DraftLen
      drafts == Propose(SubSeq(history, 1, start - 1), history[start])
      right == {n \in 0 .. Len(drafts) : \A i \in 1 .. n : drafts[i] = history[start + i]}
  IN  CHOOSE n \in right : \A m \in right : m <= n

FreshSchedule ==
  [paused |-> TRUE, hits |-> 0, samples |-> 0, passes |-> 0, accepted |-> 0, idle |-> 0]

\* pause() keeps the entry counters.
Pause(s) == [s EXCEPT !.paused = TRUE, !.passes = 0, !.accepted = 0, !.idle = 0]

\* The schedule after requested_batch, which asks for a full batch iff the
\* schedule it leaves is not paused.
Requested(s, history) ==
  LET judged == IF Len(history) > DraftLen
                THEN [s EXCEPT !.hits = @ + HindsightHits(history), !.samples = @ + 1]
                ELSE s
      reset  == [judged EXCEPT !.hits = 0, !.samples = 0]
  IN  CASE ~s.paused -> s
        [] s.paused /\ judged.samples < EntryWindow -> judged
        [] s.paused /\ judged.samples >= EntryWindow ->
             [reset EXCEPT !.paused =
                100 + (judged.hits * 100) \div judged.samples < AcceptBar]

Observed(s, batch, accepted) ==
  LET idle == [s EXCEPT !.idle = @ + 1]
      busy == [s EXCEPT !.idle = 0, !.passes = @ + 1, !.accepted = @ + accepted]
  IN  CASE s.paused -> s
        [] ~s.paused /\ batch <= 1 -> IF idle.idle >= IdleLimit THEN Pause(idle) ELSE idle
        [] ~s.paused /\ batch > 1 ->
             IF busy.passes < WindowPasses THEN busy
             ELSE [(IF busy.accepted * 100 < WindowPasses * AcceptBar THEN Pause(busy) ELSE busy)
                     EXCEPT !.passes = 0, !.accepted = 0]

\* The schedule exists only beside a prompt lookup.
Schedule(s) == IF speculator = "lookup" THEN s ELSE drafting

----------------------------------------------------------------------------
Init ==
  /\ weights \in Weights /\ speculator \in Speculators
  /\ options \in Options /\ Offered(options)
  /\ tokens = <<>> /\ kv = <<>> /\ draftKv = <<>>
  /\ lastOutput = NoToken
  /\ phase = "Closed"
  /\ pass = [root |-> NoToken, trie |-> {}, out |-> <<>>, full |-> TRUE, norm |-> FALSE]
  /\ taken = 0
  /\ ring = <<>> /\ gram = <<>>
  /\ drafting = FreshSchedule
  /\ opened = 0

\* Only a draft model keeps hidden features beside the cache.
Followed(rows, more) == IF speculator = "dflash" THEN rows \o more ELSE rows

\* The ring after a pass has been accepted.
Rolled(r, more) == LastOf(r \o more, options.window)

\* A grammar that is not there accepts everything and records nothing.
Accepts(g, more) == options.grammar => Admitted(g \o more)
Accepted(g, more) == IF options.grammar THEN g \o more ELSE g

PassOutputsOneSeed(s, root, trie, base, g) ==
  [path \in trie |->
     Sampled(weights, s.kv \o Row(root, path),
             LastOf(s.ring \o Row(root, path), options.window),
             base, Allowed(options.grammar, g \o path))]

\* What a pass over a trie samples at each of its nodes: the seeds count from
\* base, the masks from what the matcher has accepted.
PassOutputs(s, root, trie, base, g) ==
  [path \in trie |->
     Sampled(weights, s.kv \o Row(root, path),
             LastOf(s.ring \o Row(root, path), options.window),
             base + Len(path), Allowed(options.grammar, g \o path))]

\* new() with input.  The prompt is prefilled in chunks; its last row is
\* sampled.  A token that the previous stream sampled last is forgotten.
Open ==
  /\ phase = "Closed"
  /\ \E n \in 1 .. MaxInput, o \in Options :
       /\ Offered(o) /\ Len(tokens) + n <= MaxContext
       /\ \E input \in [1 .. n -> Token] :
            LET start == LastOf(tokens, o.window)
                out   == Sampled(weights, kv \o input, LastOf(start \o input, o.window),
                                 Len(tokens) + n - 1, Allowed(o.grammar, <<>>))
            IN  /\ tokens' = tokens \o input
                /\ kv' = kv \o input
                /\ draftKv' = Followed(draftKv, input)
                /\ ring' = LastOf(start \o input, o.window)
                /\ pass' = [root |-> input[n], trie |-> {<<>>}, out |-> [p \in {<<>>} |-> out],
                            full |-> TRUE, norm |-> TRUE]
                /\ opened' = Len(tokens) + n
       /\ options' = o
  /\ lastOutput' = NoToken
  /\ phase' = "ForwardPassPending"
  /\ gram' = <<>>
  /\ drafting' = FreshSchedule
  /\ UNCHANGED <<model, taken>>

\* new() without input goes on from the last token of the previous stream (and
\* unwraps it), with options of its own: that token was sampled under the previous
\* ones (stream.rs:375, "this leaks previous LanguageModelStreamOptions").
Continue ==
  /\ phase = "Closed" /\ tokens # <<>> /\ Len(tokens) <= MaxContext
  /\ \E o \in Options :
       /\ Offered(o)
       /\ options' = o
       /\ ring' = LastOf(tokens, o.window)
       /\ opened' = Len(tokens) + IF o.grammar /\ ~Admitted(<<lastOutput>>) THEN 1 ELSE 0
  /\ phase' = "Seeded"
  /\ pass' = [pass EXCEPT !.root = lastOutput]
  /\ lastOutput' = NoToken
  /\ gram' = <<>>
  /\ drafting' = FreshSchedule
  /\ UNCHANGED <<model, tokens, kv, draftKv, taken>>

----------------------------------------------------------------------------
\* The rest of generate(), once it has the previous output `root`.  s is the
\* state as its first half leaves it; s.sent rows are in submitted commands.

\* Rows that only an abandoned command buffer would have written.
Abandon(rows, sent) == [i \in 1 .. Len(rows) |-> IF i <= sent THEN rows[i] ELSE Unwritten]

Halt(s) ==
  /\ Len(s.kv) >= MaxContext
  /\ phase' = "Halted"
  /\ kv' = Abandon(s.kv, s.sent)
  /\ draftKv' = Abandon(s.draftKv, s.sent)
  /\ tokens' = s.tokens /\ ring' = s.ring /\ gram' = s.gram
  /\ drafting' = s.drafting
  /\ UNCHANGED pass

\* Encode and submit a pass.  fill_bitmasks walks the trie with the matcher
\* and panics where it is rejected.
Submit(s, root, trie, full, base, g) ==
  /\ IF \A path \in trie : path # <<>> => Accepts(g, path)
     THEN phase' = "ForwardPassPending" ELSE phase' = "Panicked"
  /\ pass' = [root |-> root, trie |-> trie, out |-> PassOutputs(s, root, trie, base, g),
              full |-> full, norm |-> TRUE]
  /\ kv'      = IF full THEN Append(s.kv, root) ELSE s.kv
  /\ draftKv' = IF full THEN Followed(s.draftKv, <<root>>) ELSE s.draftKv
  /\ ring'    = IF full THEN Rolled(s.ring, <<root>>) ELSE s.ring
  /\ tokens' = s.tokens
  /\ gram' = g

BatchUnclamped(s, schedule) ==
  CASE speculator = "none"   -> 1
    [] speculator = "dflash" -> TreeBudget
    [] speculator = "lookup" -> IF schedule.paused THEN 1 ELSE DraftLen + 1

\* The batch that the speculator asks for, within the rest of the context.
Batch(s, schedule) ==
  LET want == CASE speculator = "none"   -> 1
                [] speculator = "dflash" -> TreeBudget
                [] speculator = "lookup" -> IF schedule.paused THEN 1 ELSE DraftLen + 1
      room == MaxContext - Len(s.kv)
  IN  IF want < room THEN want ELSE room

\* One token, chained to the previous pass before its output is read.
PlainPass(s, root, norm, batch) ==
  /\ batch = 1 \/ (speculator = "dflash" /\ ~norm)
  /\ Submit(s, root, {<<>>}, TRUE, Len(s.kv), s.gram)

TreePassUnfiltered(s, root, norm, batch) ==
  /\ batch > 1 /\ speculator = "dflash" /\ norm
  /\ \E tree \in Trees(batch) :
       /\ options.window > 0 => \E path \in tree : tree = Chain(path)
       /\ Submit(s, root, tree, FALSE, Len(s.draftKv), s.gram)

\* A tree of the draft model, without the branches that the grammar rejects;
\* its builder takes the matcher back to where it was.  Sampling with a
\* repetition penalty admits chains only (sampling/mod.rs:125).
TreePass(s, root, norm, batch) ==
  /\ batch > 1 /\ speculator = "dflash" /\ norm
  /\ \E tree \in Trees(batch) :
       /\ options.window > 0 => \E path \in tree : tree = Chain(path)
       /\ Submit(s, root, {path \in tree : \A up \in Above(path) : up # <<>> => Accepts(s.gram, up)},
                 FALSE, Len(s.draftKv), s.gram)

\* A chain of drafts found in the history, cut at the first one that the
\* grammar rejects.  The matcher is left behind the drafts.
ChainPass(s, root, batch) ==
  /\ batch > 1 /\ speculator = "lookup"
  /\ LET found  == Propose(SubSeq(s.tokens, 1, Len(s.tokens) - 1), root)
         fit    == SubSeq(found, 1, IF Len(found) < batch - 1 THEN Len(found) ELSE batch - 1)
         legal  == {n \in 0 .. Len(fit) : \A i \in 1 .. n : Accepts(s.gram, SubSeq(fit, 1, i))}
         drafts == SubSeq(fit, 1, CHOOSE n \in legal : \A m \in legal : m <= n)
     IN  Submit(s, root, Chain(drafts), drafts = <<>>, Len(s.kv), Accepted(s.gram, drafts))

\* seen: the tokens that the schedule judges, read before the output is.
Launch(s, root, norm, seen) ==
  LET schedule == IF speculator = "lookup" THEN Requested(s.drafting, seen) ELSE s.drafting
      batch == Batch(s, schedule)
  IN  /\ Len(s.kv) < MaxContext
      /\ drafting' = schedule
      /\ \/ PlainPass(s, root, norm, batch)
         \/ TreePass(s, root, norm, batch)
         \/ ChainPass(s, root, batch)

Advance(s, root, norm, seen) == Halt(s) \/ Launch(s, root, norm, seen)

\* The stream ends with an error or a panic.
Break(s, how) ==
  /\ phase' = how
  /\ tokens' = s.tokens
  /\ UNCHANGED <<kv, draftKv, pass, ring, gram, drafting>>

----------------------------------------------------------------------------
\* next(), by the state it finds.

Here == [tokens |-> tokens, kv |-> kv, draftKv |-> draftKv, ring |-> ring, gram |-> gram,
         drafting |-> drafting, sent |-> Len(kv)]

\* The matcher stays where it is when it rejects a token.
Hearing(g, t) == IF Accepts(g, <<t>>) THEN Accepted(g, <<t>>) ELSE g

\* Seeded: return the seed, run a pass over it.  That a grammar rejects the seed
\* is ignored: it begins after it then.
GenerateSeeded ==
  /\ phase = "Seeded"
  /\ LET seeded == Append(tokens, pass.root)
     IN  Advance([Here EXCEPT !.tokens = seeded, !.gram = Hearing(@, pass.root)],
                 pass.root, FALSE, seeded)
  /\ taken' = 0
  /\ UNCHANGED <<model, options, lastOutput, opened>>

\* A fully accepted pass: its output is read after the next one is submitted.
\* A token that the grammar rejects is an error, which a stream that halts
\* survives.
GenerateChained ==
  /\ phase = "ForwardPassPending" /\ pass.full
  /\ LET root == pass.out[<<>>]
         s == [Here EXCEPT !.tokens = Append(@, root), !.gram = Hearing(@, root),
                           !.drafting = Schedule(Observed(@, 1, 1))]
     IN  IF Accepts(gram, <<root>>) THEN Advance(s, root, TRUE, tokens)
         ELSE \/ Halt(s)
              \/ Len(kv) < MaxContext /\ Break(s, "Invalid")
  /\ taken' = 0
  /\ UNCHANGED <<model, options, lastOutput, opened>>

\* The end of an accepted path: its rows join the context.
Finish(g, schedule) ==
  LET inputs == Inputs(pass)
      outputs == Outputs(pass)
      seen == tokens \o outputs
      s == [Here EXCEPT !.tokens = seen, !.kv = @ \o inputs, !.draftKv = Followed(@, inputs),
                        !.ring = Rolled(@, inputs), !.gram = g, !.drafting = schedule]
  IN  Advance(s, outputs[Len(outputs)], TRUE, seen)

\* A matcher that accepts no token has terminated.
Ended(g) == Allowed(options.grammar, g) = {}

\* The walk goes down from a node at which the matcher has terminated (the
\* assertion of FlatTrie::accept).
Overruns(g, path) ==
  /\ path # <<>>
  /\ \E n \in 0 .. Len(path) :
       LET way == SubSeq(path, 1, n) IN Ended(g \o way) /\ (n = 0 \/ Accepts(g, way))

\* A drafted pass: wait for it, walk its trie, return the first token.  A
\* matcher that has terminated is not asked.
GenerateVerified ==
  /\ phase = "ForwardPassPending" /\ ~pass.full
  /\ LET outputs == Outputs(pass)
         heard == IF Ended(gram) THEN gram ELSE Accepted(gram, outputs)
         schedule == Schedule(Observed(drafting, Cardinality(pass.trie), Len(outputs)))
     IN  IF Overruns(gram, AcceptedPath(pass.trie, pass.out)) THEN Break(Here, "Overrun") /\ taken' = 0
         ELSE IF ~Ended(gram) /\ ~Accepts(gram, outputs) THEN Break(Here, "Invalid") /\ taken' = 0
         ELSE IF Len(outputs) = 1 THEN Finish(heard, schedule) /\ taken' = 0
         ELSE /\ phase' = "Accepting" /\ taken' = 1
              /\ gram' = heard
              /\ drafting' = schedule
              /\ UNCHANGED <<tokens, kv, draftKv, pass, ring>>
  /\ UNCHANGED <<model, options, lastOutput, opened>>

MoreAcceptedLate == taken < Len(Outputs(pass))

MoreAccepted == taken < Len(Outputs(pass)) - 1

\* Return the next accepted token.
GenerateAccepted ==
  /\ phase = "Accepting"
  /\ IF MoreAccepted
     THEN taken' = taken + 1 /\ UNCHANGED <<phase, tokens, kv, draftKv, pass, ring, gram, drafting>>
     ELSE taken' = 0 /\ Finish(gram, drafting)
  /\ UNCHANGED <<model, options, lastOutput, opened>>

Broken == {"Invalid", "Panicked", "Overrun"}

\* Drop accepts what was returned and keeps the token that comes after it.
\* What a stream that broke leaves behind is not opened again here.
Drop ==
  LET inputs == CASE phase = "Accepting" -> SubSeq(Inputs(pass), 1, taken + 1)
                  [] phase = "ForwardPassPending" /\ ~pass.full -> <<pass.root>>
                  [] OTHER -> <<>>
      outputs == IF phase = "Accepting" THEN SubSeq(Outputs(pass), 1, taken) ELSE <<>>
  IN  /\ phase \notin {"Closed", "Spoiled"}
      /\ phase' = IF phase \in Broken THEN "Spoiled" ELSE "Closed"
      /\ kv' = kv \o inputs
      /\ draftKv' = Followed(draftKv, inputs)
      /\ tokens' = tokens \o outputs
      /\ lastOutput' = CASE phase = "Seeded" -> pass.root
                         [] phase = "ForwardPassPending" -> pass.out[<<>>]
                         [] phase = "Accepting" -> Outputs(pass)[taken + 1]
                         [] OTHER -> NoToken
      /\ taken' = 0
      /\ UNCHANGED <<model, options, pass, ring, gram, drafting, opened>>

Next == \/ Open \/ Continue
        \/ GenerateSeeded \/ GenerateChained \/ GenerateVerified \/ GenerateAccepted
        \/ Drop

Spec == Init /\ [][Next]_vars

----------------------------------------------------------------------------
\* What has been returned so far of a path being accepted.
Returned == IF phase = "Accepting" THEN SubSeq(Outputs(pass), 1, taken) ELSE <<>>

\* The state is of the shape its types give it: cached rows hold tokens or
\* were never written, a pass samples a token at each node of its trie, and a
\* path being accepted has both returned and unreturned tokens (the assertion
\* of drop).
TypeOK ==
  /\ weights \in Weights /\ speculator \in Speculators /\ options \in Options
  /\ tokens \in Seq(Token)
  /\ kv \in Seq(Token \cup {Unwritten}) /\ draftKv \in Seq(Token \cup {Unwritten})
  /\ lastOutput \in Token \cup {NoToken}
  /\ phase \in Broken \cup {"Closed", "Spoiled", "Seeded", "ForwardPassPending", "Accepting",
                           "Halted"}
  /\ phase = "ForwardPassPending" => <<>> \in pass.trie
  /\ pass.root \in Token \cup {NoToken}
  /\ pass.out \in [pass.trie -> Token]
  /\ IF phase = "Accepting" THEN taken \in 1 .. Len(Outputs(pass)) - 1 ELSE taken = 0
  /\ ring \in Seq(Token) /\ gram \in Seq(Token)
  /\ opened \in 0 .. MaxContext + 1

\* No pass has more rows than the context has left, although the batch of a
\* speculator does not know the limit; a stream halts at the last token the
\* context has room to sample and not before (stream.rs, the clamp and the halt).
ContextFits ==
  /\ Len(kv) <= MaxContext
  /\ phase = "ForwardPassPending" /\ ~pass.full => Len(kv) + Cardinality(pass.trie) <= MaxContext
  /\ phase = "Halted" => Len(kv) = MaxContext /\ Len(tokens) = MaxContext + 1

\* What was said under the grammar, and that the matcher was given it up to
\* where it terminated.
Said == SubSeq(tokens, opened + 1, Len(tokens))
HasHeard(g, said) ==
  g = said \/ (Ended(g) /\ Len(g) <= Len(said) /\ g = SubSeq(said, 1, Len(g)))

\* What the host believes was said, what the caches hold, what the penalty
\* ring holds and what the grammar has accepted stay in step through chained
\* passes, partly returned paths and streams dropped at any point.  A full
\* context is the one exception: its last rows were never submitted, and no
\* stream can be opened over it.  Short of that a dropped stream leaves the
\* token that a stream without input unwraps.
CachesInStep ==
  /\ phase \in {"ForwardPassPending", "Accepting"} =>
       /\ kv = IF pass.full THEN tokens ELSE SubSeq(tokens, 1, Len(tokens) - 1)
       /\ ring = LastOf(kv, options.window)
       /\ options.grammar /\ phase = "ForwardPassPending" => HasHeard(gram, Said)
  /\ phase \in {"Closed", "Seeded"} => kv = tokens \/ Len(tokens) > MaxContext
  /\ phase = "Closed" /\ Len(tokens) \in 1 .. MaxContext => lastOutput # NoToken
  /\ speculator = "dflash" => draftKv = kv

\* Drafts are filtered by the grammar when they are proposed, so building the
\* masks of a trie never meets a token that the grammar rejects
\* (trie.rs:186, expect("flat trie doesn't match grammar")).
TrieMatchesGrammar == phase # "Panicked"

\* However it drafts, chains passes, stops and goes on, a stream returns the
\* tokens of plain decoding (prompt_lookup.rs:4, "greedy output is
\* token-identical to plain decoding") under its own options, but for the first
\* token of a stream without input: that is the one of the stream before, under
\* the options of that stream, and a grammar that rejects it begins after it.
Plain == INSTANCE PlainDecoding WITH
           transcript <- tokens \o Returned,
           open <- phase \notin {"Closed", "Spoiled"},
           kept <- IF phase = "Seeded" THEN pass.root ELSE lastOutput
PlainSpec == Plain!Spec
=============================================================================
