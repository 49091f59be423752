---------------------------- MODULE ChatSession ----------------------------
(***************************************************************************)
(* ChatSession of nagare over its token session: turns that generate, call *)
(* tools and generate again, cancellation, readers that go away, resets    *)
(* and tools added meanwhile; and the reuse of the model's context when    *)
(* the newly encoded history extends the one it already holds.             *)
(***************************************************************************)
EXTENDS Naturals, Sequences, SequencesExt

CONSTANTS
  Turn,           \* calls of reply_with_stream, one task each
  Reset,          \* calls of reset
  Adder,          \* calls of add_tools
  MaxReply,       \* bound on the pieces of a reply
  ToolTurnLimit,  \* tool_turn_limit
  Templates,      \* whether old replies render as they were generated
  Orderly,        \* whether the encoding validates the order of roles
  Faults,         \* among "overflow", "decode"
  NoOne

ASSUME ChatAssumption ==
  /\ MaxReply \in Nat /\ ToolTurnLimit \in Nat
  /\ Templates \subseteq {"keeps", "rewrites"} /\ Orderly \subseteq BOOLEAN
  /\ Faults \subseteq {"overflow", "decode"}
  /\ NoOne \notin Turn \cup Reset \cup Adder
  /\ Turn \cap Reset = {} /\ Turn \cap Adder = {} /\ Reset \cap Adder = {}

VARIABLES
  template, orderly,  \* of the model's encoding, fixed
  state,              \* ChatSessionState
  messages,           \* the history
  registry,           \* version of the registered tools (0: none)
  declared,           \* version declared in the history's developer message
  instance,           \* who holds the lock of the token session
  encoded,            \* encoding.state().tokens
  model,              \* LanguageModelState.tokens
  pc,                 \* where each call is
  snap,               \* all_messages and their tools, as a turn cloned them
  reply,              \* the reply a turn is generating
  toolTurns, cancelled,
  spoilt,             \* history: a failure left encoded and model apart
  overtaken,          \* history: turns whose session a reset took from their tools
  crossed             \* history: such a turn went on beside whoever has it now

vars == <<template, orderly, state, messages, registry, declared, instance, encoded,
          model, pc, snap, reply, toolTurns, cancelled, spoilt, overtaken, crossed>>
fixed == <<template, orderly>>
session == <<instance, encoded, model, spoilt>>
meeting == <<overtaken, crossed>>

----------------------------------------------------------------------------
\* Messages and what they render to.

User(t) == [role |-> "user", by |-> t, round |-> 0, size |-> 0, calls |-> FALSE]
ToolResult(t, n) == [role |-> "tool", by |-> t, round |-> n, size |-> 0, calls |-> FALSE]
Assistant(t, n, size, calls) ==
  [role |-> "assistant", by |-> t, round |-> n, size |-> size, calls |-> calls]

\* The transitions of hanashi's orderings.
Follows(role, next) ==
  CASE role = "user"      -> next = "assistant"
    [] role = "assistant" -> next \in {"user", "tool"}
    [] role = "tool"      -> next \in {"tool", "assistant"}

Ordered(list) ==
  orderly => /\ list # <<>> => list[1].role = "user"
             /\ \A i \in 2 .. Len(list) : Follows(list[i - 1].role, list[i].role)

\* Two tokens stand for the tokens of a message: what it says, and its end.
\* A template may drop part of an old reply, such as its reasoning.
Says(m, as) == [of |-> <<m.role, m.by, m.round>>, part |-> as, size |-> m.size]
Body(m) == Says(m, IF m.role = "assistant" /\ template = "rewrites" THEN "abridged" ELSE "body")
End(m) == [of |-> <<m.role, m.by, m.round>>, part |-> "end", size |-> 0]
Tools(version) == [of |-> <<"developer", NoOne, version>>, part |-> "body", size |-> 0]

\* The rendered history, tools first.
History(list, version) ==
  [i \in 1 .. 2 * Len(list) + 1 |->
     IF i = 1 THEN Tools(version)
     ELSE IF i % 2 = 0 THEN Body(list[i \div 2]) ELSE End(list[i \div 2])]

\* The prompt of a turn ends with the opening of the reply it asks for.
Opening(t) == Says(Assistant(t, toolTurns[t], 0, FALSE), "body")
Prompt(t) == Append(History(snap[t].messages, snap[t].declared), Opening(t))

ExtendsLonger(new, old) == Len(new) > Len(old)

Extends(new, old) == Len(new) > Len(old) /\ SubSeq(new, 1, Len(old)) = old

\* Generated tokens go on from the opening.
Grown(context, size) == [context EXCEPT ![Len(context)].size = size]

----------------------------------------------------------------------------
NoClone == [messages |-> <<>>, declared |-> 0]
NoReply == [size |-> 0, calls |-> FALSE, stored |-> FALSE, finish |-> "none"]

Init ==
  /\ template \in Templates /\ orderly \in Orderly
  /\ state = "Idle"
  /\ messages = <<>> /\ registry = 0 /\ declared = 0
  /\ instance = NoOne /\ encoded = <<>> /\ model = <<>>
  /\ pc = [p \in Turn \cup Reset \cup Adder |-> "new"]
  /\ snap = [t \in Turn |-> NoClone]
  /\ reply = [t \in Turn |-> NoReply]
  /\ toolTurns = [t \in Turn |-> 0]
  /\ cancelled = {}
  /\ spoilt = FALSE /\ overtaken = {} /\ crossed = FALSE

Goto(p, label) == pc' = [pc EXCEPT ![p] = label]

\* try_transition.
CanMove(from) == state = from

\* The task of a turn starts: one turn at a time.
Begin(t) ==
  /\ pc[t] = "new"
  /\ IF CanMove("Idle") THEN state' = "Generation" /\ Goto(t, "extend")
     ELSE UNCHANGED state /\ Goto(t, "done")
  /\ UNCHANGED <<fixed, meeting, messages, registry, declared, session, snap, reply,
                 toolTurns, cancelled>>

\* send_input: the input joins the history, registered tools are declared, a
\* clone is taken.
ExtendMessages(t) ==
  LET input == IF toolTurns[t] = 0 THEN User(t) ELSE ToolResult(t, toolTurns[t])
  IN  /\ pc[t] = "extend"
      /\ messages' = Append(messages, input)
      /\ declared' = registry
      /\ snap' = [snap EXCEPT ![t] = [messages |-> messages', declared |-> registry]]
      /\ reply' = [reply EXCEPT ![t] = NoReply]
      /\ Goto(t, "open")
      /\ UNCHANGED <<fixed, meeting, state, registry, session, toolTurns, cancelled>>

\* What the model still holds of the prompt, and what it is to be fed.
Kept(t) == IF Extends(Prompt(t), encoded) THEN model ELSE <<>>
Fed(t) == IF Extends(Prompt(t), encoded)
          THEN SubSeq(Prompt(t), Len(encoded) + 1, Len(Prompt(t))) ELSE Prompt(t)

\* token::Session::stream, under the instance lock.
OpenStream(t) ==
  /\ pc[t] = "open" /\ instance = NoOne
  /\ Ordered(snap[t].messages)
  /\ encoded' = Prompt(t)
  /\ model' = Kept(t) \o Fed(t)
  /\ spoilt' = (spoilt /\ Extends(Prompt(t), encoded))
  /\ instance' = t
  /\ Goto(t, "stream")
  /\ UNCHANGED <<fixed, meeting, state, messages, registry, declared, snap, reply,
                 toolTurns, cancelled>>

\* The history does not encode: the encoding is left empty, the model as it was.
RefuseHistory(t) ==
  /\ pc[t] = "open" /\ instance = NoOne
  /\ ~Ordered(snap[t].messages)
  /\ encoded' = <<>>
  /\ Goto(t, "end")
  /\ UNCHANGED <<fixed, meeting, state, messages, registry, declared, instance, model,
                 spoilt, snap, reply, toolTurns, cancelled>>

\* The prompt does not fit, or its grammar does not compile: the encoding
\* holds a prompt that the model was not fed.
RefusePrompt(t) ==
  /\ "overflow" \in Faults
  /\ pc[t] = "open" /\ instance = NoOne
  /\ Ordered(snap[t].messages)
  /\ encoded' = Prompt(t)
  /\ model' = Kept(t)
  /\ spoilt' = (spoilt /\ Extends(Prompt(t), encoded))
  /\ Goto(t, "end")
  /\ UNCHANGED <<fixed, meeting, state, messages, registry, declared, instance, snap,
                 reply, toolTurns, cancelled>>

----------------------------------------------------------------------------
\* The stream.  Each output replaces the turn's reply in the history, by
\* position: the first is pushed, the others overwrite the last message.

Stored(t, message) ==
  IF reply[t].stored THEN ReplaceAt(messages, Len(messages), message)
  ELSE Append(messages, message)

\* One output of the stream, and where the turn goes after sending it; its
\* receiver may be gone, which ends the turn.
Output(t, size, calls, finish) ==
  /\ messages' = IF reply[t].stored /\ messages = <<>> THEN <<>>
                 ELSE Stored(t, Assistant(t, toolTurns[t], size, calls))
  /\ reply' = [reply EXCEPT ![t] = [size |-> size, calls |-> calls, stored |-> TRUE,
                                    finish |-> finish]]
  /\ \/ finish = "none" /\ Goto(t, "stream") /\ UNCHANGED instance
     \/ finish # "none" /\ Goto(t, "decide") /\ instance' = NoOne
     \/ Goto(t, "end") /\ instance' = NoOne

\* A token of the reply; the first one shows whether it is a tool call.
Generate(t) ==
  /\ pc[t] = "stream" /\ t \notin cancelled
  /\ reply[t].size < MaxReply
  /\ LET size == reply[t].size + 1
     IN  /\ model' = Grown(model, size)
         /\ encoded' = Grown(encoded, size)
         /\ \E calls \in (IF size = 1 THEN BOOLEAN ELSE {reply[t].calls}) :
              \/ Output(t, size, calls, "none")
              \/ Output(t, size, calls, "length")
  /\ UNCHANGED <<fixed, meeting, state, registry, declared, spoilt, snap, toolTurns,
                 cancelled>>

\* The stop token.
Stop(t) ==
  /\ pc[t] = "stream" /\ t \notin cancelled
  /\ LET end == End(Assistant(t, toolTurns[t], 0, FALSE))
     IN  model' = Append(model, end) /\ encoded' = Append(encoded, end)
  /\ Output(t, reply[t].size, reply[t].calls, IF reply[t].calls THEN "tools" ELSE "stop")
  /\ UNCHANGED <<fixed, meeting, state, registry, declared, spoilt, snap, toolTurns,
                 cancelled>>

\* A token that does not decode is in the model's context only.
FailDecode(t) ==
  /\ "decode" \in Faults
  /\ pc[t] = "stream" /\ t \notin cancelled
  /\ model' = Grown(model, reply[t].size + 1)
  /\ spoilt' = TRUE
  /\ instance' = NoOne
  /\ Goto(t, "end")
  /\ UNCHANGED <<fixed, meeting, state, messages, registry, declared, encoded, snap,
                 reply, toolTurns, cancelled>>

\* The stream ends without a token: it notices the cancellation, or the token
\* limit is zero.  What there is is rendered.
EndStream(t) ==
  /\ pc[t] = "stream"
  /\ \/ t \in cancelled /\ Output(t, reply[t].size, reply[t].calls, "cancelled")
     \/ /\ t \notin cancelled /\ reply[t].size = 0
        /\ Output(t, reply[t].size, reply[t].calls, "length")
  /\ UNCHANGED <<fixed, meeting, state, registry, declared, encoded, model, spoilt,
                 snap, toolTurns, cancelled>>

----------------------------------------------------------------------------
\* After the stream: tools, or the end of the turn.

StartToolsUnlimited(t) ==
  /\ pc[t] = "decide"
  /\ reply[t].finish = "tools" /\ t \notin cancelled /\ registry > 0
  /\ toolTurns' = [toolTurns EXCEPT ![t] = @ + 1]
  /\ IF CanMove("Generation") THEN state' = "ToolCalling" /\ Goto(t, "tools")
     ELSE UNCHANGED state /\ Goto(t, "done")
  /\ UNCHANGED <<fixed, meeting, messages, registry, declared, session, snap, reply,
                 cancelled>>

\* The session has all the tools called and the limit allows another round.
StartTools(t) ==
  /\ pc[t] = "decide"
  /\ reply[t].finish = "tools" /\ t \notin cancelled
  /\ registry > 0 /\ toolTurns[t] < ToolTurnLimit
  /\ toolTurns' = [toolTurns EXCEPT ![t] = @ + 1]
  /\ IF CanMove("Generation") THEN state' = "ToolCalling" /\ Goto(t, "tools")
     ELSE UNCHANGED state /\ Goto(t, "done")
  /\ UNCHANGED <<fixed, meeting, messages, registry, declared, session, snap, reply,
                 cancelled>>

\* Otherwise the caller has the reply: nothing to call, tools of its own, the
\* limit, a cancellation.
EndTurn(t) ==
  /\ pc[t] = "decide"
  /\ Goto(t, "end")
  /\ UNCHANGED <<fixed, meeting, state, messages, registry, declared, session, snap,
                 reply, toolTurns, cancelled>>

FinishToolsUnasked(t) ==
  /\ pc[t] = "tools"
  /\ state' = "Generation" /\ Goto(t, IF t \in cancelled THEN "end" ELSE "extend")
  /\ crossed' = (crossed \/ (t \in overtaken /\ state = "ToolCalling"))
  /\ UNCHANGED <<fixed, overtaken, messages, registry, declared, session, snap, reply,
                 toolTurns, cancelled>>

\* The tools have returned.  The turn goes on if the session is calling tools,
\* its own or, after a reset, those of another turn.
FinishTools(t) ==
  /\ pc[t] = "tools"
  /\ IF CanMove("ToolCalling")
     THEN /\ state' = "Generation" /\ Goto(t, IF t \in cancelled THEN "end" ELSE "extend")
          /\ crossed' = (crossed \/ t \in overtaken)
     ELSE UNCHANGED <<state, crossed>> /\ Goto(t, "done")
  /\ UNCHANGED <<fixed, overtaken, messages, registry, declared, session, snap, reply,
                 toolTurns, cancelled>>

AbandonToolsAtOnce(t) ==
  /\ pc[t] = "tools" /\ t \in cancelled
  /\ Goto(t, "done")
  /\ UNCHANGED <<fixed, meeting, state, messages, registry, declared, session, snap,
                 reply, toolTurns, cancelled>>

\* select! takes the cancellation first.
AbandonTools(t) ==
  /\ pc[t] = "tools" /\ t \in cancelled
  /\ Goto(t, "end")
  /\ crossed' = (crossed \/ t \in overtaken)
  /\ UNCHANGED <<fixed, overtaken, state, messages, registry, declared, session, snap,
                 reply, toolTurns, cancelled>>

Unresolved(m) == m.role = "assistant" /\ m.calls

TrimMessagesAlways(t) ==
  /\ pc[t] = "end"
  /\ messages' = IF messages # <<>> /\ Unresolved(Last(messages))
                 THEN Front(messages) ELSE messages
  /\ Goto(t, "idle")
  /\ UNCHANGED <<fixed, meeting, state, registry, declared, session, snap, reply,
                 toolTurns, cancelled>>

\* A cancelled turn takes an unanswered tool call out of the history.
TrimMessages(t) ==
  /\ pc[t] = "end"
  /\ messages' = IF t \in cancelled /\ messages # <<>> /\ Unresolved(Last(messages))
                 THEN Front(messages) ELSE messages
  /\ Goto(t, "idle")
  /\ UNCHANGED <<fixed, meeting, state, registry, declared, session, snap, reply,
                 toolTurns, cancelled>>

GoIdle(p) ==
  /\ pc[p] = "idle"
  /\ state' = "Idle"
  /\ Goto(p, "done")
  /\ UNCHANGED <<fixed, meeting, messages, registry, declared, session>>

\* The task of a turn ends, and what it held with it.
FinishTurn(t) ==
  /\ GoIdle(t)
  /\ snap' = [snap EXCEPT ![t] = NoClone]
  /\ reply' = [reply EXCEPT ![t] = NoReply]
  /\ toolTurns' = [toolTurns EXCEPT ![t] = 0]
  /\ cancelled' = cancelled \ {t}

----------------------------------------------------------------------------
\* reset().  It also takes a session whose tools run: their turn is overtaken,
\* and if it has been cancelled already, it goes on to write Idle.
BeginReset(r) ==
  /\ pc[r] = "new"
  /\ IF state \in {"Idle", "ToolCalling"}
     THEN /\ state' = "Resetting" /\ Goto(r, "session")
          /\ overtaken' = overtaken \cup {t \in Turn : pc[t] = "tools"}
          /\ crossed' = (crossed \/ \E t \in Turn : pc[t] \in {"end", "idle"})
     ELSE UNCHANGED <<state, meeting>> /\ Goto(r, "done")
  /\ UNCHANGED <<fixed, messages, registry, declared, session, snap, reply, toolTurns,
                 cancelled>>

\* token::Session::reset; a new state is always had.
ResetSession(p, next) ==
  /\ pc[p] = "session" /\ instance = NoOne
  /\ encoded' = <<>>
  /\ model' = <<>> /\ spoilt' = FALSE
  /\ Goto(p, next)
  /\ UNCHANGED <<fixed, meeting, state, messages, registry, declared, instance, snap,
                 reply, toolTurns, cancelled>>

ClearMessages(r) ==
  /\ pc[r] = "clear"
  /\ messages' = <<>> /\ declared' = 0
  /\ Goto(r, "idle")
  /\ UNCHANGED <<fixed, meeting, state, registry, session, snap, reply, toolTurns,
                 cancelled>>

\* add_tools(): register, strip the old declarations, reset the session.
AddTools(a) ==
  /\ pc[a] = "new"
  /\ registry' = registry + 1
  /\ Goto(a, "strip")
  /\ UNCHANGED <<fixed, meeting, state, messages, declared, session, snap, reply,
                 toolTurns, cancelled>>

StripTools(a) ==
  /\ pc[a] = "strip"
  /\ declared' = 0
  /\ Goto(a, IF messages = <<>> THEN "done" ELSE "session")
  /\ UNCHANGED <<fixed, meeting, state, messages, registry, session, snap, reply,
                 toolTurns, cancelled>>

----------------------------------------------------------------------------
\* The caller cancels a turn.  It is noticed at the stream at the earliest:
\* before, a cancellation is the same as one there.
Cancel(t) ==
  /\ pc[t] \in {"stream", "decide", "tools", "end"} /\ t \notin cancelled
  /\ cancelled' = cancelled \cup {t}
  /\ UNCHANGED <<fixed, meeting, state, messages, registry, declared, session, pc,
                 snap, reply, toolTurns>>

TurnStep(t) ==
  \/ Begin(t) \/ ExtendMessages(t) \/ OpenStream(t) \/ RefuseHistory(t) \/ RefusePrompt(t)
  \/ Generate(t) \/ Stop(t) \/ FailDecode(t) \/ EndStream(t)
  \/ StartTools(t) \/ EndTurn(t) \/ FinishTools(t) \/ AbandonTools(t)
  \/ TrimMessages(t) \/ FinishTurn(t)
FinishReset(r) == GoIdle(r) /\ UNCHANGED <<snap, reply, toolTurns, cancelled>>
ResetStep(r) == BeginReset(r) \/ ResetSession(r, "clear") \/ ClearMessages(r) \/ FinishReset(r)
AdderStep(a) == AddTools(a) \/ StripTools(a) \/ ResetSession(a, "done")

Next == \/ \E t \in Turn : TurnStep(t) \/ Cancel(t)
        \/ \E r \in Reset : ResetStep(r)
        \/ \E a \in Adder : AdderStep(a)

Spec == Init /\ [][Next]_vars

\* Turns are tasks of the runtime, resets are awaited by their callers, tools
\* return and a model stops.
FairSpec == /\ Spec
            /\ \A t \in Turn : WF_vars(TurnStep(t))
            /\ \A r \in Reset : WF_vars(ResetSession(r, "clear") \/ ClearMessages(r) \/ FinishReset(r))
            /\ \A a \in Adder : WF_vars(AdderStep(a))
----------------------------------------------------------------------------
Under(p) == pc[p] \notin {"new", "done"}
Labels == {"new", "extend", "open", "stream", "decide", "tools", "end", "idle",
           "session", "clear", "strip", "done"}
Messages == [role : {"user", "assistant", "tool"}, by : Turn, round : 0 .. ToolTurnLimit,
             size : 0 .. MaxReply, calls : BOOLEAN]

\* Every variable keeps its shape; a turn does not run more rounds of tools
\* than tool_turn_limit.
TypeOK ==
  /\ template \in Templates /\ orderly \in Orderly
  /\ state \in {"Idle", "Generation", "ToolCalling", "Resetting"}
  /\ messages \in Seq(Messages)
  /\ registry \in Nat /\ declared \in 0 .. registry
  /\ instance \in Turn \cup {NoOne}
  /\ pc \in [Turn \cup Reset \cup Adder -> Labels]
  /\ snap \in [Turn -> [messages : Seq(Messages), declared : 0 .. registry]]
  /\ reply \in [Turn -> [size : 0 .. MaxReply, calls : BOOLEAN, stored : BOOLEAN,
                         finish : {"none", "stop", "length", "tools", "cancelled"}]]
  /\ toolTurns \in [Turn -> 0 .. ToolTurnLimit]
  /\ cancelled \subseteq Turn /\ overtaken \subseteq Turn
  /\ spoilt \in BOOLEAN /\ crossed \in BOOLEAN

\* The state of the session is a lock that no one holds by name: whatever
\* fails, is cancelled or is refused, it says what the one turn or reset under
\* way does, and Idle if there is none.  A reset may take it from a turn whose
\* tools run; that turn is out of it from then on, and returns when it finds
\* the state changed (mod.rs:408).  The lock is broken by an overtaken turn that
\* goes on (crossed): one that is cancelled writes Idle whoever has the
\* session, and one that finds another turn calling tools takes them for its own.
OneTurn == ~crossed =>
  LET Here == {p \in Turn \cup Reset : Under(p) /\ p \notin overtaken}
  IN  /\ \A p, q \in Here : p = q
      /\ state = "Idle" <=> Here = {}
      /\ state = "Resetting" <=> Here \cap Reset # {}
      /\ state = "ToolCalling" => \E t \in Here \cap Turn : pc[t] \in {"tools", "end", "idle"}
      /\ \A t \in Here : pc[t] = "tools" => state = "ToolCalling"
      /\ \A t \in overtaken : pc[t] \in {"tools", "done"}

\* "If new_all_tokens = curr_all_tokens + suffix, then just encode suffix,
\* else reset state and encode all tokens" (token.rs:158): a turn generates
\* over exactly the history it cloned and the tools declared there, however
\* earlier replies were cut, rewritten, refused or reset.  The exceptions are a
\* token that failed to decode, which only the model has (spoilt), and turns
\* that run beside each other (crossed): a history refused for one leaves the
\* encoding empty, and the other then extends it over what the model holds.
PromptIsWhole ==
  \A t \in Turn : pc[t] = "stream" /\ ~spoilt /\ ~crossed =>
    model = Grown(Prompt(t), reply[t].size) /\ encoded = model

\* A tool result stands behind the call that it answers, of the same turn and
\* round, although each reply is written over the last message whatever it is,
\* and a reset may clear the call while its tool runs.  The exception is an
\* overtaken turn that goes on: its result joins whatever history there is.
ToolResultsAnswer == ~crossed =>
  \A i \in 1 .. Len(messages) : messages[i].role = "tool" =>
    /\ i > 1
    /\ LET call == messages[i - 1]
       IN  call.calls /\ call.by = messages[i].by /\ call.round + 1 = messages[i].round

\* The history only grows at its end; otherwise its last message grows, an
\* unanswered call of a cancelled turn is taken back, or a reset clears it.
\* No turn overwrites what another one said, and no reset clears what a later
\* turn said.  An overtaken turn that goes on ends the promise.
HistoryIsKept ==
  [][\/ IsPrefix(messages, messages')
     \/ /\ messages # <<>> /\ Len(messages') = Len(messages) /\ Front(messages') = Front(messages)
        /\ LET old == Last(messages)
               new == Last(messages')
           IN  /\ old.role = "assistant" /\ new.role = "assistant"
               /\ new.by = old.by /\ new.round = old.round /\ new.size >= old.size
     \/ /\ messages # <<>> /\ messages' = Front(messages)
        /\ Unresolved(Last(messages)) /\ Last(messages).by \in cancelled
     \/ messages' = <<>> /\ state = "Resetting"
     \/ crossed]_messages

\* The session always comes back to Idle: no error, cancellation, lost reader,
\* tool or reset leaves it in a state that refuses the next turn.
BecomesIdle == state # "Idle" ~> state = "Idle"

\* Between turns the history takes a user's message and still encodes: a
\* cancelled turn drops its unanswered call "so the history stays a valid
\* tool-call sequence" (mod.rs:418).
HistoryIsEncodable ==
  state = "Idle" => \A t \in Turn : Ordered(Append(messages, User(t)))
=============================================================================
