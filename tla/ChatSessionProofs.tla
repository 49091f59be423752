------------------------- MODULE ChatSessionProofs -------------------------
(***************************************************************************)
(* Theorems about ChatSession, for any number of turns, resets and calls   *)
(* of add_tools, any limit of tool rounds, any template and any encoding.  *)
(* Resets come at any time, also while tools run: the turn they overtake   *)
(* stands beside the argument until it returns.  Where it goes on instead  *)
(* (crossed), the properties promise nothing, and the argument ends.       *)
(*                                                                         *)
(* The argument has four layers: Exclusive (who may be under way in each   *)
(* state), Narrative (what the end of the history is at each place of a    *)
(* turn), Chronicle (what a turn has cloned and said, and who holds the    *)
(* session) and Synchronous (what the encoding and the model hold).        *)
(***************************************************************************)
EXTENDS ChatSession, SequenceTheorems, TLAPS

USE ChatAssumption DEF ChatAssumption, fixed, session, meeting, Goto

-----------------------------------------------------------------------------
(* Sequences.                                                               *)

\* A sequence that grows, one whose last element is replaced, one that loses it.
LEMMA SameFront ==
  ASSUME NEW S, NEW s \in Seq(S), NEW u \in Seq(S), NEW k \in Nat, k <= Len(s), k <= Len(u),
         \A i \in 1 .. k : s[i] = u[i]
  PROVE  SubSeq(s, 1, k) = SubSeq(u, 1, k)
<1>1. \A i \in 1 .. k : s[i] \in S /\ u[i] \in S
  BY ElementOfSeq
<1>2. /\ SubSeq(s, 1, k) \in Seq(S) /\ Len(SubSeq(s, 1, k)) = k
      /\ \A i \in 1 .. k : SubSeq(s, 1, k)[i] = s[i]
  BY <1>1, SubSeqProperties
<1>3. /\ SubSeq(u, 1, k) \in Seq(S) /\ Len(SubSeq(u, 1, k)) = k
      /\ \A i \in 1 .. k : SubSeq(u, 1, k)[i] = u[i]
  BY <1>1, SubSeqProperties
<1> QED
  BY <1>2, <1>3, SeqEqual

LEMMA NonEmpty ==
  ASSUME NEW S, NEW s \in Seq(S)
  PROVE  /\ Len(s) \in Nat /\ (s # <<>> <=> Len(s) > 0)
         /\ s # <<>> => Last(s) = s[Len(s)] /\ Last(s) \in S
  BY EmptySeq, LenProperties, ElementOfSeq DEF Last

LEMMA AppendFacts ==
  ASSUME NEW S, NEW s \in Seq(S), NEW m \in S
  PROVE  /\ Append(s, m) \in Seq(S) /\ Append(s, m) # <<>> /\ Len(Append(s, m)) = Len(s) + 1
         /\ Last(Append(s, m)) = m
         /\ \A j \in 1 .. Len(s) : Append(s, m)[j] = s[j]
         /\ IsPrefix(s, Append(s, m))
<1>1. /\ Append(s, m) \in Seq(S) /\ Append(s, m) # <<>> /\ Len(Append(s, m)) = Len(s) + 1
      /\ \A j \in 1 .. Len(s) : Append(s, m)[j] = s[j]
      /\ Append(s, m)[Len(s) + 1] = m /\ Len(s) \in Nat
  BY AppendProperties
<1>2. SubSeq(s, 1, Len(s)) = SubSeq(Append(s, m), 1, Len(s))
  BY <1>1, SameFront
<1> QED
  BY <1>1, <1>2 DEF Last, IsPrefix

LEMMA ReplaceFacts ==
  ASSUME NEW S, NEW s \in Seq(S), s # <<>>, NEW m \in S
  PROVE  /\ ReplaceAt(s, Len(s), m) \in Seq(S)
         /\ ReplaceAt(s, Len(s), m) # <<>>
         /\ Len(ReplaceAt(s, Len(s), m)) = Len(s)
         /\ Last(ReplaceAt(s, Len(s), m)) = m
         /\ \A j \in 1 .. Len(s) : j # Len(s) => ReplaceAt(s, Len(s), m)[j] = s[j]
         /\ Front(ReplaceAt(s, Len(s), m)) = Front(s)
<1> DEFINE u == ReplaceAt(s, Len(s), m)
<1>1. Len(s) \in Nat /\ Len(s) > 0
  BY NonEmpty
<1>2. /\ u \in Seq(S) /\ Len(u) = Len(s)
      /\ \A j \in 1 .. Len(s) : u[j] = IF j = Len(s) THEN m ELSE s[j]
  BY <1>1, ExceptSeq DEF ReplaceAt
<1> HIDE DEF u
<1>3. u # <<>> /\ Last(u) = u[Len(u)]
  BY <1>1, <1>2, NonEmpty
<1>4. \A j \in 1 .. Len(s) : j # Len(s) => u[j] = s[j]
  BY <1>2
<1>5. Front(u) = Front(s)
  <2> DEFINE k == Len(s) - 1
  <2>1. k \in Nat /\ k <= Len(s) /\ k <= Len(u)
    BY <1>1, <1>2
  <2>2. \A j \in 1 .. k : j \in 1 .. Len(s) /\ j # Len(s)
    BY <1>1
  <2>3. \A j \in 1 .. k : u[j] = s[j]
    BY <1>4, <2>2
  <2>4. SubSeq(u, 1, k) = SubSeq(s, 1, k)
    <3> HIDE DEF k
    <3> QED BY <1>2, <2>1, <2>3, SameFront
  <2> QED
    BY <1>2, <2>4 DEF Front
<1>6. u[Len(s)] = m
  BY <1>1, <1>2
<1> QED
  BY <1>2, <1>3, <1>4, <1>5, <1>6 DEF u

LEMMA FrontFacts ==
  ASSUME NEW S, NEW s \in Seq(S), s # <<>>
  PROVE  /\ Front(s) \in Seq(S) /\ Len(Front(s)) = Len(s) - 1
         /\ \A j \in 1 .. Len(s) - 1 : Front(s)[j] = s[j]
<1> DEFINE k == Len(s) - 1
<1>1. Len(s) \in Nat /\ k \in Nat /\ k < Len(s)
  BY NonEmpty
<1>2. \A j \in 1 .. k : s[j] \in S
  BY <1>1, ElementOfSeq
<1>3. /\ SubSeq(s, 1, k) \in Seq(S) /\ Len(SubSeq(s, 1, k)) = k
      /\ \A j \in 1 .. k : SubSeq(s, 1, k)[j] = s[j]
  <2> HIDE DEF k
  <2> QED BY <1>1, <1>2, SubSeqProperties
<1> QED
  BY <1>3 DEF Front

-----------------------------------------------------------------------------
(* Types.                                                                   *)

Replies == [size : 0 .. MaxReply, calls : BOOLEAN, stored : BOOLEAN,
            finish : {"none", "stop", "length", "tools", "cancelled"}]

LEMMA MessageTypes ==
  ASSUME NEW t \in Turn, NEW n \in 0 .. ToolTurnLimit, NEW size \in 0 .. MaxReply,
         NEW calls \in BOOLEAN
  PROVE  User(t) \in Messages /\ ToolResult(t, n) \in Messages
         /\ Assistant(t, n, size, calls) \in Messages
  BY DEF User, ToolResult, Assistant, Messages

LEMMA CloneTypes == NoClone \in [messages : Seq(Messages), declared : 0 .. 0] /\ NoReply \in Replies
  BY DEF NoClone, NoReply, Replies

LEMMA OutputTypes ==
  ASSUME TypeOK, NEW t \in Turn, NEW size \in 0 .. MaxReply, NEW calls \in BOOLEAN,
         NEW finish \in {"none", "stop", "length", "tools", "cancelled"},
         Output(t, size, calls, finish), UNCHANGED <<registry, snap, toolTurns, state>>
  PROVE  /\ messages' \in Seq(Messages)
         /\ reply' \in [Turn -> Replies]
         /\ pc' \in [Turn \cup Reset \cup Adder -> Labels]
         /\ instance' \in Turn \cup {NoOne}
<1>1. Assistant(t, toolTurns[t], size, calls) \in Messages
  BY MessageTypes DEF TypeOK
<1>2. messages' \in Seq(Messages)
  <2>1. CASE reply[t].stored /\ messages = <<>>
    BY <2>1 DEF Output
  <2>2. CASE reply[t].stored /\ messages # <<>>
    BY <1>1, <2>2, ReplaceFacts DEF Output, Stored, TypeOK
  <2>3. CASE ~reply[t].stored
    BY <1>1, <2>3, AppendFacts DEF Output, Stored, TypeOK
  <2> QED
    BY <2>1, <2>2, <2>3
<1>3. reply' \in [Turn -> Replies]
  BY DEF Output, TypeOK, Replies
<1> QED
  BY <1>2, <1>3 DEF Output, TypeOK, Labels

\* Every variable keeps its shape, and a turn its limit of tool rounds.
THEOREM TypeCorrect == Spec => []TypeOK
<1>1. Init => TypeOK
  <2> SUFFICES ASSUME Init PROVE TypeOK
    OBVIOUS
  <2>1. snap \in [Turn -> [messages : Seq(Messages), declared : 0 .. registry]]
    BY DEF Init, NoClone
  <2>2. reply \in [Turn -> Replies]
    BY CloneTypes DEF Init
  <2>3. pc \in [Turn \cup Reset \cup Adder -> Labels] /\ toolTurns \in [Turn -> 0 .. ToolTurnLimit]
    BY DEF Init, Labels
  <2>4. messages \in Seq(Messages) /\ declared \in 0 .. registry /\ registry \in Nat
    BY DEF Init
  <2>5. instance \in Turn \cup {NoOne} /\ cancelled \subseteq Turn /\ spoilt \in BOOLEAN
        /\ overtaken \subseteq Turn /\ crossed \in BOOLEAN
        /\ template \in Templates /\ orderly \in Orderly /\ state = "Idle"
    BY DEF Init
  <2> QED
    BY <2>1, <2>2, <2>3, <2>4, <2>5 DEF TypeOK, Replies
<1>2. TypeOK /\ [Next]_vars => TypeOK'
  <2> SUFFICES ASSUME TypeOK, [Next]_vars PROVE TypeOK'
    OBVIOUS
  <2> USE DEF Labels
  <2>1. ASSUME NEW t \in Turn, Begin(t) PROVE TypeOK'
    BY <2>1 DEF Begin, TypeOK
  <2>2. ASSUME NEW t \in Turn, ExtendMessages(t) PROVE TypeOK'
    <3>1. User(t) \in Messages /\ ToolResult(t, toolTurns[t]) \in Messages
      BY MessageTypes DEF TypeOK
    <3>2. messages' \in Seq(Messages)
      BY <2>2, <3>1 DEF ExtendMessages, TypeOK
    <3>3. snap' \in [Turn -> [messages : Seq(Messages), declared : 0 .. registry]]
      BY <2>2, <3>2 DEF ExtendMessages, TypeOK
    <3>4. reply' \in [Turn -> Replies]
      BY <2>2, CloneTypes DEF ExtendMessages, TypeOK, Replies
    <3> QED
      BY <2>2, <3>2, <3>3, <3>4 DEF ExtendMessages, TypeOK, Replies
  <2>3. ASSUME NEW t \in Turn, OpenStream(t) PROVE TypeOK'
    BY <2>3 DEF OpenStream, TypeOK
  <2>4. ASSUME NEW t \in Turn, RefuseHistory(t) \/ RefusePrompt(t) PROVE TypeOK'
    BY ZenonT(40), <2>4 DEF RefuseHistory, RefusePrompt, TypeOK
  <2>5. ASSUME NEW t \in Turn, Generate(t) PROVE TypeOK'
    <3>1. PICK calls \in BOOLEAN, finish \in {"none", "length"} :
            Output(t, reply[t].size + 1, calls, finish)
      BY <2>5 DEF Generate, TypeOK
    <3>2. reply[t].size + 1 \in 0 .. MaxReply
      BY <2>5 DEF Generate, TypeOK
    <3>3. UNCHANGED <<registry, snap, toolTurns, state>>
      BY <2>5 DEF Generate
    <3>4. /\ messages' \in Seq(Messages) /\ reply' \in [Turn -> Replies]
          /\ pc' \in [Turn \cup Reset \cup Adder -> Labels] /\ instance' \in Turn \cup {NoOne}
      BY ZenonT(40), <3>1, <3>2, <3>3, OutputTypes
    <3> QED
      BY <2>5, <3>4 DEF Generate, TypeOK, Replies
  <2>6. ASSUME NEW t \in Turn, Stop(t) PROVE TypeOK'
    <3>1. UNCHANGED <<registry, snap, toolTurns, state>>
          /\ reply[t].size \in 0 .. MaxReply /\ reply[t].calls \in BOOLEAN
      BY <2>6 DEF Stop, TypeOK
    <3>2. PICK finish \in {"stop", "tools"} : Output(t, reply[t].size, reply[t].calls, finish)
      BY <2>6, <3>1 DEF Stop
    <3>3. /\ messages' \in Seq(Messages) /\ reply' \in [Turn -> Replies]
          /\ pc' \in [Turn \cup Reset \cup Adder -> Labels] /\ instance' \in Turn \cup {NoOne}
      BY ZenonT(40), <3>1, <3>2, OutputTypes
    <3> QED
      BY <2>6, <3>3 DEF Stop, TypeOK, Replies
  <2>7. ASSUME NEW t \in Turn, FailDecode(t) PROVE TypeOK'
    BY <2>7 DEF FailDecode, TypeOK
  <2>8. ASSUME NEW t \in Turn, EndStream(t) PROVE TypeOK'
    <3>1. UNCHANGED <<registry, snap, toolTurns, state>>
          /\ reply[t].size \in 0 .. MaxReply /\ reply[t].calls \in BOOLEAN
      BY <2>8 DEF EndStream, TypeOK
    <3>2. PICK finish \in {"length", "cancelled"} : Output(t, reply[t].size, reply[t].calls, finish)
      BY <2>8 DEF EndStream
    <3>3. /\ messages' \in Seq(Messages) /\ reply' \in [Turn -> Replies]
          /\ pc' \in [Turn \cup Reset \cup Adder -> Labels] /\ instance' \in Turn \cup {NoOne}
      BY ZenonT(40), <3>1, <3>2, OutputTypes
    <3> QED
      BY <2>8, <3>3 DEF EndStream, TypeOK, Replies
  <2>9. ASSUME NEW t \in Turn, StartTools(t) \/ EndTurn(t) PROVE TypeOK'
    <3>1. CASE StartTools(t)
      <4>1. toolTurns' \in [Turn -> 0 .. ToolTurnLimit]
        BY <3>1 DEF StartTools, TypeOK
      <4>2. pc' \in [Turn \cup Reset \cup Adder -> Labels]
            /\ state' \in {"Idle", "Generation", "ToolCalling", "Resetting"}
        BY ZenonT(40), <3>1 DEF StartTools, TypeOK
      <4> QED
        BY <3>1, <4>1, <4>2 DEF StartTools, TypeOK
    <3>2. CASE EndTurn(t)
      BY <3>2 DEF EndTurn, TypeOK
    <3> QED
      BY <2>9, <3>1, <3>2
  <2>10. ASSUME NEW t \in Turn, FinishTools(t) \/ AbandonTools(t) PROVE TypeOK'
    BY ZenonT(40), <2>10 DEF FinishTools, AbandonTools, TypeOK
  <2>11. ASSUME NEW t \in Turn, TrimMessages(t) PROVE TypeOK'
    <3>1. messages # <<>> => Front(messages) \in Seq(Messages)
      BY FrontFacts DEF TypeOK
    <3>2. messages' \in Seq(Messages)
      BY <2>11, <3>1 DEF TrimMessages, TypeOK
    <3> QED
      BY <2>11, <3>2 DEF TrimMessages, TypeOK
  <2>12. ASSUME NEW t \in Turn, FinishTurn(t) PROVE TypeOK'
    <3>1. snap' \in [Turn -> [messages : Seq(Messages), declared : 0 .. registry]]
      BY <2>12 DEF FinishTurn, GoIdle, NoClone, TypeOK
    <3>2. reply' \in [Turn -> Replies]
      BY <2>12, CloneTypes DEF FinishTurn, TypeOK, Replies
    <3> QED
      BY SMTT(20), <2>12, <3>1, <3>2 DEF FinishTurn, GoIdle, TypeOK, Replies
  <2>13. ASSUME NEW t \in Turn, Cancel(t) PROVE TypeOK'
    BY <2>13 DEF Cancel, TypeOK
  <2>14. ASSUME NEW r \in Reset, ResetStep(r) PROVE TypeOK'
    <3>1. CASE BeginReset(r)
      BY <3>1 DEF BeginReset, TypeOK
    <3>2. CASE ResetSession(r, "clear")
      BY <3>2 DEF ResetSession, TypeOK
    <3>3. CASE ClearMessages(r)
      BY <3>3 DEF ClearMessages, TypeOK
    <3>4. CASE FinishReset(r)
      BY <3>4 DEF FinishReset, GoIdle, TypeOK
    <3> QED
      BY <2>14, <3>1, <3>2, <3>3, <3>4 DEF ResetStep
  <2>15. ASSUME NEW a \in Adder, AdderStep(a) PROVE TypeOK'
    <3>1. CASE AddTools(a)
      <4>1. 0 .. registry \subseteq 0 .. registry' /\ registry' \in Nat
        BY <3>1 DEF AddTools, TypeOK
      <4>2. snap' \in [Turn -> [messages : Seq(Messages), declared : 0 .. registry']]
        BY <3>1, <4>1 DEF AddTools, TypeOK
      <4> QED
        BY <3>1, <4>1, <4>2 DEF AddTools, TypeOK
    <3>2. CASE StripTools(a)
      BY <3>2 DEF StripTools, TypeOK
    <3>3. CASE ResetSession(a, "done")
      BY <3>3 DEF ResetSession, TypeOK
    <3> QED
      BY <2>15, <3>1, <3>2, <3>3 DEF AdderStep
  <2>16. CASE UNCHANGED vars
    BY <2>16 DEF vars, TypeOK
  <2> QED
    BY <2>1, <2>2, <2>3, <2>4, <2>5, <2>6, <2>7, <2>8, <2>9, <2>10, <2>11, <2>12, <2>13,
       <2>14, <2>15, <2>16 DEF Next, TurnStep
<1> QED
  BY <1>1, <1>2, PTL DEF Spec

-----------------------------------------------------------------------------
(* Who is under way in each state of the session.                           *)

TurnPlaces == {"new", "extend", "open", "stream", "decide", "tools", "end", "idle", "done"}

\* A call that is under way and has not lost the session to a reset.
Active(p) == Under(p) /\ p \notin overtaken

Exclusive ==
  /\ ~crossed
  /\ \A t \in overtaken : pc[t] \in {"tools", "done"}
  /\ \A t \in Turn : pc[t] \in TurnPlaces
  /\ \A r \in Reset : pc[r] \in {"new", "session", "clear", "idle", "done"}
  /\ \A t \in Turn \ overtaken :
       /\ pc[t] \in {"extend", "open", "stream", "decide"} => state = "Generation"
       /\ pc[t] = "tools" => state = "ToolCalling"
       /\ pc[t] \in {"end", "idle"} => state \in {"Generation", "ToolCalling"}
  /\ \A r \in Reset : Under(r) => state = "Resetting"
  /\ \A p, q \in Turn \cup Reset : Active(p) /\ Active(q) => p = q
  /\ state # "Idle" => \E p \in Turn \cup Reset : Active(p)
  /\ state \in {"Idle", "Generation", "ToolCalling", "Resetting"}

\* Beside a call that has the session, others are new, done or overtaken.
LEMMA Alone ==
  ASSUME TypeOK, Exclusive, NEW p \in Turn \cup Reset, Active(p), NEW u \in Turn \cup Reset, u # p
  PROVE  pc[u] \in {"new", "done"} \/ (u \in overtaken /\ pc[u] = "tools")
  BY DEF Exclusive, Under, Active

\* A turn that is under way elsewhere than at its tools has the session.
LEMMA HasSession ==
  ASSUME Exclusive, NEW t \in Turn, pc[t] \notin {"new", "tools", "done"}
  PROVE  Active(t) /\ t \notin overtaken
  BY DEF Exclusive, Under, Active

\* An overtaken turn does nothing but return.
LEMMA Overtaken ==
  ASSUME TypeOK, Exclusive, NEW t \in overtaken, TurnStep(t), ~crossed'
  PROVE  /\ FinishTools(t) /\ pc[t] = "tools" /\ pc' = [pc EXCEPT ![t] = "done"]
         /\ UNCHANGED <<state, messages, snap, reply, toolTurns, instance, overtaken>>
<1>1. t \in Turn /\ pc[t] \in {"tools", "done"}
  BY DEF Exclusive, TypeOK
<1>2. FinishTools(t) \/ AbandonTools(t)
  BY <1>1 DEF TurnStep, Begin, ExtendMessages, OpenStream, RefuseHistory, RefusePrompt, Generate,
              Stop, FailDecode, EndStream, StartTools, EndTurn, TrimMessages, FinishTurn, GoIdle
<1> QED
  BY <1>2 DEF FinishTools, AbandonTools

\* A turn that has the session moves on from a place where it is under way, and
\* stays under way.
LEMMA TurnMoves ==
  ASSUME Exclusive, TypeOK, NEW t \in Turn, Active(t), UNCHANGED overtaken, ~crossed',
         NEW to \in TurnPlaces \ {"new", "done"}, Goto(t, to), state' \in {"Generation", "ToolCalling"},
         to \in {"extend", "open", "stream", "decide"} => state' = "Generation",
         to = "tools" => state' = "ToolCalling"
  PROVE  Exclusive'
<1>1. \A p \in Turn \cup Reset : p # t => pc'[p] = pc[p]
                                   /\ (pc[p] \in {"new", "done"} \/ (p \in overtaken /\ pc[p] = "tools"))
  BY Alone DEF TypeOK
<1>2. pc'[t] = to /\ t \in Turn \cup Reset /\ t \notin Reset /\ t \notin overtaken
  BY DEF TypeOK, Active
<1>3. overtaken \subseteq Turn
  BY DEF TypeOK
<1> QED
  BY <1>1, <1>2, <1>3 DEF Exclusive, Under, Active, TurnPlaces

LEMMA ExclusiveStep ==
  ASSUME TypeOK, Exclusive, [Next]_vars, ~crossed' PROVE Exclusive'
<1>0. overtaken \subseteq Turn /\ ~crossed'
  BY DEF TypeOK
<1>1. ASSUME NEW t \in Turn, Begin(t) PROVE Exclusive'
  <2>1. /\ \A p \in Turn \cup Reset \cup Adder : p # t => pc'[p] = pc[p]
        /\ UNCHANGED overtaken /\ t \notin overtaken
    BY <1>1 DEF Begin, TypeOK, Exclusive
  <2>2. CASE state = "Idle"
    <3>1. \A p \in Turn \cup Reset : ~Active(p)
      BY <2>2 DEF Exclusive, Active, Under, TurnPlaces
    <3>2. pc'[t] = "extend" /\ state' = "Generation" /\ t \notin Reset /\ t \in Turn \cup Reset
      BY <1>1, <2>2 DEF Begin, TypeOK, CanMove
    <3>3. \A p \in Turn \cup Reset : p # t => ~Active(p)' /\ (p \in Reset => ~Under(p)')
      BY <1>0, <2>1, <3>1 DEF Active, Under
    <3>4. Active(t)'
      BY <2>1, <3>2 DEF Active, Under
    <3> QED
      BY <1>0, <2>1, <3>1, <3>2, <3>3, <3>4 DEF Exclusive, TurnPlaces, Active, Under
  <2>3. CASE state # "Idle"
    <3>1. pc'[t] = "done" /\ pc[t] = "new" /\ state' = state /\ t \notin Reset /\ t \in Turn \cup Reset
      BY <1>1, <2>3 DEF Begin, TypeOK, CanMove
    <3> QED
      BY <1>0, <2>1, <2>3, <3>1 DEF Exclusive, Under, Active, TurnPlaces
  <2> QED
    BY <2>2, <2>3
<1>2. ASSUME NEW t \in Turn, ExtendMessages(t) PROVE Exclusive'
  <2>1. pc[t] = "extend" /\ state' = state /\ UNCHANGED overtaken /\ Goto(t, "open")
    BY <1>2 DEF ExtendMessages
  <2>2. Active(t) /\ state' = "Generation"
    BY <2>1, HasSession DEF Exclusive
  <2> QED
    BY <1>0, <2>1, <2>2, TurnMoves DEF TurnPlaces
<1>3. ASSUME NEW t \in Turn, OpenStream(t) \/ RefuseHistory(t) \/ RefusePrompt(t) PROVE Exclusive'
  <2>1. /\ state' = state /\ pc[t] = "open" /\ (Goto(t, "stream") \/ Goto(t, "end"))
        /\ UNCHANGED overtaken
    BY <1>3 DEF OpenStream, RefuseHistory, RefusePrompt
  <2>2. Active(t) /\ state' = "Generation"
    BY <2>1, HasSession DEF Exclusive
  <2> QED
    BY <1>0, <2>1, <2>2, TurnMoves DEF TurnPlaces
<1>4. ASSUME NEW t \in Turn, Generate(t) \/ Stop(t) \/ FailDecode(t) \/ EndStream(t)
      PROVE  Exclusive'
  <2>1. /\ state' = state /\ pc[t] = "stream" /\ UNCHANGED overtaken
        /\ Goto(t, "stream") \/ Goto(t, "decide") \/ Goto(t, "end")
    BY <1>4 DEF Generate, Stop, FailDecode, EndStream, Output
  <2>2. Active(t) /\ state' = "Generation"
    BY <2>1, HasSession DEF Exclusive
  <2> QED
    BY <1>0, <2>1, <2>2, TurnMoves DEF TurnPlaces
<1>5. ASSUME NEW t \in Turn, StartTools(t) \/ EndTurn(t) PROVE Exclusive'
  <2>1. pc[t] = "decide" /\ UNCHANGED overtaken
    BY <1>5 DEF StartTools, EndTurn
  <2>2. Active(t) /\ state = "Generation"
    BY <2>1, HasSession DEF Exclusive
  <2>3. \/ Goto(t, "tools") /\ state' = "ToolCalling"
        \/ Goto(t, "end") /\ state' = state
    BY <1>5, <2>2 DEF StartTools, EndTurn, CanMove
  <2> QED
    BY <1>0, <2>1, <2>2, <2>3, TurnMoves DEF TurnPlaces
<1>6. ASSUME NEW t \in Turn, FinishTools(t) \/ AbandonTools(t) PROVE Exclusive'
  <2>1. CASE t \notin overtaken
    <3>1. pc[t] = "tools" /\ UNCHANGED overtaken /\ state = "ToolCalling" /\ Active(t)
      BY <1>6, <2>1 DEF FinishTools, AbandonTools, Exclusive, Active, Under
    <3>2. \/ (Goto(t, "end") \/ Goto(t, "extend")) /\ state' = "Generation"
          \/ Goto(t, "end") /\ state' = state
      BY <1>6, <3>1 DEF FinishTools, AbandonTools, CanMove
    <3> QED
      BY <1>0, <3>1, <3>2, TurnMoves DEF TurnPlaces
  <2>2. CASE t \in overtaken
    <3>1. pc' = [pc EXCEPT ![t] = "done"] /\ UNCHANGED <<state, overtaken>>
      BY <1>0, <1>6, <2>2, Overtaken DEF TurnStep
    <3>2. pc'[t] = "done" /\ t \notin Reset /\ \A p \in Turn \cup Reset : p # t => pc'[p] = pc[p]
      BY <3>1 DEF TypeOK
    <3>3. \A p \in Turn \cup Reset : Active(p)' <=> Active(p)
      BY <2>2, <3>1, <3>2 DEF Active, Under
    <3> QED
      BY <1>0, <2>2, <3>1, <3>2, <3>3 DEF Exclusive, TurnPlaces, Under
  <2> QED
    BY <2>1, <2>2
<1>7. ASSUME NEW t \in Turn, TrimMessages(t) PROVE Exclusive'
  <2>1. pc[t] = "end" /\ state' = state /\ UNCHANGED overtaken /\ Goto(t, "idle")
    BY <1>7 DEF TrimMessages
  <2>2. Active(t) /\ state' \in {"Generation", "ToolCalling"}
    BY <2>1, HasSession DEF Exclusive
  <2> QED
    BY <1>0, <2>1, <2>2, TurnMoves DEF TurnPlaces
<1>8. ASSUME NEW p \in Turn \cup Reset, GoIdle(p) PROVE Exclusive'
  <2>1. Active(p)
    BY <1>0, <1>8 DEF GoIdle, Exclusive, Under, Active
  <2>2. pc'[p] = "done" /\ state' = "Idle" /\ UNCHANGED overtaken
    BY <1>8 DEF GoIdle, TypeOK
  <2>3. \A q \in Turn \cup Reset : q # p => pc'[q] = pc[q]
                                     /\ (pc[q] \in {"new", "done"} \/ (q \in overtaken /\ pc[q] = "tools"))
    BY <1>8, <2>1, Alone DEF GoIdle, TypeOK
  <2>4. \A q \in Turn \cup Reset : ~Active(q)'
    BY <2>2, <2>3 DEF Active, Under
  <2> QED
    BY <1>0, <2>2, <2>3, <2>4 DEF Exclusive, TurnPlaces, Under
<1>9. ASSUME NEW t \in Turn, Cancel(t) PROVE Exclusive'
  <2>1. UNCHANGED <<pc, state, overtaken>>
    BY <1>9 DEF Cancel
  <2> QED
    BY <1>0, <2>1 DEF Exclusive, Under, Active
<1>10. ASSUME NEW r \in Reset, BeginReset(r) PROVE Exclusive'
  <2>1. /\ \A p \in Turn \cup Reset \cup Adder : p # r => pc'[p] = pc[p]
        /\ pc[r] = "new" /\ r \notin Turn /\ r \in Turn \cup Reset
    BY <1>10 DEF BeginReset, TypeOK
  <2>2. CASE state \in {"Idle", "ToolCalling"}
    <3>1. /\ pc'[r] = "session" /\ state' = "Resetting"
          /\ overtaken' = overtaken \cup {t \in Turn : pc[t] = "tools"}
          /\ ~\E t \in Turn : pc[t] \in {"end", "idle"}
      BY <1>0, <1>10, <2>2 DEF BeginReset, TypeOK
    <3>2. ASSUME NEW p \in Turn \cup Reset, Under(p) PROVE p \in overtaken'
      <4>1. CASE p \in overtaken
        BY <3>1, <4>1
      <4>2. CASE p \notin overtaken
        <5>1. p \in Turn /\ pc[p] = "tools"
          BY <2>2, <3>1, <3>2, <4>2 DEF Exclusive, Under, TurnPlaces
        <5> QED
          BY <3>1, <5>1
      <4> QED
        BY <4>1, <4>2
    <3>3. \A p \in Turn \cup Reset : p # r => ~Active(p)' /\ (p \in Reset => ~Under(p)')
      BY <1>0, <2>1, <3>1, <3>2 DEF Active, Under
    <3>4. Active(r)' /\ overtaken' \subseteq Turn
      BY <1>0, <2>1, <3>1 DEF Active, Under
    <3>5. \A t \in overtaken' : pc'[t] \in {"tools", "done"}
      BY <1>0, <2>1, <3>1 DEF Exclusive
    <3>6. \A t \in Turn \ overtaken' : pc'[t] \in {"new", "done"}
      BY <2>1, <3>3 DEF Active, Under
    <3> QED
      BY <1>0, <2>1, <3>1, <3>3, <3>4, <3>5, <3>6 DEF Exclusive, TurnPlaces
  <2>3. CASE state \notin {"Idle", "ToolCalling"}
    <3>1. pc'[r] = "done" /\ UNCHANGED <<state, overtaken>>
      BY <1>10, <2>3 DEF BeginReset, TypeOK
    <3>2. \A p \in Turn \cup Reset : (Active(p)' <=> Active(p)) /\ (Under(p)' <=> Under(p))
      BY <2>1, <3>1 DEF Active, Under
    <3> QED
      BY <1>0, <2>1, <3>1, <3>2 DEF Exclusive, TurnPlaces
  <2> QED
    BY <2>2, <2>3
<1>11. ASSUME NEW r \in Reset, ResetSession(r, "clear") \/ ClearMessages(r) PROVE Exclusive'
  <2>1. /\ \A p \in Turn \cup Reset : p # r => pc'[p] = pc[p]
        /\ pc[r] \in {"session", "clear"} /\ pc'[r] \in {"clear", "idle"} /\ r \notin Turn
        /\ UNCHANGED <<state, overtaken>>
    BY <1>11 DEF ResetSession, ClearMessages, TypeOK
  <2>2. \A p \in Turn \cup Reset : (Active(p)' <=> Active(p)) /\ (Under(p)' <=> Under(p))
    BY <2>1 DEF Active, Under
  <2> QED
    BY <1>0, <2>1, <2>2 DEF Exclusive, TurnPlaces
<1>12. ASSUME NEW a \in Adder, AdderStep(a) PROVE Exclusive'
  <2>1. UNCHANGED <<state, overtaken>> /\ \A p \in Turn \cup Reset : pc'[p] = pc[p]
    BY <1>12 DEF AdderStep, AddTools, StripTools, ResetSession, TypeOK
  <2> QED
    BY <1>0, <2>1 DEF Exclusive, Under, Active
<1>13. CASE UNCHANGED vars
  <2>1. UNCHANGED <<state, overtaken, pc>>
    BY <1>13 DEF vars
  <2> QED
    BY <1>0, <2>1 DEF Exclusive, Under, Active
<1> QED
  BY <1>1, <1>2, <1>3, <1>4, <1>5, <1>6, <1>7, <1>8, <1>9, <1>10, <1>11, <1>12, <1>13
     DEF Next, TurnStep, FinishTurn, ResetStep, FinishReset

LEMMA ExclusiveStart == ASSUME Init PROVE Exclusive
  BY DEF Init, Exclusive, Under, Active, TurnPlaces

\* What has been broken stays so.
LEMMA CrossedStays == ASSUME [Next]_vars, crossed, TypeOK PROVE crossed'
  BY DEF Next, vars, TurnStep, Begin, ExtendMessages, OpenStream, RefuseHistory, RefusePrompt,
         Generate, Stop, FailDecode, EndStream, StartTools, EndTurn, FinishTools, AbandonTools,
         TrimMessages, FinishTurn, GoIdle, Cancel, ResetStep, BeginReset, ResetSession,
         ClearMessages, FinishReset, AdderStep, AddTools, StripTools

\* The step at which a turn goes on touches no message.
LEMMA CrossingIsQuiet == ASSUME [Next]_vars, ~crossed, crossed' PROVE UNCHANGED messages
  BY DEF Next, vars, TurnStep, Begin, ExtendMessages, OpenStream, RefuseHistory, RefusePrompt,
         Generate, Stop, FailDecode, EndStream, StartTools, EndTurn, FinishTools, AbandonTools,
         TrimMessages, FinishTurn, GoIdle, Cancel, ResetStep, BeginReset, ResetSession,
         ClearMessages, FinishReset, AdderStep, AddTools, StripTools

\* The state of the session is the state of the one turn or reset that has it,
\* through every reset, until a turn that a reset overtook goes on.
THEOREM OneTurnAlways == Spec => []OneTurn
<1> DEFINE IInv == crossed \/ Exclusive
<1>1. Init => IInv
  BY ExclusiveStart
<1>2. TypeOK /\ IInv /\ [Next]_vars => IInv'
  BY ExclusiveStep, CrossedStays
<1>3. TypeOK /\ IInv => OneTurn
  <2> SUFFICES ASSUME TypeOK, Exclusive PROVE OneTurn
    BY DEF OneTurn
  <2>1. \A p \in Turn \cup Reset : Under(p) /\ p \notin overtaken <=> Active(p)
    BY DEF Active
  <2> QED
    BY <2>1 DEF OneTurn, Exclusive, Under, TurnPlaces, TypeOK
<1> QED
  BY <1>1, <1>2, <1>3, TypeCorrect, PTL DEF Spec

-----------------------------------------------------------------------------
(* The end of the history at each place of a turn.                          *)

\* ToolResultsAnswer, and what HistoryIsKept allows a step.
Answers ==
  \A i \in 1 .. Len(messages) : messages[i].role = "tool" =>
    /\ i > 1
    /\ LET call == messages[i - 1]
       IN  call.calls /\ call.by = messages[i].by /\ call.round + 1 = messages[i].round

KeepsHistory ==
  \/ IsPrefix(messages, messages')
  \/ /\ messages # <<>> /\ Len(messages') = Len(messages) /\ Front(messages') = Front(messages)
     /\ LET old == Last(messages)
            new == Last(messages')
        IN  /\ old.role = "assistant" /\ new.role = "assistant"
            /\ new.by = old.by /\ new.round = old.round /\ new.size >= old.size
  \/ /\ messages # <<>> /\ messages' = Front(messages)
     /\ Unresolved(Last(messages)) /\ Last(messages).by \in cancelled
  \/ messages' = <<>> /\ state = "Resetting"

\* Of a turn that has the session.
NarrativeOf(t) ==
  /\ pc[t] = "new" => toolTurns[t] = 0
  /\ pc[t] \in {"open", "stream", "decide", "tools", "end"} =>
       messages # <<>> /\ Last(messages).by = t
  /\ pc[t] = "open" => reply[t] = NoReply
  /\ pc[t] \in {"stream", "decide"} /\ reply[t].stored =>
       /\ messages # <<>>
       /\ Last(messages) = Assistant(t, toolTurns[t], reply[t].size, reply[t].calls)
  /\ pc[t] = "decide" => reply[t].stored /\ (reply[t].finish = "tools" => reply[t].calls)
  /\ pc[t] = "tools" \/ (pc[t] = "extend" /\ toolTurns[t] > 0) =>
       /\ messages # <<>> /\ Last(messages).role = "assistant" /\ Last(messages).by = t
       /\ Last(messages).calls /\ Last(messages).round + 1 = toolTurns[t]

Narrative == (\A t \in Turn \ overtaken : NarrativeOf(t)) /\ Answers

\* The three ways a message joins, grows or leaves.
LEMMA Pushed ==
  ASSUME TypeOK, Answers, NEW m \in Messages, messages' = Append(messages, m),
         m.role = "tool" => /\ messages # <<>> /\ Last(messages).calls
                            /\ Last(messages).by = m.by /\ Last(messages).round + 1 = m.round
  PROVE  messages' # <<>> /\ Last(messages') = m /\ Answers' /\ KeepsHistory
<1>1. messages \in Seq(Messages)
  BY DEF TypeOK
<1>2. /\ Len(messages) \in Nat /\ messages' # <<>> /\ Len(messages') = Len(messages) + 1
      /\ Last(messages') = m /\ messages'[Len(messages) + 1] = m
      /\ \A j \in 1 .. Len(messages) : messages'[j] = messages[j]
      /\ IsPrefix(messages, messages')
  BY <1>1, AppendFacts, AppendProperties
<1>3. ASSUME NEW i \in 1 .. Len(messages'), messages'[i].role = "tool"
      PROVE  i > 1 /\ LET call == messages'[i - 1]
                      IN  call.calls /\ call.by = messages'[i].by /\ call.round + 1 = messages'[i].round
  <2>1. CASE i <= Len(messages)
    BY <1>2, <1>3, <2>1 DEF Answers
  <2>2. CASE i = Len(messages) + 1
    <3>1. Len(messages) >= 1
      BY <1>1, <1>2, <1>3, <2>2, NonEmpty
    <3> QED
      BY <1>2, <1>3, <2>2, <3>1 DEF Last
  <2> QED
    BY <1>2, <2>1, <2>2
<1> QED
  BY <1>2, <1>3 DEF Answers, KeepsHistory

LEMMA Overwritten ==
  ASSUME TypeOK, Answers, NEW m \in Messages, messages # <<>>,
         messages' = ReplaceAt(messages, Len(messages), m),
         m.role = "assistant", Last(messages).role = "assistant", m.by = Last(messages).by,
         m.round = Last(messages).round, m.size >= Last(messages).size
  PROVE  messages' # <<>> /\ Last(messages') = m /\ Answers' /\ KeepsHistory
<1>1. messages \in Seq(Messages)
  BY DEF TypeOK
<1>2. /\ messages' # <<>> /\ Len(messages') = Len(messages)
      /\ Last(messages') = m /\ Front(messages') = Front(messages)
      /\ \A j \in 1 .. Len(messages) : j # Len(messages) => messages'[j] = messages[j]
  <2>1. messages' # <<>> /\ Len(messages') = Len(messages)
    BY <1>1, ReplaceFacts
  <2>2. Last(messages') = m
    BY <1>1, ReplaceFacts
  <2>3. Front(messages') = Front(messages)
    BY <1>1, ReplaceFacts
  <2>4. \A j \in 1 .. Len(messages) : j # Len(messages) => messages'[j] = messages[j]
    <3> TAKE j \in 1 .. Len(messages)
    <3> QED BY <1>1 DEF ReplaceAt
  <2> QED
    BY <2>1, <2>2, <2>3, <2>4
<1>3. Len(messages) \in Nat /\ messages'[Len(messages)] = m
  BY <1>1, <1>2, NonEmpty DEF Last
<1>4. ASSUME NEW i \in 1 .. Len(messages'), messages'[i].role = "tool"
      PROVE  i > 1 /\ LET call == messages'[i - 1]
                      IN  call.calls /\ call.by = messages'[i].by /\ call.round + 1 = messages'[i].round
  <2>1. i # Len(messages)
    BY <1>3, <1>4
  <2>2. i \in 1 .. Len(messages) /\ messages'[i] = messages[i]
    BY <1>2, <2>1
  <2>3. i > 1 => i - 1 \in 1 .. Len(messages) /\ i - 1 # Len(messages)
    BY <1>3, <2>2
  <2> QED
    BY <1>2, <1>4, <2>2, <2>3 DEF Answers
<1> QED
  BY <1>2, <1>4 DEF Answers, KeepsHistory

LEMMA Popped ==
  ASSUME TypeOK, Answers, messages # <<>>, messages' = Front(messages),
         Unresolved(Last(messages)), Last(messages).by \in cancelled
  PROVE  Answers' /\ KeepsHistory
<1>1. messages \in Seq(Messages)
  BY DEF TypeOK
<1>2. /\ Len(messages) \in Nat /\ Len(messages') = Len(messages) - 1
      /\ \A j \in 1 .. Len(messages) - 1 : messages'[j] = messages[j]
  BY <1>1, FrontFacts, NonEmpty
<1>3. Answers'
  BY <1>2 DEF Answers
<1> QED
  BY <1>3 DEF KeepsHistory

LEMMA NarrativeByOne ==
  ASSUME TypeOK, Exclusive, Narrative, NEW t \in Turn, Active(t), UNCHANGED overtaken,
         \A u \in Turn : u # t => pc'[u] = pc[u] /\ toolTurns'[u] = toolTurns[u],
         NarrativeOf(t)', Answers'
  PROVE  Narrative'
<1>1. ASSUME NEW u \in Turn \ overtaken, u # t PROVE NarrativeOf(u)'
  <2>1. pc'[u] \in {"new", "done"} /\ toolTurns'[u] = toolTurns[u] /\ pc'[u] = pc[u]
    BY <1>1, Alone
  <2>2. pc[u] = "new" => toolTurns[u] = 0
    BY DEF Narrative, NarrativeOf
  <2> QED
    BY <2>1, <2>2 DEF NarrativeOf
<1> QED
  BY <1>1 DEF Narrative

LEMMA NarrativeStays ==
  ASSUME Narrative, UNCHANGED <<messages, reply, toolTurns>>, overtaken \subseteq overtaken',
         \A t \in Turn \ overtaken' : pc'[t] = pc[t]
  PROVE  Narrative'
<1>1. \A t \in Turn \ overtaken' : NarrativeOf(t)'
  BY DEF Narrative, NarrativeOf
<1>2. Answers'
  BY DEF Narrative, Answers
<1> QED
  BY <1>1, <1>2 DEF Narrative

LEMMA NarrativeOfOutput ==
  ASSUME TypeOK, Exclusive, Narrative, NEW t \in Turn, pc[t] = "stream",
         NEW size \in 0 .. MaxReply, size >= reply[t].size, NEW calls \in BOOLEAN, NEW finish,
         finish = "tools" => calls,
         Output(t, size, calls, finish), UNCHANGED <<toolTurns, overtaken>>
  PROVE  Narrative' /\ KeepsHistory
<1> DEFINE m == Assistant(t, toolTurns[t], size, calls)
<1>1. m \in Messages /\ m.role = "assistant" /\ m.by = t /\ m.round = toolTurns[t] /\ m.size = size
  BY MessageTypes DEF TypeOK, Assistant
<1>2. messages' # <<>> /\ Last(messages') = m /\ Answers' /\ KeepsHistory
  <2>1. CASE reply[t].stored
    <3>1. messages # <<>> /\ Last(messages) = Assistant(t, toolTurns[t], reply[t].size, reply[t].calls)
      BY <2>1, HasSession DEF Narrative, NarrativeOf
    <3>2. /\ Last(messages).role = "assistant" /\ m.by = Last(messages).by
          /\ m.round = Last(messages).round /\ m.size >= Last(messages).size
      BY <1>1, <3>1 DEF Assistant
    <3>3. messages' = ReplaceAt(messages, Len(messages), m)
      BY <2>1, <3>1 DEF Output, Stored
    <3>4. Answers
      BY DEF Narrative
    <3> HIDE DEF m
    <3> QED
      BY <1>1, <3>1, <3>2, <3>3, <3>4, Overwritten
  <2>2. CASE ~reply[t].stored
    <3>1. messages' = Append(messages, m)
      BY <2>2 DEF Output, Stored
    <3>2. Answers /\ m.role # "tool"
      BY <1>1 DEF Narrative
    <3> HIDE DEF m
    <3> QED
      BY <1>1, <3>1, <3>2, Pushed
  <2> QED
    BY <2>1, <2>2
<1>3. /\ reply'[t] = [size |-> size, calls |-> calls, stored |-> TRUE, finish |-> finish]
      /\ \A u \in Turn : u # t => pc'[u] = pc[u]
      /\ pc'[t] \in {"stream", "decide", "end"}
  BY DEF Output, TypeOK
<1>4. NarrativeOf(t)'
  BY <1>1, <1>2, <1>3 DEF NarrativeOf
<1>5. Active(t)
  BY HasSession
<1> QED
  BY <1>2, <1>3, <1>4, <1>5, NarrativeByOne

LEMMA NarrativeStep ==
  ASSUME TypeOK, Exclusive, Narrative, [Next]_vars, ~crossed'
  PROVE  Narrative' /\ (messages' = messages \/ KeepsHistory)
<1>0. Answers /\ \A t \in Turn \ overtaken : NarrativeOf(t)
  BY DEF Narrative
<1>1. ASSUME NEW t \in Turn, Begin(t) PROVE Narrative' /\ messages' = messages
  <2>1. /\ UNCHANGED <<messages, reply, toolTurns, overtaken>> /\ \A u \in Turn : u # t => pc'[u] = pc[u]
        /\ t \notin overtaken
    BY <1>1 DEF Begin, TypeOK, Exclusive
  <2>2. pc[t] = "new" /\ pc'[t] \in {"extend", "done"} /\ toolTurns[t] = 0
    BY <1>0, <1>1, <2>1 DEF Begin, TypeOK, NarrativeOf
  <2>3. \A u \in Turn \ overtaken' : NarrativeOf(u)'
    BY <1>0, <2>1, <2>2 DEF NarrativeOf
  <2>4. Answers'
    BY <1>0, <2>1 DEF Answers
  <2> QED
    BY <2>1, <2>3, <2>4 DEF Narrative
<1>2. ASSUME NEW t \in Turn, ExtendMessages(t) PROVE Narrative' /\ KeepsHistory
  <2> DEFINE m == IF toolTurns[t] = 0 THEN User(t) ELSE ToolResult(t, toolTurns[t])
  <2>1. /\ pc[t] = "extend" /\ messages' = Append(messages, m) /\ pc'[t] = "open"
        /\ reply'[t] = NoReply /\ UNCHANGED <<toolTurns, overtaken>> /\ toolTurns[t] \in Nat
        /\ \A u \in Turn : u # t => pc'[u] = pc[u]
    BY <1>2 DEF ExtendMessages, TypeOK
  <2>0. Active(t) /\ t \notin overtaken
    BY <2>1, HasSession
  <2>2. m \in Messages /\ m.by = t
    BY MessageTypes DEF TypeOK, User, ToolResult
  <2>3. m.role = "tool" => /\ messages # <<>> /\ Last(messages).calls
                           /\ Last(messages).by = m.by /\ Last(messages).round + 1 = m.round
    BY <1>0, <2>0, <2>1, <2>2 DEF NarrativeOf, User, ToolResult
  <2>4. messages' # <<>> /\ Last(messages') = m /\ Answers' /\ KeepsHistory
    <3> HIDE DEF m
    <3> QED BY <1>0, <2>1, <2>2, <2>3, Pushed
  <2>5. NarrativeOf(t)'
    <3> HIDE DEF m
    <3> QED BY <2>1, <2>2, <2>4 DEF NarrativeOf
  <2> QED
    BY <2>0, <2>1, <2>4, <2>5, NarrativeByOne
<1>3. ASSUME NEW t \in Turn, OpenStream(t) \/ RefuseHistory(t) \/ RefusePrompt(t) \/ FailDecode(t)
      PROVE  Narrative' /\ messages' = messages
  <2>1. /\ UNCHANGED <<messages, reply, toolTurns, overtaken>> /\ pc'[t] \in {"stream", "end"}
        /\ pc[t] \in {"open", "stream"} /\ (pc'[t] = "stream" => pc[t] = "open")
        /\ \A u \in Turn : u # t => pc'[u] = pc[u]
    BY <1>3 DEF OpenStream, RefuseHistory, RefusePrompt, FailDecode, TypeOK
  <2>0. Active(t) /\ t \notin overtaken
    BY <2>1, HasSession
  <2>2. NarrativeOf(t)' /\ Active(t)
    BY <1>0, <2>0, <2>1 DEF NarrativeOf, NoReply
  <2>3. Answers'
    BY <1>0, <2>1 DEF Answers
  <2> QED
    BY <2>1, <2>2, <2>3, NarrativeByOne
<1>4. ASSUME NEW t \in Turn, Generate(t) PROVE Narrative' /\ KeepsHistory
  <2>1. PICK calls \in BOOLEAN, finish \in {"none", "length"} :
          Output(t, reply[t].size + 1, calls, finish)
    BY <1>4 DEF Generate, TypeOK
  <2>2. /\ reply[t].size + 1 \in 0 .. MaxReply /\ reply[t].size + 1 >= reply[t].size
        /\ pc[t] = "stream" /\ UNCHANGED <<toolTurns, overtaken>>
    BY <1>4 DEF Generate, TypeOK
  <2> QED
    BY <2>1, <2>2, NarrativeOfOutput
<1>5. ASSUME NEW t \in Turn, Stop(t) \/ EndStream(t) PROVE Narrative' /\ KeepsHistory
  <2>1. PICK finish \in {"stop", "length", "tools", "cancelled"} :
          Output(t, reply[t].size, reply[t].calls, finish) /\ (finish = "tools" => reply[t].calls)
    BY <1>5 DEF Stop, EndStream
  <2>2. /\ reply[t].size \in 0 .. MaxReply /\ reply[t].size >= reply[t].size
        /\ reply[t].calls \in BOOLEAN /\ pc[t] = "stream" /\ UNCHANGED <<toolTurns, overtaken>>
    <3>1. pc[t] = "stream" /\ UNCHANGED <<toolTurns, overtaken>>
      BY <1>5 DEF Stop, EndStream
    <3>2. reply[t].size \in 0 .. MaxReply /\ reply[t].calls \in BOOLEAN
      BY DEF TypeOK
    <3> QED
      BY <3>1, <3>2
  <2> QED
    BY <2>1, <2>2, NarrativeOfOutput
<1>6. ASSUME NEW t \in Turn, StartTools(t) PROVE Narrative' /\ messages' = messages
  <2>0. pc[t] = "decide" /\ Active(t) /\ t \notin overtaken /\ state = "Generation"
    BY <1>6, HasSession DEF StartTools, Exclusive
  <2>1. /\ pc[t] = "decide" /\ reply[t].finish = "tools" /\ UNCHANGED <<messages, overtaken>>
        /\ pc'[t] = "tools" /\ toolTurns'[t] = toolTurns[t] + 1 /\ toolTurns[t] \in Nat
        /\ \A u \in Turn : u # t => pc'[u] = pc[u] /\ toolTurns'[u] = toolTurns[u]
    BY <1>6, <2>0 DEF StartTools, TypeOK, CanMove
  <2>2. messages # <<>> /\ Last(messages) = Assistant(t, toolTurns[t], reply[t].size, TRUE)
    <3>1. NarrativeOf(t)
      BY <1>0, <2>0
    <3>2. reply[t].stored /\ reply[t].calls
      BY <2>1, <3>1 DEF NarrativeOf
    <3>3. reply[t].calls = TRUE
      BY <3>2 DEF TypeOK
    <3> QED
      BY <2>1, <3>1, <3>2, <3>3 DEF NarrativeOf
  <2>3. NarrativeOf(t)' /\ Active(t)
    BY <2>0, <2>1, <2>2 DEF NarrativeOf, Assistant
  <2>4. Answers'
    BY <1>0, <2>1 DEF Answers
  <2> QED
    BY <2>1, <2>3, <2>4, NarrativeByOne
<1>7. ASSUME NEW t \in Turn, EndTurn(t) \/ FinishTools(t) \/ AbandonTools(t)
      PROVE  Narrative' /\ messages' = messages
  <2>1. CASE t \notin overtaken
    <3>1. /\ pc[t] \in {"decide", "tools"} /\ UNCHANGED <<messages, reply, toolTurns, overtaken>>
          /\ pc[t] = "tools" => state = "ToolCalling"
          /\ Active(t)
      BY <1>7, <2>1 DEF EndTurn, FinishTools, AbandonTools, Exclusive, Active, Under
    <3>2. /\ pc'[t] \in {"end", "extend"} /\ (pc'[t] = "extend" => pc[t] = "tools")
          /\ \A u \in Turn : u # t => pc'[u] = pc[u]
      BY <1>7, <3>1 DEF EndTurn, FinishTools, AbandonTools, CanMove, TypeOK
    <3>3. NarrativeOf(t)'
      BY <1>0, <2>1, <3>1, <3>2 DEF NarrativeOf
    <3>4. Answers'
      BY <1>0, <3>1 DEF Answers
    <3> QED
      BY <3>1, <3>2, <3>3, <3>4, NarrativeByOne
  <2>2. CASE t \in overtaken
    <3>1. /\ UNCHANGED <<messages, reply, toolTurns, overtaken>>
          /\ \A u \in Turn \ overtaken : pc'[u] = pc[u]
      BY <1>7, <2>2, Overtaken DEF TurnStep, TypeOK
    <3> QED
      BY <3>1, NarrativeStays
  <2> QED
    BY <2>1, <2>2
<1>8. ASSUME NEW t \in Turn, TrimMessages(t)
      PROVE  Narrative' /\ (messages' = messages \/ KeepsHistory)
  <2>1. /\ pc[t] = "end" /\ pc'[t] = "idle" /\ UNCHANGED <<toolTurns, overtaken>>
        /\ \A u \in Turn : u # t => pc'[u] = pc[u]
    BY <1>8 DEF TrimMessages, TypeOK
  <2>2. NarrativeOf(t)' /\ Active(t) /\ t \notin overtaken
    BY <2>1, HasSession DEF NarrativeOf
  <2>3. CASE t \in cancelled /\ messages # <<>> /\ Unresolved(Last(messages))
    <3>1. messages' = Front(messages) /\ Last(messages).by = t
      BY <1>0, <1>8, <2>1, <2>2, <2>3 DEF TrimMessages, NarrativeOf
    <3>2. Answers' /\ KeepsHistory
      BY <1>0, <2>3, <3>1, Popped
    <3> QED
      BY <2>1, <2>2, <3>2, NarrativeByOne
  <2>4. CASE ~(t \in cancelled /\ messages # <<>> /\ Unresolved(Last(messages)))
    <3>1. messages' = messages
      BY <1>8, <2>4 DEF TrimMessages
    <3>2. Answers'
      BY <1>0, <3>1 DEF Answers
    <3> QED
      BY <2>1, <2>2, <3>1, <3>2, NarrativeByOne
  <2> QED
    BY <2>3, <2>4
<1>9. ASSUME NEW t \in Turn, FinishTurn(t) PROVE Narrative' /\ messages' = messages
  <2>1. /\ pc[t] = "idle" /\ pc'[t] = "done" /\ UNCHANGED <<messages, overtaken>>
        /\ \A u \in Turn : u # t => pc'[u] = pc[u] /\ toolTurns'[u] = toolTurns[u]
    BY <1>9 DEF FinishTurn, GoIdle, TypeOK
  <2>2. NarrativeOf(t)' /\ Active(t)
    BY <2>1, HasSession DEF NarrativeOf
  <2>3. Answers'
    BY <1>0, <2>1 DEF Answers
  <2> QED
    BY <2>1, <2>2, <2>3, NarrativeByOne
<1>10. ASSUME NEW t \in Turn, Cancel(t) PROVE Narrative' /\ messages' = messages
  BY <1>10, NarrativeStays DEF Cancel
<1>11. ASSUME NEW r \in Reset, BeginReset(r) \/ ResetSession(r, "clear") \/ FinishReset(r)
       PROVE  Narrative' /\ messages' = messages
  <2>1. /\ UNCHANGED <<messages, reply, toolTurns>> /\ \A t \in Turn : pc'[t] = pc[t]
        /\ overtaken \subseteq overtaken'
    BY <1>11 DEF BeginReset, ResetSession, FinishReset, GoIdle, TypeOK
  <2> QED
    BY <2>1, NarrativeStays
<1>12. ASSUME NEW r \in Reset, ClearMessages(r) PROVE Narrative' /\ KeepsHistory
  <2>1. /\ Active(r) /\ messages' = <<>> /\ UNCHANGED <<toolTurns, overtaken>>
        /\ \A t \in Turn : pc'[t] = pc[t] /\ t # r
    BY <1>12 DEF ClearMessages, Under, Active, TypeOK
  <2>2. state = "Resetting" /\ \A t \in Turn \ overtaken : pc[t] \in {"new", "done"}
    BY <2>1, Alone DEF Exclusive, Active
  <2>3. \A t \in Turn \ overtaken : NarrativeOf(t)'
    BY <1>0, <2>1, <2>2 DEF NarrativeOf
  <2>4. Answers'
    BY <2>1 DEF Answers
  <2> QED
    BY <2>1, <2>2, <2>3, <2>4 DEF Narrative, KeepsHistory
<1>13. ASSUME NEW a \in Adder, AdderStep(a) PROVE Narrative' /\ messages' = messages
  <2>1. /\ UNCHANGED <<messages, reply, toolTurns, overtaken>> /\ \A t \in Turn : pc'[t] = pc[t]
    BY <1>13 DEF AdderStep, AddTools, StripTools, ResetSession, TypeOK
  <2> QED
    BY <2>1, NarrativeStays
<1>14. CASE UNCHANGED vars
  BY <1>14, NarrativeStays DEF vars
<1> QED
  BY <1>1, <1>2, <1>3, <1>4, <1>5, <1>6, <1>7, <1>8, <1>9, <1>10, <1>11, <1>12, <1>13, <1>14
     DEF Next, TurnStep, ResetStep

LEMMA NarrativeStart == ASSUME Init PROVE Narrative
<1>1. \A t \in Turn : NarrativeOf(t)
  BY DEF Init, NarrativeOf
<1> QED
  BY <1>1 DEF Init, Narrative, Answers

\* Every tool result stands behind the call that it answers, also beside turns
\* whose tools a reset overtook, until one of them goes on.
THEOREM ToolResultsAlwaysAnswer == Spec => []ToolResultsAnswer
<1> DEFINE IInv == crossed \/ (Exclusive /\ Narrative)
<1>1. Init => IInv
  BY ExclusiveStart, NarrativeStart
<1>2. TypeOK /\ IInv /\ [Next]_vars => IInv'
  BY ExclusiveStep, NarrativeStep, CrossedStays
<1>3. IInv => ToolResultsAnswer
  BY DEF Narrative, Answers, ToolResultsAnswer
<1> QED
  BY <1>1, <1>2, <1>3, TypeCorrect, PTL DEF Spec

\* The history grows at its end, no turn overwrites what another one said, and no
\* reset clears what a later turn said, until a turn that a reset overtook goes on.
THEOREM HistoryAlwaysKept == Spec => HistoryIsKept
<1> DEFINE IInv == crossed \/ (Exclusive /\ Narrative)
<1>1. Init => IInv
  BY ExclusiveStart, NarrativeStart
<1>2. TypeOK /\ IInv /\ [Next]_vars => IInv'
  BY ExclusiveStep, NarrativeStep, CrossedStays
<1>3. TypeOK /\ IInv /\ [Next]_vars => [KeepsHistory \/ crossed]_messages
  <2> SUFFICES ASSUME TypeOK, Exclusive, Narrative, [Next]_vars
               PROVE  [KeepsHistory]_messages
    OBVIOUS
  <2>1. CASE ~crossed'
    BY <2>1, NarrativeStep
  <2>2. CASE crossed'
    <3>1. UNCHANGED messages
      BY <2>2, CrossingIsQuiet DEF Exclusive
    <3> QED
      BY <3>1
  <2> QED
    BY <2>1, <2>2
<1> QED
  BY <1>1, <1>2, <1>3, TypeCorrect, PTL DEF Spec, HistoryIsKept, KeepsHistory

-----------------------------------------------------------------------------
(* What a turn has cloned, what it has said, and who holds the session.     *)

Cloned ==
  \A t \in Turn : pc[t] = "open" =>
    snap[t].messages = messages /\ Last(messages).role # "assistant"

\* A turn has not replied yet in a round that it only begins.
RoundFits(t, m, place, rounds) ==
  m.role = "assistant" /\ m.by = t =>
    /\ place # "new"
    /\ place \in {"extend", "open", "tools"} => m.round < rounds
    /\ place \in {"stream", "decide"} => m.round <= rounds

Rounds == \A t \in Turn \ overtaken : \A i \in 1 .. Len(messages) :
            RoundFits(t, messages[i], pc[t], toolTurns[t])

Holds ==
  /\ instance = NoOne \/ (instance \in Turn /\ pc[instance] = "stream")
  /\ \A t \in Turn : pc[t] = "stream" => instance = t

Chronicle == Cloned /\ Rounds /\ Holds

\* The messages after a step are those before it, but for one.
OldOr(m) == \A i \in 1 .. Len(messages') :
              messages'[i] = m \/ \E j \in 1 .. Len(messages) : messages'[i] = messages[j]

LEMMA MessagesOf ==
  ASSUME messages \in Seq(Messages), NEW m \in Messages,
         \/ messages' = Append(messages, m)
         \/ messages # <<>> /\ messages' = ReplaceAt(messages, Len(messages), m)
         \/ messages # <<>> /\ messages' = Front(messages)
         \/ messages' = messages \/ messages' = <<>>
  PROVE  OldOr(m)
<1>1. CASE messages' = Append(messages, m)
  <2>1. /\ Len(messages') = Len(messages) + 1 /\ messages'[Len(messages) + 1] = m
        /\ Len(messages) \in Nat /\ \A j \in 1 .. Len(messages) : messages'[j] = messages[j]
    BY <1>1, AppendProperties
  <2> QED
    BY <2>1 DEF OldOr
<1>2. CASE messages # <<>> /\ messages' = ReplaceAt(messages, Len(messages), m)
  BY <1>2 DEF OldOr, ReplaceAt
<1>3. CASE messages # <<>> /\ messages' = Front(messages)
  <2>1. /\ Len(messages') = Len(messages) - 1 /\ Len(messages) \in Nat
        /\ \A j \in 1 .. Len(messages) - 1 : messages'[j] = messages[j]
    BY <1>3, FrontFacts, NonEmpty
  <2> QED
    BY <2>1 DEF OldOr
<1>4. CASE messages' = messages \/ messages' = <<>>
  BY <1>4 DEF OldOr
<1> QED
  BY <1>1, <1>2, <1>3, <1>4

\* One output writes the turn's reply of this round and nothing else.
LEMMA OutputWrites ==
  ASSUME TypeOK, Exclusive, Narrative, NEW t \in Turn, pc[t] = "stream", NEW size \in 0 .. MaxReply,
         NEW calls \in BOOLEAN, NEW finish, Output(t, size, calls, finish)
  PROVE  OldOr(Assistant(t, toolTurns[t], size, calls))
<1> DEFINE m == Assistant(t, toolTurns[t], size, calls)
<1>1. m \in Messages /\ messages \in Seq(Messages)
  BY MessageTypes DEF TypeOK
<1>2. reply[t].stored => messages # <<>>
  BY HasSession DEF Narrative, NarrativeOf
<1>3. \/ messages # <<>> /\ messages' = ReplaceAt(messages, Len(messages), m)
      \/ messages' = Append(messages, m)
  BY <1>2 DEF Output, Stored
<1> HIDE DEF m
<1>4. OldOr(m)
  BY <1>1, <1>3, MessagesOf
<1> QED
  BY <1>4 DEF m

\* A step of turn t that writes at most a message of t.
LEMMA RoundType ==
  ASSUME messages \in Seq(Messages), NEW i \in 1 .. Len(messages)
  PROVE  messages[i].round \in Nat
<1>1. messages[i] \in Messages
  BY ElementOfSeq
<1> QED
  BY <1>1 DEF Messages

LEMMA RoundsByOne ==
  ASSUME TypeOK, Exclusive, Rounds, NEW t \in Turn, Active(t), UNCHANGED overtaken,
         NEW m, OldOr(m),
         \A u \in Turn : u # t => pc'[u] = pc[u],
         m.role = "assistant" => m.by = t,
         RoundFits(t, m, pc'[t], toolTurns'[t]),
         \A i \in 1 .. Len(messages) : RoundFits(t, messages[i], pc'[t], toolTurns'[t])
  PROVE  Rounds'
<1>1. ASSUME NEW u \in Turn \ overtaken, u # t, NEW i \in 1 .. Len(messages')
      PROVE  RoundFits(u, messages'[i], pc'[u], toolTurns'[u])
  <2>1. pc'[u] = pc[u] /\ pc[u] \in {"new", "done"}
    BY <1>1, Alone
  <2>2. CASE messages'[i] = m
    BY <1>1, <2>2 DEF RoundFits
  <2>3. CASE \E j \in 1 .. Len(messages) : messages'[i] = messages[j]
    BY <1>1, <2>1, <2>3 DEF Rounds, RoundFits
  <2> QED
    BY <2>2, <2>3 DEF OldOr
<1>2. ASSUME NEW i \in 1 .. Len(messages') PROVE RoundFits(t, messages'[i], pc'[t], toolTurns'[t])
  BY <1>2 DEF OldOr
<1> QED
  BY <1>1, <1>2 DEF Rounds

LEMMA RoundsStay ==
  ASSUME Rounds, UNCHANGED <<messages, toolTurns>>, overtaken \subseteq overtaken',
         \A t \in Turn \ overtaken' : pc'[t] = pc[t]
  PROVE  Rounds'
  BY DEF Rounds

\* A turn that does not stream leaves the session free.
LEMMA Free ==
  ASSUME TypeOK, Exclusive, Holds, NEW p \in Turn \cup Reset, Active(p), pc[p] # "stream"
  PROVE  instance = NoOne
  BY Alone DEF Holds

LEMMA ChronicleByOne ==
  ASSUME TypeOK, Exclusive, Chronicle, NEW t \in Turn, Active(t), UNCHANGED overtaken,
         NEW m, OldOr(m),
         \A u \in Turn : u # t => pc'[u] = pc[u],
         m.role = "assistant" => m.by = t,
         RoundFits(t, m, pc'[t], toolTurns'[t]),
         \A i \in 1 .. Len(messages) : RoundFits(t, messages[i], pc'[t], toolTurns'[t]),
         pc'[t] = "open" => snap'[t].messages = messages' /\ Last(messages').role # "assistant",
         instance' = IF pc'[t] = "stream" THEN t ELSE NoOne
  PROVE  Chronicle'
<1>1. \A u \in Turn : u # t => pc'[u] \in {"new", "tools", "done"}
  BY Alone
<1>2. Cloned'
  BY <1>1 DEF Cloned
<1>3. Holds'
  BY <1>1 DEF Holds
<1>4. Rounds'
  BY RoundsByOne DEF Chronicle
<1> QED
  BY <1>2, <1>3, <1>4 DEF Chronicle

LEMMA ChronicleStays ==
  ASSUME Chronicle, UNCHANGED <<messages, toolTurns, snap, instance>>,
         overtaken \subseteq overtaken', \A t \in Turn \ overtaken' : pc'[t] = pc[t],
         \A t \in Turn : pc'[t] = pc[t] \/ (pc[t] = "tools" /\ pc'[t] = "done")
  PROVE  Chronicle'
  BY RoundsStay DEF Chronicle, Cloned, Holds

LEMMA ChronicleStep ==
  ASSUME TypeOK, Exclusive, Narrative, Chronicle, [Next]_vars, ~crossed' PROVE Chronicle'
<1>0. /\ Cloned /\ Rounds /\ Holds /\ messages \in Seq(Messages) /\ toolTurns \in [Turn -> Nat]
      /\ \A t \in Turn : User(t) \in Messages /\ User(t).role = "user"
  BY MessageTypes DEF Chronicle, TypeOK, User
<1>1. ASSUME NEW t \in Turn, Begin(t) PROVE Chronicle'
  <2>1. /\ UNCHANGED <<messages, toolTurns, snap, instance, overtaken>>
        /\ \A u \in Turn : u # t => pc'[u] = pc[u]
        /\ pc[t] = "new" /\ pc'[t] \in {"extend", "done"} /\ t \notin overtaken
    BY <1>1 DEF Begin, TypeOK, Exclusive
  <2>2. Cloned' /\ Holds'
    BY <1>0, <2>1 DEF Cloned, Holds
  <2>3. Rounds'
    BY <1>0, <2>1 DEF Rounds, RoundFits
  <2> QED
    BY <2>2, <2>3 DEF Chronicle
<1>2. ASSUME NEW t \in Turn, ExtendMessages(t) PROVE Chronicle'
  <2> DEFINE m == IF toolTurns[t] = 0 THEN User(t) ELSE ToolResult(t, toolTurns[t])
  <2>1. /\ pc[t] = "extend" /\ messages' = Append(messages, m) /\ pc'[t] = "open"
        /\ UNCHANGED <<toolTurns, instance, overtaken>> /\ snap'[t].messages = messages'
        /\ \A u \in Turn : u # t => pc'[u] = pc[u]
    BY <1>2 DEF ExtendMessages, TypeOK
  <2>2. m \in Messages /\ m.role # "assistant"
    BY MessageTypes DEF TypeOK, User, ToolResult
  <2> HIDE DEF m
  <2>3. OldOr(m) /\ Last(messages') = m
    BY <1>0, <2>1, <2>2, MessagesOf, AppendFacts
  <2>4. Active(t) /\ t \notin overtaken /\ instance = NoOne
    BY <1>0, <2>1, HasSession, Free
  <2>5. RoundFits(t, m, pc'[t], toolTurns'[t])
        /\ \A i \in 1 .. Len(messages) : RoundFits(t, messages[i], pc'[t], toolTurns'[t])
    BY <1>0, <2>1, <2>2, <2>4 DEF Rounds, RoundFits
  <2> QED
    BY <2>1, <2>2, <2>3, <2>4, <2>5, ChronicleByOne
<1>3. ASSUME NEW t \in Turn, OpenStream(t) \/ RefuseHistory(t) \/ RefusePrompt(t)
      PROVE  Chronicle'
  <2>1. /\ pc[t] = "open" /\ UNCHANGED <<messages, toolTurns, overtaken>> /\ pc'[t] \in {"stream", "end"}
        /\ instance' = (IF pc'[t] = "stream" THEN t ELSE NoOne)
        /\ \A u \in Turn : u # t => pc'[u] = pc[u]
    BY <1>3 DEF OpenStream, RefuseHistory, RefusePrompt, TypeOK
  <2>2. OldOr(User(t)) /\ Active(t) /\ t \notin overtaken
    BY <1>0, <2>1, HasSession, MessagesOf
  <2>3. RoundFits(t, User(t), pc'[t], toolTurns'[t])
        /\ \A i \in 1 .. Len(messages) : RoundFits(t, messages[i], pc'[t], toolTurns'[t])
    <3>1. RoundFits(t, User(t), pc'[t], toolTurns'[t])
      BY <1>0 DEF RoundFits
    <3>2. ASSUME NEW i \in 1 .. Len(messages) PROVE RoundFits(t, messages[i], pc'[t], toolTurns'[t])
      <4>1. messages[i].round \in Nat /\ toolTurns[t] \in Nat
        BY <1>0, RoundType
      <4> QED BY <1>0, <2>1, <2>2, <4>1 DEF Rounds, RoundFits
    <3> QED BY <3>1, <3>2
  <2> QED
    BY <1>0, <2>1, <2>2, <2>3, ChronicleByOne
<1>4. ASSUME NEW t \in Turn, NEW size \in 0 .. MaxReply, NEW calls \in BOOLEAN, NEW finish,
             pc[t] = "stream", Output(t, size, calls, finish),
             UNCHANGED <<toolTurns, snap, overtaken>>
      PROVE  Chronicle'
  <2> DEFINE m == Assistant(t, toolTurns[t], size, calls)
  <2>1. OldOr(m)
    BY <1>4, OutputWrites
  <2>2. m.role = "assistant" /\ m.by = t /\ m.round = toolTurns[t]
    BY DEF Assistant
  <2>3. /\ pc'[t] \in {"stream", "decide", "end"} /\ instance = t
        /\ instance' = (IF pc'[t] = "stream" THEN t ELSE NoOne)
        /\ \A u \in Turn : u # t => pc'[u] = pc[u]
    BY <1>0, <1>4 DEF Output, TypeOK, Holds
  <2> HIDE DEF m
  <2>5. Active(t) /\ t \notin overtaken
    BY <1>4, HasSession
  <2>4. RoundFits(t, m, pc'[t], toolTurns'[t])
        /\ \A i \in 1 .. Len(messages) : RoundFits(t, messages[i], pc'[t], toolTurns'[t])
    BY <1>0, <1>4, <2>2, <2>3, <2>5 DEF Rounds, RoundFits
  <2> QED
    BY <1>4, <2>1, <2>2, <2>3, <2>4, <2>5, ChronicleByOne
<1>5. ASSUME NEW t \in Turn, Generate(t) \/ Stop(t) \/ EndStream(t) PROVE Chronicle'
  <2>1. PICK size \in 0 .. MaxReply, calls \in BOOLEAN,
             finish \in {"none", "length", "stop", "tools", "cancelled"} :
          Output(t, size, calls, finish)
    <3>1. reply[t].size \in 0 .. MaxReply /\ reply[t].calls \in BOOLEAN
      BY DEF TypeOK
    <3>2. reply[t].size < MaxReply => reply[t].size + 1 \in 0 .. MaxReply
      BY <3>1
    <3> QED
      BY <1>5, <3>1, <3>2 DEF Generate, Stop, EndStream
  <2>2. pc[t] = "stream" /\ UNCHANGED <<toolTurns, snap, overtaken>>
    BY <1>5 DEF Generate, Stop, EndStream
  <2> QED
    BY <1>4, <2>1, <2>2
<1>6. ASSUME NEW t \in Turn, t \notin overtaken,
             FailDecode(t) \/ StartTools(t) \/ EndTurn(t) \/ FinishTools(t)
             \/ AbandonTools(t) \/ TrimMessages(t) \/ FinishTurn(t)
      PROVE  Chronicle'
  <2>0. pc[t] \notin {"new", "done"} /\ UNCHANGED overtaken /\ Active(t)
    BY <1>6 DEF FailDecode, StartTools, EndTurn, FinishTools, AbandonTools, TrimMessages,
                FinishTurn, GoIdle, Active, Under
  <2>1. /\ pc'[t] \in {"tools", "extend", "end", "idle", "done"}
        /\ \A u \in Turn : u # t => pc'[u] = pc[u]
        /\ messages' = messages \/ (messages # <<>> /\ messages' = Front(messages))
    BY <1>6 DEF FailDecode, StartTools, EndTurn, FinishTools, AbandonTools, TrimMessages,
                FinishTurn, GoIdle, TypeOK
  <2>2. instance' = NoOne
    <3>1. CASE FailDecode(t)
      BY <3>1 DEF FailDecode
    <3>2. CASE ~FailDecode(t)
      <4>1. pc[t] # "stream" /\ UNCHANGED instance
        BY <1>6, <3>2 DEF StartTools, EndTurn, FinishTools, AbandonTools, TrimMessages,
                          FinishTurn, GoIdle
      <4> QED BY <1>0, <2>0, <4>1, Free
    <3> QED BY <3>1, <3>2
  <2>3. OldOr(User(t))
    BY <1>0, <2>1, MessagesOf
  <2>4. /\ pc'[t] = "tools" => pc[t] = "decide" /\ toolTurns'[t] = toolTurns[t] + 1
        /\ pc'[t] = "extend" => pc[t] = "tools" /\ toolTurns'[t] = toolTurns[t]
    BY <1>6 DEF FailDecode, StartTools, EndTurn, FinishTools, AbandonTools, TrimMessages,
                FinishTurn, GoIdle, TypeOK
  <2>6. ASSUME NEW i \in 1 .. Len(messages) PROVE RoundFits(t, messages[i], pc'[t], toolTurns'[t])
    <3>1. messages[i].round \in Nat /\ toolTurns[t] \in Nat
      BY <1>0, RoundType
    <3>2. RoundFits(t, messages[i], pc[t], toolTurns[t])
      BY <1>0, <1>6 DEF Rounds
    <3> QED BY <2>0, <2>1, <2>4, <3>1, <3>2 DEF RoundFits
  <2>7. RoundFits(t, User(t), pc'[t], toolTurns'[t]) /\ User(t).role # "assistant"
    BY <1>0 DEF RoundFits
  <2> QED
    BY <2>0, <2>1, <2>2, <2>3, <2>6, <2>7, ChronicleByOne
<1>12. ASSUME NEW t \in overtaken, TurnStep(t) PROVE Chronicle'
  <2>1. /\ UNCHANGED <<messages, toolTurns, snap, instance, overtaken>>
        /\ pc[t] = "tools" /\ pc'[t] = "done" /\ \A u \in Turn : u # t => pc'[u] = pc[u]
    BY <1>12, Overtaken DEF TypeOK
  <2> QED
    BY <2>1, ChronicleStays
<1>7. ASSUME NEW t \in Turn, Cancel(t) PROVE Chronicle'
  <2>1. UNCHANGED <<messages, toolTurns, snap, instance, overtaken, pc>>
    BY <1>7 DEF Cancel
  <2> QED
    BY <2>1, ChronicleStays
<1>8. ASSUME NEW r \in Reset, BeginReset(r) \/ ResetSession(r, "clear") \/ FinishReset(r)
      PROVE  Chronicle'
  <2>1. /\ UNCHANGED <<messages, toolTurns, snap, instance>> /\ overtaken \subseteq overtaken'
        /\ \A t \in Turn : pc'[t] = pc[t]
    BY <1>8 DEF BeginReset, ResetSession, FinishReset, GoIdle, TypeOK
  <2> QED
    BY <2>1, ChronicleStays
<1>9. ASSUME NEW r \in Reset, ClearMessages(r) PROVE Chronicle'
  <2>1. /\ Active(r) /\ messages' = <<>> /\ UNCHANGED <<toolTurns, snap, instance>>
        /\ \A t \in Turn : pc'[t] = pc[t] /\ t # r
    BY <1>9 DEF ClearMessages, Under, Active, TypeOK
  <2>2. \A t \in Turn : pc[t] \in {"new", "tools", "done"}
    BY <2>1, Alone
  <2> QED
    BY <1>0, <2>1, <2>2 DEF Chronicle, Cloned, Rounds, Holds
<1>10. ASSUME NEW a \in Adder, AdderStep(a) PROVE Chronicle'
  <2>1. UNCHANGED <<messages, toolTurns, snap, instance, overtaken>> /\ \A t \in Turn : pc'[t] = pc[t]
    BY <1>10 DEF AdderStep, AddTools, StripTools, ResetSession, TypeOK
  <2> QED
    BY <2>1, ChronicleStays
<1>11. CASE UNCHANGED vars
  BY <1>11, ChronicleStays DEF vars
<1> QED
  BY <1>1, <1>2, <1>3, <1>5, <1>6, <1>7, <1>8, <1>9, <1>10, <1>11, <1>12 DEF Next, TurnStep, ResetStep

-----------------------------------------------------------------------------
(* What the encoding and the model hold.                                    *)

Token == [of : {"user", "assistant", "tool", "developer"} \X (Turn \cup {NoOne}) \X Nat,
          part : {"body", "abridged", "end"}, size : Nat]

Typed == encoded \in Seq(Token) /\ model \in Seq(Token)

Whole ==
  \A t \in Turn : pc[t] = "stream" =>
    /\ encoded # <<>> /\ model # <<>>
    /\ ~spoilt => model = encoded /\ encoded = Grown(Prompt(t), reply[t].size)

\* The encoding ends with the opening of a reply that no history has.
Said(t, round) == \E i \in 1 .. Len(messages) :
  messages[i].role = "assistant" /\ messages[i].by = t /\ messages[i].round = round
Dead ==
  /\ encoded # <<>>
  /\ \E t \in Turn, round \in Nat :
       /\ pc[t] \in {"end", "idle", "done"}
       /\ Last(encoded).of = <<"assistant", t, round>>
       /\ ~Said(t, round)

\* The history does not encode, and will not before a reset.
Refused ==
  encoded = <<>> /\ messages # <<>> /\ ~Ordered(messages) /\ Last(messages).role # "assistant"

Together == ~spoilt => model = encoded \/ Dead \/ Refused
Cleared == \A r \in Reset : pc[r] = "clear" => model = encoded

Synchronous == Typed /\ Whole /\ Together /\ Cleared

LEMMA SaysTypes ==
  ASSUME NEW m \in Messages, NEW part \in {"body", "abridged", "end"}
  PROVE  Says(m, part) \in Token /\ End(m) \in Token
         /\ Says(m, part).of = <<m.role, m.by, m.round>> /\ End(m).of = <<m.role, m.by, m.round>>
  BY DEF Says, End, Token, Messages

LEMMA PromptFacts ==
  ASSUME TypeOK, NEW t \in Turn
  PROVE  /\ Prompt(t) \in Seq(Token) /\ Prompt(t) # <<>> /\ Len(Prompt(t)) \in Nat
         /\ Last(Prompt(t)) = Opening(t) /\ Opening(t).size = 0
         /\ Opening(t).of = <<"assistant", t, toolTurns[t]>>
         /\ \A i \in 1 .. Len(Prompt(t)) - 1, u \in Turn, round \in Nat :
              Prompt(t)[i].of = <<"assistant", u, round>> =>
                \E j \in 1 .. Len(snap[t].messages) :
                  LET m == snap[t].messages[j]
                  IN  m.role = "assistant" /\ m.by = u /\ m.round = round
<1> DEFINE list == snap[t].messages
           history == History(list, snap[t].declared)
           n == Len(list)
<1>1. list \in Seq(Messages) /\ snap[t].declared \in Nat /\ n \in Nat
  BY DEF TypeOK
<1>2. Tools(snap[t].declared) \in Token /\ Tools(snap[t].declared).of[1] = "developer"
  BY <1>1 DEF Tools, Token
<1>3. \A j \in 1 .. n : list[j] \in Messages
  BY <1>1, ElementOfSeq
<1>4. \A j \in 1 .. n : /\ Body(list[j]) \in Token /\ End(list[j]) \in Token
                        /\ Body(list[j]).of = <<list[j].role, list[j].by, list[j].round>>
                        /\ End(list[j]).of = <<list[j].role, list[j].by, list[j].round>>
  BY <1>3, SaysTypes DEF Body
<1>5. Opening(t) \in Token /\ Opening(t).size = 0
      /\ Opening(t).of = <<"assistant", t, toolTurns[t]>>
  <2>0. 0 \in 0 .. MaxReply /\ toolTurns[t] \in 0 .. ToolTurnLimit /\ FALSE \in BOOLEAN
    BY DEF TypeOK
  <2>1. Assistant(t, toolTurns[t], 0, FALSE) \in Messages
    BY <2>0, MessageTypes
  <2> QED
    BY <2>1, SaysTypes DEF Opening, Says, Assistant
<1> HIDE DEF list, n
<1>6. ASSUME NEW i \in 1 .. 2 * n + 1
      PROVE  \/ i = 1 /\ history[i] = Tools(snap[t].declared)
             \/ \E j \in 1 .. n : history[i] = Body(list[j]) \/ history[i] = End(list[j])
  <2>1. i # 1 => i \div 2 \in 1 .. n
    BY <1>1
  <2>2. history[i] = IF i = 1 THEN Tools(snap[t].declared)
                     ELSE IF i % 2 = 0 THEN Body(list[i \div 2]) ELSE End(list[i \div 2])
    BY DEF History, n
  <2> QED
    BY <2>1, <2>2
<1>7. history \in Seq(Token) /\ Len(history) = 2 * n + 1
  <2>1. \A i \in 1 .. 2 * n + 1 : history[i] \in Token
    BY <1>2, <1>4, <1>6
  <2>2. history = [i \in 1 .. 2 * n + 1 |-> history[i]] /\ 2 * n + 1 \in Nat
    BY <1>1 DEF History, n
  <2> HIDE DEF history
  <2> QED
    BY <2>1, <2>2
<1> HIDE DEF history
<1>8. Prompt(t) = Append(history, Opening(t))
  BY DEF Prompt, history, list
<1>9. /\ Prompt(t) \in Seq(Token) /\ Prompt(t) # <<>> /\ Len(Prompt(t)) = 2 * n + 2
      /\ Last(Prompt(t)) = Opening(t)
      /\ \A i \in 1 .. 2 * n + 1 : Prompt(t)[i] = history[i]
  BY <1>1, <1>5, <1>7, <1>8, AppendFacts
<1>10. ASSUME NEW i \in 1 .. Len(Prompt(t)) - 1, NEW u \in Turn, NEW round \in Nat,
              Prompt(t)[i].of = <<"assistant", u, round>>
       PROVE  \E j \in 1 .. n : list[j].role = "assistant" /\ list[j].by = u /\ list[j].round = round
  <2>1. i \in 1 .. 2 * n + 1 /\ Prompt(t)[i] = history[i]
    BY <1>1, <1>9
  <2>2. history[i].of = <<"assistant", u, round>> /\ history[i].of[1] = "assistant"
    BY <1>10, <2>1
  <2>3. PICK j \in 1 .. n : history[i] = Body(list[j]) \/ history[i] = End(list[j])
    BY <1>2, <1>6, <2>1, <2>2
  <2>4. <<list[j].role, list[j].by, list[j].round>> = <<"assistant", u, round>>
    BY <1>4, <2>2, <2>3
  <2> QED
    BY <2>4
<1> QED
  BY <1>1, <1>5, <1>9, <1>10 DEF list, n

\* A context whose last token has grown.
LEMMA GrownFacts ==
  ASSUME NEW c \in Seq(Token), c # <<>>, NEW size \in Nat
  PROVE  /\ Grown(c, size) \in Seq(Token) /\ Grown(c, size) # <<>>
         /\ \A more \in Nat : Grown(Grown(c, size), more) = Grown(c, more)
         /\ Last(c).size = size => Grown(c, size) = c
<1>1. Len(c) \in Nat /\ Len(c) > 0 /\ Last(c) \in Token /\ c[Len(c)] = Last(c)
  BY NonEmpty
<1>2. ASSUME NEW k \in Nat
      PROVE  /\ Grown(c, k) = [c EXCEPT ![Len(c)] = [@ EXCEPT !.size = k]]
             /\ [c[Len(c)] EXCEPT !.size = k] \in Token
  BY <1>1 DEF Grown, Token
<1>3. ASSUME NEW k \in Nat
      PROVE  /\ Grown(c, k) \in Seq(Token) /\ Len(Grown(c, k)) = Len(c)
             /\ \A i \in 1 .. Len(c) :
                  Grown(c, k)[i] = IF i = Len(c) THEN [c[Len(c)] EXCEPT !.size = k] ELSE c[i]
  <2> DEFINE e == [c[Len(c)] EXCEPT !.size = k]
  <2>1. Grown(c, k) = [c EXCEPT ![Len(c)] = e] /\ e \in Token /\ Len(c) \in 1 .. Len(c)
    BY <1>1, <1>2
  <2> HIDE DEF e
  <2>2. /\ Grown(c, k) \in Seq(Token) /\ Len(Grown(c, k)) = Len(c)
        /\ \A i \in 1 .. Len(c) : Grown(c, k)[i] = IF i = Len(c) THEN e ELSE c[i]
    BY <2>1, ExceptSeq
  <2> QED
    BY <2>2 DEF e
<1>4. Grown(c, size) # <<>>
  BY <1>1, <1>3, NonEmpty
<1>5. ASSUME NEW more \in Nat PROVE Grown(Grown(c, size), more) = Grown(c, more)
  <2>1. [[c[Len(c)] EXCEPT !.size = size] EXCEPT !.size = more] = [c[Len(c)] EXCEPT !.size = more]
    BY <1>1 DEF Token
  <2> QED
    BY ZenonT(40), <1>1, <1>3, <2>1 DEF Grown
<1>6. Last(c).size = size => Grown(c, size) = c
  <2>1. Last(c).size = size => [c[Len(c)] EXCEPT !.size = size] = c[Len(c)]
    BY <1>1 DEF Token
  <2> QED
    BY <1>1, <1>3, <2>1, SeqEqual
<1> QED
  BY <1>3, <1>4, <1>5, <1>6

\* A context that a history extends, and what is missing from it.
LEMMA Extended ==
  ASSUME NEW S, NEW new \in Seq(S), NEW old \in Seq(S), Extends(new, old)
  PROVE  /\ old \o SubSeq(new, Len(old) + 1, Len(new)) = new
         /\ SubSeq(new, Len(old) + 1, Len(new)) \in Seq(S)
         /\ SubSeq(new, Len(old) + 1, Len(new)) # <<>>
         /\ old # <<>> => Len(old) \in 1 .. Len(new) - 1 /\ new[Len(old)] = Last(old)
<1>1. Len(new) \in Nat /\ Len(old) \in Nat /\ Len(new) > Len(old) /\ SubSeq(new, 1, Len(old)) = old
  BY NonEmpty DEF Extends
<1>2. SubSeq(new, 1, Len(old)) \o SubSeq(new, Len(old) + 1, Len(new)) = SubSeq(new, 1, Len(new))
  <2>1. /\ 1 \in 1 .. Len(new) + 1 /\ Len(old) \in 1 - 1 .. Len(new)
        /\ Len(new) \in Len(old) .. Len(new)
    BY <1>1
  <2> QED
    BY <2>1, ConcatAdjacentSubSeq
<1>3. SubSeq(new, 1, Len(new)) = new
  BY SubSeqFull
<1>4. /\ SubSeq(new, Len(old) + 1, Len(new)) \in Seq(S)
      /\ Len(SubSeq(new, Len(old) + 1, Len(new))) = Len(new) - Len(old)
  <2>1. \A i \in Len(old) + 1 .. Len(new) : new[i] \in S
    BY <1>1, ElementOfSeq
  <2> QED
    BY <1>1, <2>1, SubSeqProperties
<1>5. old # <<>> => Len(old) \in 1 .. Len(new) - 1 /\ new[Len(old)] = Last(old)
  <2> SUFFICES ASSUME old # <<>> PROVE Len(old) \in 1 .. Len(new) - 1 /\ new[Len(old)] = Last(old)
    OBVIOUS
  <2>1. Len(old) > 0 /\ Last(old) = old[Len(old)]
    BY NonEmpty
  <2>2. \A i \in 1 .. Len(old) : new[i] \in S
    BY <1>1, ElementOfSeq
  <2>3. \A i \in 1 .. Len(old) : SubSeq(new, 1, Len(old))[i] = new[i]
    BY <1>1, <2>2, SubSeqProperties
  <2>4. old[Len(old)] = new[Len(old)]
    BY <1>1, <2>1, <2>3
  <2> QED
    BY <1>1, <2>1, <2>4
<1>6. SubSeq(new, Len(old) + 1, Len(new)) # <<>>
  <2>1. Len(SubSeq(new, Len(old) + 1, Len(new))) > 0
    BY <1>1, <1>4
  <2> QED
    BY <1>4, <2>1, NonEmpty
<1>7. old \o SubSeq(new, Len(old) + 1, Len(new)) = new
  BY <1>1, <1>2, <1>3
<1> QED
  BY <1>4, <1>5, <1>6, <1>7

LEMMA PromptStays ==
  ASSUME NEW t \in Turn, snap'[t] = snap[t], toolTurns'[t] = toolTurns[t], template' = template
  PROVE  Prompt(t)' = Prompt(t)
<1>1. Opening(t)' = Opening(t)
  BY DEF Opening, Says, Assistant
<1>2. History(snap[t].messages, snap[t].declared)' = History(snap[t].messages, snap[t].declared)
  BY DEF History, Body
<1> QED
  BY <1>1, <1>2 DEF Prompt

\* Steps that leave the session alone, and write no reply.
LEMMA QuietStep ==
  ASSUME Synchronous, UNCHANGED <<encoded, model, spoilt, template, orderly>>,
         \A t \in Turn : pc'[t] = "stream" =>
           /\ pc[t] = "stream" /\ reply'[t] = reply[t] /\ snap'[t] = snap[t]
           /\ toolTurns'[t] = toolTurns[t],
         \A r \in Reset : pc'[r] = "clear" => pc[r] = "clear",
         \A t \in Turn : pc[t] \in {"end", "idle", "done"} => pc'[t] \in {"end", "idle", "done"},
         NEW m, OldOr(m), m.role # "assistant",
         Refused => Refused' \/ model = encoded
  PROVE  Synchronous'
<1>1. ASSUME NEW t \in Turn, pc'[t] = "stream" PROVE Prompt(t)' = Prompt(t)
  BY <1>1, PromptStays
<1>2. Typed' /\ Cleared'
  BY DEF Synchronous, Typed, Cleared
<1>3. Whole'
  BY <1>1 DEF Synchronous, Whole
<1>4. Dead => Dead'
  <2>1. ASSUME NEW t \in Turn, NEW round \in Nat, ~Said(t, round) PROVE ~Said(t, round)'
    BY <2>1 DEF Said, OldOr
  <2> QED
    BY <2>1 DEF Dead
<1>5. Together'
  BY <1>4 DEF Synchronous, Together
<1> QED
  BY <1>2, <1>3, <1>5 DEF Synchronous

LEMMA UnchangedIsOld ==
  ASSUME UNCHANGED messages, NEW m PROVE OldOr(m)
  BY DEF OldOr

LEMMA RefusedStays ==
  ASSUME Refused, UNCHANGED <<messages, encoded, orderly>> PROVE Refused'
  BY DEF Refused, Ordered

LEMMA RefusedGrows ==
  ASSUME Refused, messages \in Seq(Messages), NEW m \in Messages, m.role # "assistant",
         messages' = Append(messages, m), UNCHANGED <<encoded, orderly>>
  PROVE  Refused'
<1>1. /\ messages' # <<>> /\ Last(messages') = m /\ Len(messages') = Len(messages) + 1
      /\ \A j \in 1 .. Len(messages) : messages'[j] = messages[j]
  BY AppendFacts
<1>2. Len(messages) \in Nat /\ Len(messages) > 0
  BY NonEmpty DEF Refused
<1>3. ~Ordered(messages')
  <2>1. CASE messages[1].role # "user"
    BY <1>1, <1>2, <2>1 DEF Refused, Ordered
  <2>2. CASE \E i \in 2 .. Len(messages) : ~Follows(messages[i - 1].role, messages[i].role)
    <3>1. PICK i \in 2 .. Len(messages) : ~Follows(messages[i - 1].role, messages[i].role)
      BY <2>2
    <3>2. i \in 2 .. Len(messages') /\ messages'[i] = messages[i] /\ messages'[i - 1] = messages[i - 1]
      BY <1>1, <1>2, <3>1
    <3> QED
      BY <3>1, <3>2 DEF Refused, Ordered
  <2> QED
    BY <2>1, <2>2 DEF Refused, Ordered
<1> QED
  BY <1>1, <1>3 DEF Refused, Ordered

\* The prompt of a turn that is let in extends nothing that the model lacks.
LEMMA ExtendsWhole ==
  ASSUME TypeOK, Exclusive, Chronicle, Synchronous, NEW t \in Turn, pc[t] = "open",
         Ordered(snap[t].messages), Extends(Prompt(t), encoded), ~spoilt
  PROVE  model = encoded
<1>1. snap[t].messages = messages
  BY DEF Chronicle, Cloned
<1>2. ~Refused
  BY <1>1 DEF Refused
<1>3. ~Dead
  <2> SUFFICES ASSUME Dead PROVE FALSE
    OBVIOUS
  <2>1. PICK u \in Turn, round \in Nat :
          Last(encoded).of = <<"assistant", u, round>> /\ ~Said(u, round)
    BY DEF Dead
  <2>2. encoded \in Seq(Token) /\ encoded # <<>>
    BY DEF Dead, Synchronous, Typed
  <2>3. Len(encoded) \in 1 .. Len(Prompt(t)) - 1 /\ Prompt(t)[Len(encoded)] = Last(encoded)
    BY <2>2, PromptFacts, Extended
  <2>4. \E j \in 1 .. Len(messages) :
          LET m == messages[j]
          IN  m.role = "assistant" /\ m.by = u /\ m.round = round
    BY SMTT(20), <1>1, <2>1, <2>3, PromptFacts
  <2> QED
    BY <2>1, <2>4 DEF Said
<1> QED
  BY <1>2, <1>3 DEF Synchronous, Together

\* What the model holds once a turn's prompt is fed.
LEMMA FedWhole ==
  ASSUME TypeOK, Exclusive, Chronicle, Synchronous, NEW t \in Turn, pc[t] = "open",
         Ordered(snap[t].messages)
  PROVE  /\ Kept(t) \o Fed(t) \in Seq(Token) /\ Kept(t) \o Fed(t) # <<>> /\ Kept(t) \in Seq(Token)
         /\ ~(spoilt /\ Extends(Prompt(t), encoded)) => Kept(t) \o Fed(t) = Prompt(t)
<1>0. Prompt(t) \in Seq(Token) /\ Prompt(t) # <<>> /\ encoded \in Seq(Token) /\ model \in Seq(Token)
  BY PromptFacts DEF Synchronous, Typed
<1>1. CASE Extends(Prompt(t), encoded)
  <2> DEFINE rest == SubSeq(Prompt(t), Len(encoded) + 1, Len(Prompt(t)))
  <2>1. encoded \o rest = Prompt(t) /\ rest \in Seq(Token) /\ rest # <<>>
    BY <1>0, <1>1, Extended
  <2>2. Kept(t) = model /\ Fed(t) = rest
    BY <1>1 DEF Kept, Fed
  <2> HIDE DEF rest
  <2>3. model \o rest \in Seq(Token) /\ model \o rest # <<>>
    BY <1>0, <2>1, ConcatProperties, ConcatEqualIffEmpty
  <2>4. ~spoilt => model \o rest = Prompt(t)
    BY <1>1, <2>1, ExtendsWhole
  <2> QED
    BY <1>0, <1>1, <2>2, <2>3, <2>4
<1>2. CASE ~Extends(Prompt(t), encoded)
  <2>1. Kept(t) = <<>> /\ Fed(t) = Prompt(t)
    BY <1>2 DEF Kept, Fed
  <2>2. <<>> \o Prompt(t) = Prompt(t) /\ <<>> \in Seq(Token)
    BY <1>0, ConcatEmptySeq, EmptySeq
  <2> QED
    BY <1>0, <2>1, <2>2
<1> QED
  BY <1>1, <1>2

\* While a turn that is under way is not streaming after a step, no turn is.
LEMMA WholeByOne ==
  ASSUME TypeOK, Exclusive, NEW t \in Turn, Active(t), \A u \in Turn : u # t => pc'[u] = pc[u],
         pc'[t] = "stream" =>
           /\ encoded' # <<>> /\ model' # <<>>
           /\ ~spoilt' => model' = encoded' /\ encoded' = Grown(Prompt(t)', reply'[t].size)
  PROVE  Whole'
<1>1. \A u \in Turn : u # t => pc'[u] \in {"new", "tools", "done"}
  BY Alone
<1> QED
  BY <1>1 DEF Whole

\* No reset is under way beside a turn.
LEMMA NotCleared ==
  ASSUME TypeOK, Exclusive, NEW t \in Turn, Active(t), \A r \in Reset : pc'[r] = pc[r]
  PROVE  Cleared'
<1>1. \A r \in Reset : pc[r] # "clear"
  BY Alone
<1> QED
  BY <1>1 DEF Cleared

LEMMA OpenSynchronous ==
  ASSUME TypeOK, Exclusive, Narrative, Chronicle, Synchronous, NEW t \in Turn,
         OpenStream(t) \/ RefuseHistory(t) \/ RefusePrompt(t)
  PROVE  Synchronous'
<1>0. pc[t] = "open"
  BY DEF OpenStream, RefuseHistory, RefusePrompt
<1>1. /\ pc[t] = "open" /\ Active(t) /\ t \notin overtaken
      /\ messages' = messages /\ orderly' = orderly
      /\ (\A u \in Turn : u # t => pc'[u] = pc[u]) /\ (\A r \in Reset : pc'[r] = pc[r])
  BY <1>0, HasSession DEF OpenStream, RefuseHistory, RefusePrompt, TypeOK
<1>2. Cleared'
  BY <1>1, NotCleared
<1>3. Prompt(t) \in Seq(Token) /\ Prompt(t) # <<>>
  BY PromptFacts
<1>4. CASE OpenStream(t)
  <2>1. /\ encoded' = Prompt(t) /\ model' = Kept(t) \o Fed(t) /\ Ordered(snap[t].messages)
        /\ spoilt' = (spoilt /\ Extends(Prompt(t), encoded))
        /\ template' = template /\ snap'[t] = snap[t] /\ toolTurns'[t] = toolTurns[t]
        /\ reply'[t] = reply[t]
    BY <1>4 DEF OpenStream
  <2>2. /\ model' \in Seq(Token) /\ model' # <<>>
        /\ ~spoilt' => model' = Prompt(t)
    BY <1>1, <2>1, FedWhole
  <2>3. Prompt(t)' = Prompt(t)
    BY <2>1, PromptStays
  <2>4. Grown(Prompt(t)', reply'[t].size) = Prompt(t)
    <3>1. reply[t] = NoReply
      BY <1>1 DEF Narrative, NarrativeOf
    <3>2. reply'[t].size = 0
      BY <2>1, <3>1 DEF NoReply
    <3>3. Last(Prompt(t)) = Opening(t) /\ Opening(t).size = 0
      BY PromptFacts
    <3>4. Last(Prompt(t)).size = 0
      BY <3>3
    <3>5. Grown(Prompt(t), 0) = Prompt(t)
      BY <1>3, <3>4, GrownFacts
    <3> QED
      BY <2>3, <3>2, <3>5
  <2>5. ~spoilt' => model' = encoded' /\ encoded' = Grown(Prompt(t)', reply'[t].size)
    BY <2>1, <2>2, <2>4
  <2>6. encoded' # <<>> /\ model' # <<>>
    BY <1>3, <2>1, <2>2
  <2>7. Whole'
    BY <1>1, <2>5, <2>6, WholeByOne
  <2>8. ~spoilt' => model' = encoded'
    BY <2>5
  <2> QED
    BY <1>2, <1>3, <2>1, <2>2, <2>7, <2>8 DEF Synchronous, Typed, Together
<1>5. CASE RefuseHistory(t)
  <2>1. /\ encoded' = <<>> /\ model' = model /\ ~Ordered(snap[t].messages) /\ pc'[t] = "end"
    BY <1>5 DEF RefuseHistory, TypeOK
  <2>2. snap[t].messages = messages /\ Last(messages).role # "assistant" /\ messages # <<>>
    BY <1>1 DEF Chronicle, Cloned, Narrative, NarrativeOf
  <2>3. Refused'
    BY <1>1, <2>1, <2>2 DEF Refused, Ordered
  <2>4. Whole'
    BY <1>1, <2>1, WholeByOne
  <2>5. Typed'
    BY <2>1, EmptySeq DEF Synchronous, Typed
  <2> QED
    BY <1>2, <2>3, <2>4, <2>5 DEF Synchronous, Together
<1>6. CASE RefusePrompt(t)
  <2>1. /\ encoded' = Prompt(t) /\ model' = Kept(t) /\ pc'[t] = "end" /\ Ordered(snap[t].messages)
    BY <1>6 DEF RefusePrompt, TypeOK
  <2>2. /\ Last(Prompt(t)).of = <<"assistant", t, toolTurns[t]>> /\ toolTurns[t] \in Nat
    <3>1. Last(Prompt(t)) = Opening(t)
      BY PromptFacts
    <3>2. Opening(t).of = <<"assistant", t, toolTurns[t]>>
      BY PromptFacts
    <3>3. toolTurns[t] \in Nat
      BY DEF TypeOK, ChatAssumption
    <3> QED
      BY <3>1, <3>2, <3>3
  <2>3. ~Said(t, toolTurns[t])
    <3>1. \A i \in 1 .. Len(messages) : messages[i].role = "assistant" /\ messages[i].by = t
                                          => messages[i].round < toolTurns[t]
      BY <1>1 DEF Chronicle, Rounds, RoundFits
    <3> QED
      BY <2>2, <3>1 DEF Said
  <2>4. ~Said(t, toolTurns[t])'
    BY <1>1, <1>6, <2>3 DEF Said, RefusePrompt
  <2>5. Dead'
    <3>1. toolTurns' = toolTurns
      BY <1>6 DEF RefusePrompt
    <3>2. encoded' # <<>> /\ Last(encoded').of = <<"assistant", t, toolTurns[t]>>
      BY <1>3, <2>1, <2>2
    <3>3. ~\E i \in 1 .. Len(messages') : messages'[i].role = "assistant" /\ messages'[i].by = t
                                           /\ messages'[i].round = toolTurns[t]
      BY <1>1, <2>3 DEF Said
    <3> QED
      BY <2>1, <2>2, <3>2, <3>3 DEF Dead, Said
  <2>6. Whole'
    BY <1>1, <2>1, WholeByOne
  <2>7. Typed'
    BY <1>1, <1>3, <2>1, FedWhole DEF Typed
  <2> QED
    BY <1>2, <2>5, <2>6, <2>7 DEF Synchronous, Together
<1> QED
  BY <1>4, <1>5, <1>6

LEMMA StreamSynchronous ==
  ASSUME TypeOK, Exclusive, Synchronous, NEW t \in Turn,
         Generate(t) \/ Stop(t) \/ FailDecode(t) \/ EndStream(t)
  PROVE  Synchronous'
<1>0. pc[t] = "stream"
  BY DEF Generate, Stop, FailDecode, EndStream
<1>1. /\ pc[t] = "stream" /\ Active(t) /\ template' = template /\ snap' = snap /\ toolTurns' = toolTurns
      /\ (\A u \in Turn : u # t => pc'[u] = pc[u]) /\ (\A r \in Reset : pc'[r] = pc[r])
  BY ZenonT(40), <1>0, HasSession DEF Generate, Stop, FailDecode, EndStream, Output, TypeOK
<1>2. Cleared'
  BY <1>1, NotCleared
<1>3. /\ encoded \in Seq(Token) /\ model \in Seq(Token) /\ encoded # <<>> /\ model # <<>>
      /\ ~spoilt => model = encoded /\ encoded = Grown(Prompt(t), reply[t].size)
      /\ reply[t].size \in Nat
  BY <1>1 DEF Synchronous, Typed, Whole, TypeOK
<1>4. Prompt(t)' = Prompt(t)
  BY <1>1, PromptStays
<1>5. CASE Generate(t)
  <2>1. /\ model' = Grown(model, reply[t].size + 1) /\ encoded' = Grown(encoded, reply[t].size + 1)
        /\ spoilt' = spoilt /\ reply'[t].size = reply[t].size + 1
    BY <1>5 DEF Generate, Output, TypeOK
  <2>2. /\ model' \in Seq(Token) /\ model' # <<>> /\ encoded' \in Seq(Token) /\ encoded' # <<>>
    <3>1. reply[t].size + 1 \in Nat
      BY <1>3
    <3>2. /\ Grown(model, reply[t].size + 1) \in Seq(Token)
          /\ Grown(model, reply[t].size + 1) # <<>>
      BY <1>3, <3>1, GrownFacts
    <3>3. /\ Grown(encoded, reply[t].size + 1) \in Seq(Token)
          /\ Grown(encoded, reply[t].size + 1) # <<>>
      BY <1>3, <3>1, GrownFacts
    <3> QED
      BY <2>1, <3>2, <3>3
  <2>3. ~spoilt => encoded' = Grown(Prompt(t), reply[t].size + 1)
    <3>1. reply[t].size + 1 \in Nat
      BY <1>3
    <3>2. Prompt(t) \in Seq(Token) /\ Prompt(t) # <<>>
      BY PromptFacts
    <3>3. Grown(Grown(Prompt(t), reply[t].size), reply[t].size + 1)
            = Grown(Prompt(t), reply[t].size + 1)
      BY <1>3, <3>1, <3>2, GrownFacts
    <3> QED
      BY <1>3, <2>1, <3>3
  <2>4. ~spoilt' => model' = encoded' /\ encoded' = Grown(Prompt(t)', reply'[t].size)
    BY <1>3, <1>4, <2>1, <2>3
  <2>5. Whole'
    BY <1>1, <2>2, <2>4, WholeByOne
  <2> QED
    BY <1>2, <2>2, <2>4, <2>5 DEF Synchronous, Typed, Together
<1>6. CASE Stop(t)
  <2> DEFINE end == End(Assistant(t, toolTurns[t], 0, FALSE))
  <2>1. model' = Append(model, end) /\ encoded' = Append(encoded, end) /\ spoilt' = spoilt
        /\ pc'[t] # "stream"
    BY <1>6 DEF Stop, Output, TypeOK
  <2>2. end \in Token
    <3>1. 0 \in 0 .. MaxReply /\ toolTurns[t] \in 0 .. ToolTurnLimit /\ FALSE \in BOOLEAN
      BY DEF TypeOK
    <3> QED
      BY <3>1, MessageTypes, SaysTypes
  <2> HIDE DEF end
  <2>3. Typed'
    BY <1>3, <2>1, <2>2, AppendFacts DEF Typed
  <2>4. Whole'
    BY <1>1, <2>1, WholeByOne
  <2>5. ~spoilt' => model' = encoded'
    BY <1>3, <2>1
  <2> QED
    BY <1>2, <2>3, <2>4, <2>5 DEF Synchronous, Together
<1>7. CASE FailDecode(t)
  <2>1. model' = Grown(model, reply[t].size + 1) /\ encoded' = encoded /\ spoilt' = TRUE
        /\ pc'[t] # "stream"
    BY <1>7 DEF FailDecode, TypeOK
  <2>2. Typed'
    <3>1. reply[t].size + 1 \in Nat
      BY <1>3
    <3>2. Grown(model, reply[t].size + 1) \in Seq(Token)
      BY <1>3, <3>1, GrownFacts
    <3> QED
      BY <1>3, <2>1, <3>2 DEF Typed
  <2>3. Whole'
    BY <1>1, <2>1, WholeByOne
  <2> QED
    BY <1>2, <2>1, <2>2, <2>3 DEF Synchronous, Together
<1>8. CASE EndStream(t)
  <2>1. UNCHANGED <<model, encoded, spoilt>> /\ pc'[t] # "stream"
    BY <1>8 DEF EndStream, Output, TypeOK
  <2>2. Whole'
    BY <1>1, <2>1, WholeByOne
  <2> QED
    BY <1>2, <1>3, <2>1, <2>2 DEF Synchronous, Typed, Together
<1> QED
  BY <1>5, <1>6, <1>7, <1>8

LEMMA SynchronousStep ==
  ASSUME TypeOK, Exclusive, Narrative, Chronicle, Synchronous, [Next]_vars PROVE Synchronous'
<1>0. messages \in Seq(Messages) /\ \A t \in Turn : User(t) \in Messages /\ User(t).role = "user"
  BY MessageTypes DEF TypeOK, User
<1>1. ASSUME NEW m, UNCHANGED <<messages, encoded, model, spoilt, template, orderly>>,
             m.role # "assistant",
             \A t \in Turn : pc'[t] = "stream" =>
               /\ pc[t] = "stream" /\ reply'[t] = reply[t] /\ snap'[t] = snap[t]
               /\ toolTurns'[t] = toolTurns[t],
             \A r \in Reset : pc'[r] = "clear" => pc[r] = "clear",
             \A t \in Turn : pc[t] \in {"end", "idle", "done"} => pc'[t] \in {"end", "idle", "done"}
      PROVE  Synchronous'
  BY <1>1, UnchangedIsOld, RefusedStays, QuietStep
<1>2. ASSUME NEW t \in Turn, Begin(t) \/ StartTools(t) \/ EndTurn(t) \/ FinishTools(t)
             \/ AbandonTools(t) \/ FinishTurn(t) \/ Cancel(t)
      PROVE  Synchronous'
  <2>1. UNCHANGED <<messages, encoded, model, spoilt, template, orderly>>
    BY <1>2 DEF Begin, StartTools, EndTurn, FinishTools, AbandonTools, FinishTurn, GoIdle, Cancel
  <2>2. /\ pc'[t] = pc[t] \/ (pc'[t] # "stream" /\ (pc[t] \in {"end", "idle", "done"} => pc'[t] = "done"))
        /\ pc'[t] = pc[t] => UNCHANGED <<reply, snap, toolTurns>>
        /\ \A r \in Reset : pc'[r] = pc[r]
    BY <1>2 DEF Begin, StartTools, EndTurn, FinishTools, AbandonTools, FinishTurn, GoIdle, Cancel, TypeOK
  <2>3. \A u \in Turn : u # t =>
          /\ pc'[u] = pc[u] /\ reply'[u] = reply[u] /\ snap'[u] = snap[u]
          /\ toolTurns'[u] = toolTurns[u]
    BY <1>2 DEF Begin, StartTools, EndTurn, FinishTools, AbandonTools, FinishTurn, GoIdle, Cancel, TypeOK
  <2> QED
    BY <1>0, <1>1, <2>1, <2>2, <2>3
<1>3. ASSUME NEW t \in Turn, ExtendMessages(t) PROVE Synchronous'
  <2> DEFINE m == IF toolTurns[t] = 0 THEN User(t) ELSE ToolResult(t, toolTurns[t])
  <2>1. /\ messages' = Append(messages, m) /\ UNCHANGED <<encoded, model, spoilt, template, orderly>>
        /\ pc'[t] = "open" /\ pc[t] = "extend" /\ UNCHANGED toolTurns
        /\ \A r \in Reset : pc'[r] = pc[r]
        /\ \A u \in Turn : u # t => pc'[u] = pc[u] /\ reply'[u] = reply[u] /\ snap'[u] = snap[u]
    BY <1>3 DEF ExtendMessages, TypeOK
  <2>2. m \in Messages /\ m.role # "assistant"
    BY MessageTypes DEF TypeOK, User, ToolResult
  <2> HIDE DEF m
  <2>3. OldOr(m) /\ (Refused => Refused')
    BY <1>0, <2>1, <2>2, MessagesOf, RefusedGrows
  <2> QED
    BY <2>1, <2>2, <2>3, QuietStep
<1>4. ASSUME NEW t \in Turn, TrimMessages(t) PROVE Synchronous'
  <2>1. /\ UNCHANGED <<encoded, model, spoilt, template, orderly, reply, snap, toolTurns>>
        /\ pc'[t] = "idle" /\ pc[t] = "end" /\ (\A r \in Reset : pc'[r] = pc[r])
        /\ \A u \in Turn : u # t => pc'[u] = pc[u]
        /\ \/ messages' = messages
           \/ messages # <<>> /\ messages' = Front(messages) /\ Last(messages).role = "assistant"
    BY <1>4 DEF TrimMessages, Unresolved, TypeOK
  <2>2. OldOr(User(t))
    BY <1>0, <2>1, MessagesOf
  <2>3. Refused => Refused'
    BY <2>1, RefusedStays DEF Refused
  <2> QED
    BY <1>0, <2>1, <2>2, <2>3, QuietStep
<1>5. ASSUME NEW r \in Reset, BeginReset(r) \/ FinishReset(r) PROVE Synchronous'
  <2>1. /\ UNCHANGED <<messages, encoded, model, spoilt, template, orderly, reply, snap, toolTurns>>
        /\ (\A t \in Turn : pc'[t] = pc[t]) /\ pc'[r] # "clear"
        /\ \A s \in Reset : s # r => pc'[s] = pc[s]
    BY <1>5 DEF BeginReset, FinishReset, GoIdle, TypeOK
  <2>2. [role |-> "user"].role # "assistant"
    OBVIOUS
  <2> QED
    BY <1>1, <2>1, <2>2
<1>6. ASSUME NEW r \in Reset, ClearMessages(r) PROVE Synchronous'
  <2>1. /\ messages' = <<>> /\ UNCHANGED <<encoded, model, spoilt, template, orderly, reply, snap, toolTurns>>
        /\ (\A t \in Turn : pc'[t] = pc[t]) /\ pc'[r] # "clear" /\ pc[r] = "clear"
        /\ \A s \in Reset : s # r => pc'[s] = pc[s]
    BY <1>6 DEF ClearMessages, TypeOK
  <2>2. model = encoded
    BY <2>1 DEF Synchronous, Cleared
  <2>3. OldOr([role |-> "user"]) /\ [role |-> "user"].role # "assistant"
    BY <2>1 DEF OldOr
  <2> QED
    BY <2>1, <2>2, <2>3, QuietStep
<1>7. ASSUME NEW p \in Reset \cup Adder, NEW next, ResetSession(p, next) PROVE Synchronous'
  <2>1. /\ encoded' = <<>> /\ model' = <<>> /\ instance = NoOne
        /\ \A t \in Turn : pc'[t] = pc[t]
    BY <1>7 DEF ResetSession, TypeOK
  <2>2. \A t \in Turn : pc[t] # "stream"
    BY <2>1 DEF Chronicle, Holds
  <2> QED
    BY <2>1, <2>2, EmptySeq DEF Synchronous, Typed, Whole, Together, Cleared
<1>8. ASSUME NEW a \in Adder, AddTools(a) \/ StripTools(a) PROVE Synchronous'
  <2>1. /\ UNCHANGED <<messages, encoded, model, spoilt, template, orderly, reply, snap, toolTurns>>
        /\ \A p \in Turn \cup Reset : pc'[p] = pc[p]
    BY <1>8 DEF AddTools, StripTools, TypeOK
  <2>2. [role |-> "user"].role # "assistant"
    OBVIOUS
  <2> QED
    BY <1>1, <2>1, <2>2
<1>9. CASE UNCHANGED vars
  <2>1. [role |-> "user"].role # "assistant"
    OBVIOUS
  <2> QED
    BY <1>1, <1>9, <2>1 DEF vars
<1> QED
  BY <1>2, <1>3, <1>4, <1>5, <1>6, <1>7, <1>8, <1>9, OpenSynchronous, StreamSynchronous
     DEF Next, TurnStep, ResetStep, AdderStep

\* Whatever was cut, refused, cancelled or reset before, also while tools ran, a
\* turn generates over exactly the history it cloned, unless a token had failed
\* to decode or a turn that a reset overtook goes on.
THEOREM PromptAlwaysWhole == Spec => []PromptIsWhole
<1> DEFINE Layers == Exclusive /\ Narrative /\ Chronicle /\ Synchronous
           IInv == crossed \/ Layers
<1>1. Init => IInv
  <2> SUFFICES ASSUME Init PROVE Layers
    OBVIOUS
  <2>1. Exclusive /\ Narrative
    BY ExclusiveStart, NarrativeStart
  <2>2. Chronicle
    BY DEF Init, Chronicle, Cloned, Rounds, Holds
  <2>3. Synchronous
    BY EmptySeq DEF Init, Synchronous, Typed, Whole, Together, Cleared
  <2> QED
    BY <2>1, <2>2, <2>3
<1>2. TypeOK /\ IInv /\ [Next]_vars => IInv'
  BY ExclusiveStep, NarrativeStep, ChronicleStep, SynchronousStep, CrossedStays
<1>3. IInv => PromptIsWhole
  BY DEF Synchronous, Whole, PromptIsWhole
<1> QED
  BY <1>1, <1>2, <1>3, TypeCorrect, PTL DEF Spec

-----------------------------------------------------------------------------
(* The lock of the token session is given back.                             *)

\* Who holds the token session is a turn that streams, and who streams holds it.
SessionIsStreamed ==
  /\ instance # NoOne => instance \in Turn
  /\ \A t \in Turn : instance = t <=> pc[t] = "stream"

LEMMA SessionIsStreamedStep ==
  ASSUME TypeOK, SessionIsStreamed, [Next]_vars
  PROVE  SessionIsStreamed'
<1> USE DEF SessionIsStreamed, TypeOK, Goto
<1> USE ChatAssumption DEF ChatAssumption
<1>1. ASSUME UNCHANGED <<instance, pc>> PROVE SessionIsStreamed'
  BY <1>1
<1>2. ASSUME NEW p \in Turn \cup Reset \cup Adder, NEW label, pc' = [pc EXCEPT ![p] = label],
             instance' = instance, pc[p] # "stream", label # "stream"
      PROVE  SessionIsStreamed'
  BY <1>2
<1>3. ASSUME NEW t \in Turn, OpenStream(t) PROVE SessionIsStreamed'
  BY <1>3 DEF OpenStream
<1>4. ASSUME NEW t \in Turn, Generate(t) \/ Stop(t) \/ EndStream(t) \/ FailDecode(t)
      PROVE  SessionIsStreamed'
  <2>1. /\ pc[t] = "stream"
        /\ \E label \in Labels : /\ pc' = [pc EXCEPT ![t] = label]
                                 /\ instance' = IF label = "stream" THEN instance ELSE NoOne
    BY <1>4 DEF Generate, Stop, EndStream, FailDecode, Output, Labels, session
  <2> QED BY <2>1
<1>5. ASSUME NEW t \in Turn, Begin(t) \/ ExtendMessages(t) \/ RefuseHistory(t) \/ RefusePrompt(t)
      PROVE  SessionIsStreamed'
  BY <1>2, <1>5 DEF Begin, ExtendMessages, RefuseHistory, RefusePrompt, session
<1>6. ASSUME NEW t \in Turn, StartTools(t) \/ EndTurn(t) \/ FinishTools(t) \/ AbandonTools(t)
      PROVE  SessionIsStreamed'
  BY <1>2, <1>6 DEF StartTools, EndTurn, FinishTools, AbandonTools, session
<1>7. ASSUME NEW t \in Turn, TrimMessages(t) \/ FinishTurn(t) PROVE SessionIsStreamed'
  BY <1>2, <1>7 DEF TrimMessages, FinishTurn, GoIdle, session
<1>8. ASSUME NEW r \in Reset, ResetStep(r) PROVE SessionIsStreamed'
  BY <1>2, <1>8
  DEF ResetStep, BeginReset, ResetSession, ClearMessages, FinishReset, GoIdle, session
<1>9. ASSUME NEW a \in Adder, AdderStep(a) PROVE SessionIsStreamed'
  BY <1>2, <1>9 DEF AdderStep, AddTools, StripTools, ResetSession, session
<1>10. ASSUME NEW t \in Turn, Cancel(t) PROVE SessionIsStreamed'
  BY <1>1, <1>10 DEF Cancel, session
<1>11. CASE UNCHANGED vars
  BY <1>1, <1>11 DEF vars, session
<1> QED
  BY <1>3, <1>4, <1>5, <1>6, <1>7, <1>8, <1>9, <1>10, <1>11 DEF Next, TurnStep

\* Turns, resets and add_tools wait for the token session only while a turn streams: no
\* refused prompt, lost reader, decoding error or cancellation keeps its lock, and no two
\* streams share it, even if a reset while tools run lets two turns go on side by side.
THEOREM SessionAlwaysStreamed == Spec => []SessionIsStreamed
<1>1. Init => SessionIsStreamed
  BY ChatAssumption DEF ChatAssumption, Init, SessionIsStreamed
<1>2. TypeOK /\ SessionIsStreamed /\ [Next]_vars => SessionIsStreamed'
  BY SessionIsStreamedStep
<1> QED BY <1>1, <1>2, TypeCorrect, PTL DEF Spec
=============================================================================
