-------------------------- MODULE StorageItemProofs --------------------------
(***************************************************************************)
(* Theorems about StorageItem, for any number of files and users, any      *)
(* capacity of the channels and any files that others share.               *)
(*                                                                         *)
(* The argument has five layers: control (where an operation is, when the  *)
(* item has its tasks, when it has a listener and for whom), the tasks,    *)
(* the messages (what the listener knows of the tasks), the progress of a  *)
(* download, and the answer to a resume.                                   *)
(***************************************************************************)
EXTENDS StorageItem, SequenceTheorems, TLAPS

USE ItemAssumption DEF ItemAssumption, files, tasks, item, hearing, call, locals, users

-----------------------------------------------------------------------------
(* What tasks publish.                                                      *)

\* A receiver has room, and what came last is what it hears.
LEMMA ReceivedFacts ==
  ASSUME NEW queue \in Seq(Phase), Len(queue) <= Capacity, NEW phase \in Phase
  PROVE  /\ Received(queue, phase) \in Seq(Phase) /\ Len(Received(queue, phase)) <= Capacity
         /\ Received(queue, phase) # <<>> /\ Last(Received(queue, phase)) = phase
<1> DEFINE rest == IF Len(queue) = Capacity THEN Tail(queue) ELSE queue
<1>1. rest \in Seq(Phase) /\ Len(rest) < Capacity
  <2>1. CASE Len(queue) = Capacity
    <3>1. queue # <<>>
      BY <2>1, EmptySeq
    <3> QED
      BY <2>1, <3>1, HeadTailProperties
  <2>2. CASE Len(queue) # Capacity
    BY <2>2, LenProperties
  <2> QED
    BY <2>1, <2>2
<1>2. /\ Append(rest, phase) \in Seq(Phase) /\ Append(rest, phase) # <<>>
      /\ Len(Append(rest, phase)) = Len(rest) + 1
      /\ Append(rest, phase)[Len(rest) + 1] = phase /\ Len(rest) \in Nat
  BY <1>1, AppendProperties, LenProperties
<1> QED
  BY <1>1, <1>2 DEF Received, Last

LEMMA PublicIsPhase ==
  ASSUME TypeOK, NEW f \in File
  PROVE  Public(f) \in Phase
BY DEF TypeOK, Public, Phase

LEMMA PublishFacts ==
  ASSUME TypeOK, NEW some, Publish(some), \A f \in File : Public(f)' \in Phase
  PROVE  /\ unread' \in [File -> Seq(Phase)]
         /\ \A f \in File : Len(unread'[f]) <= Capacity
         /\ \A f \in File : IF f \in some \cap subscribed
                            THEN unread'[f] # <<>> /\ Last(unread'[f]) = Public(f)'
                            ELSE unread'[f] = unread[f]
<1>1. \A f \in File : f \in some \cap subscribed => unread'[f] = Received(unread[f], Public(f)')
  BY DEF Publish
<1>2. \A f \in File : f \notin some \cap subscribed => unread'[f] = unread[f]
  BY DEF Publish
<1>3. \A f \in File : unread[f] \in Seq(Phase) /\ Len(unread[f]) <= Capacity
  BY DEF TypeOK
<1>4. ASSUME NEW f \in File, f \in some \cap subscribed
      PROVE  /\ unread'[f] \in Seq(Phase) /\ Len(unread'[f]) <= Capacity
             /\ unread'[f] # <<>> /\ Last(unread'[f]) = Public(f)'
  <2>1. \A phase \in Phase : LET queue == Received(unread[f], phase)
                            IN  /\ queue \in Seq(Phase) /\ Len(queue) <= Capacity
                                /\ queue # <<>> /\ Last(queue) = phase
    BY <1>3, ReceivedFacts
  <2>2. Public(f)' \in Phase /\ unread'[f] = Received(unread[f], Public(f)')
    BY <1>1, <1>4
  <2> QED
    BY <2>1, <2>2
<1>5. \A f \in File : unread'[f] \in Seq(Phase) /\ Len(unread'[f]) <= Capacity
  BY <1>2, <1>3, <1>4
<1>6. unread' = [f \in File |-> unread'[f]]
  BY DEF Publish
<1> QED
  BY <1>2, <1>4, <1>5, <1>6

LEMMA ReducedIsPhase ==
  ASSUME NEW states
  PROVE  Reduce(states) \in Phase
BY DEF Reduce, Phase

-----------------------------------------------------------------------------
(* Types.                                                                   *)

LEMMA MadeTasks ==
  ASSUME TypeOK, NEW some, MakeTasks(some)
  PROVE  /\ life' \in [File -> {"NotDownloaded", "Downloading", "Paused", "Downloaded"}]
         /\ projection' \in [File -> {"None", "Locked", "Error"}]
         /\ task' \in [File -> {"none", "live", "dead", "culled"}]
<1>1. \A f \in File : InitialLife(f) \in {"NotDownloaded", "Downloading", "Paused", "Downloaded"}
  BY DEF InitialLife, TypeOK
<1> QED
  BY <1>1 DEF MakeTasks, Become, TypeOK

\* What Next is made of.
LEMMA TypesStep ==
  ASSUME TypeOK, [Next]_vars
  PROVE  TypeOK'
<1>1. ASSUME NEW f \in File, Complete(f) PROVE TypeOK'
  <2>1. /\ life' \in [File -> {"NotDownloaded", "Downloading", "Paused", "Downloaded"}]
        /\ UNCHANGED projection /\ lease' \in [File -> {"free", "ours", "others"}]
        /\ disk' \in [File -> {"none", "part", "whole"}]
    BY <1>1 DEF Complete, TypeOK
  <2>2. \A g \in File : Public(g)' \in Phase
    BY <2>1 DEF Public, Phase, TypeOK
  <2>3. unread' \in [File -> Seq(Phase)] /\ \A g \in File : Len(unread'[g]) <= Capacity
    BY <1>1, <2>2, PublishFacts DEF Complete
  <2> QED
    BY <1>1, <2>1, <2>3 DEF Complete, TypeOK
<1>2. ASSUME NEW f \in File, Break(f) PROVE TypeOK'
  <2>1. /\ life' \in [File -> {"NotDownloaded", "Downloading", "Paused", "Downloaded"}]
        /\ projection' \in [File -> {"None", "Locked", "Error"}]
        /\ lease' \in [File -> {"free", "ours", "others"}]
        /\ disk' \in [File -> {"none", "part", "whole"}]
    BY <1>2 DEF Break, TypeOK
  <2>2. \A g \in File : Public(g)' \in Phase
    BY <2>1 DEF Public, Phase
  <2>3. unread' \in [File -> Seq(Phase)] /\ \A g \in File : Len(unread'[g]) <= Capacity
    BY <1>2, <2>2, PublishFacts DEF Break
  <2> QED
    BY <1>2, <2>1, <2>3 DEF Break, TypeOK
<1>3. ASSUME NEW f \in File, OthersAcquire(f) PROVE TypeOK'
  BY <1>3 DEF OthersAcquire, TypeOK, Phase
<1>4. ASSUME NEW f \in File, OthersRelease(f) PROVE TypeOK'
  <2>1. PICK left \in {disk[f], "whole"} : disk' = [disk EXCEPT ![f] = left]
    BY <1>4 DEF OthersRelease
  <2>2. /\ disk' \in [File -> {"none", "part", "whole"}]
        /\ lease' \in [File -> {"free", "ours", "others"}]
    BY <1>4, <2>1 DEF OthersRelease, TypeOK
  <2> QED
    BY <1>4, <2>2 DEF OthersRelease, TypeOK
<1>5. ASSUME Hear PROVE TypeOK'
  <2>1. \A f \in File : unread[f] # <<>> => Last(unread[f]) \in Phase
    BY EmptySeq, LenProperties, ElementOfSeq DEF TypeOK, Last
  <2>2. cache' \in [File -> Phase] \cup {<<>>}
    BY <1>5, <2>1 DEF Hear, TypeOK
  <2>3. unread' \in [File -> Seq(Phase)] /\ \A f \in File : Len(unread'[f]) <= Capacity
    BY <1>5, EmptySeq DEF Hear, Become, TypeOK
  <2>4. told' \in Phase
    BY <1>5, ReducedIsPhase DEF Hear
  <2> QED
    BY <1>5, <2>2, <2>3, <2>4 DEF Hear, TypeOK
<1>6. ASSUME TellState PROVE TypeOK'
  BY <1>6 DEF TellState, Tell, TypeOK, Phase
<1>7. ASSUME NEW u \in User, Resume(u) PROVE TypeOK'
  BY <1>7 DEF Resume, TypeOK, Phase
<1>8. ASSUME NEW u \in User, Subscribe(u) PROVE TypeOK'
  BY <1>8 DEF Subscribe, Enter, TypeOK, Phase
<1>9. ASSUME NEW u \in User, NEW what \in {"pause", "delete"}, Ask(u, what) PROVE TypeOK'
  BY <1>9 DEF Ask, Enter, TypeOK, Phase
<1>10. ASSUME NEW u \in User, Observe(u) PROVE TypeOK'
  BY <1>10 DEF Observe, TypeOK, Phase
<1>11. ASSUME EnsureFileTasks PROVE TypeOK'
  <2>1. CASE held /\ Proceed("look") /\ UNCHANGED <<tasks, held>>
    BY <1>11, <2>1 DEF EnsureFileTasks, Proceed, TypeOK
  <2>2. CASE ~held /\ MakeTasks(File) /\ held' = TRUE /\ GoOn("stop", "look")
    <3>1. /\ life' \in [File -> {"NotDownloaded", "Downloading", "Paused", "Downloaded"}]
        /\ projection' \in [File -> {"None", "Locked", "Error"}]
        /\ task' \in [File -> {"none", "live", "dead", "culled"}]
      BY <2>2, MadeTasks
    <3> QED
      BY <1>11, <2>2, <3>1 DEF EnsureFileTasks, GoOn, TypeOK
  <2>3. CASE ~held /\ (\E n \in File : MakeTasks(1 .. n - 1)) /\ GiveUp /\ UNCHANGED held
    <3>1. /\ life' \in [File -> {"NotDownloaded", "Downloading", "Paused", "Downloaded"}]
        /\ projection' \in [File -> {"None", "Locked", "Error"}]
        /\ task' \in [File -> {"none", "live", "dead", "culled"}]
      BY <2>3, MadeTasks
    <3> QED
      BY <1>11, <2>3, <3>1 DEF EnsureFileTasks, GiveUp, Return, TypeOK
  <2> QED
    BY <1>11, <2>1, <2>2, <2>3 DEF EnsureFileTasks
<1>12. ASSUME StopListening PROVE TypeOK'
  <2>1. unread' \in [File -> Seq(Phase)] /\ \A f \in File : Len(unread'[f]) <= Capacity
    BY <1>12, EmptySeq DEF StopListening
  <2> QED
    BY <1>12, <2>1 DEF StopListening, Return, GiveUp, Proceed, GoOn, TypeOK, Phase
<1>13. ASSUME SubscribeToNext PROVE TypeOK'
  <2>1. Len(fresh) + 1 \in File
    BY LenProperties DEF TypeOK, File
  <2> QED
    BY <1>13, <2>1 DEF SubscribeToNext, Proceed, TypeOK
<1>14. ASSUME ReadState PROVE TypeOK'
  <2>1. Len(fresh) + 1 \in File /\ Len(fresh) \in Nat
    BY LenProperties DEF TypeOK, File
  <2>2. Public(Len(fresh) + 1) \in Phase
    BY <2>1, PublicIsPhase
  <2> DEFINE read == Append(fresh, Public(Len(fresh) + 1))
  <2>3. read \in Seq(Phase) /\ Len(read) = Len(fresh) + 1
    BY <2>2, AppendProperties DEF TypeOK
  <2>4. CASE Len(read) < Files
    BY <1>14, <2>3, <2>4 DEF ReadState, Proceed, TypeOK
  <2>5. CASE ~(Len(read) < Files)
    <3>1. Len(read) = Files
      BY <2>1, <2>3, <2>5 DEF File
    <3>2. read \in [File -> Phase]
      BY <2>3, <3>1, LenProperties DEF File
    <3>3. cache' = read /\ fresh' = <<>> /\ listener' = "wait"
      BY <1>14, <2>5 DEF ReadState
    <3>4. fresh' \in Seq(Phase) /\ Len(fresh') < Files
      BY <3>3, EmptySeq
    <3> QED
      BY <1>14, <2>5, <3>2, <3>3, <3>4 DEF ReadState, GoOn, TypeOK
  <2> QED
    BY <2>4, <2>5
<1>15. ASSUME Look PROVE TypeOK'
  BY <1>15 DEF Look, Return, GiveUp, Proceed, GoOn, TypeOK, Phase
<1>16. ASSUME EnsureDownloading PROVE TypeOK'
  <2>1. /\ life' \in [File -> {"NotDownloaded", "Downloading", "Paused", "Downloaded"}]
        /\ projection' \in [File -> {"None", "Locked", "Error"}]
        /\ lease' \in [File -> {"free", "ours", "others"}]
        /\ disk' \in [File -> {"none", "part", "whole"}]
        /\ task' \in [File -> {"none", "live", "dead", "culled"}]
    BY <1>16 DEF EnsureDownloading, Startable, Live, Become, TypeOK
  <2>2. \A g \in File : Public(g)' \in Phase
    BY <2>1 DEF Public, Phase
  <2>3. unread' \in [File -> Seq(Phase)] /\ \A g \in File : Len(unread'[g]) <= Capacity
    BY <1>16, <2>2, PublishFacts DEF EnsureDownloading
  <2>4. GoOn("stop", "report") \/ GiveUp
    BY <1>16 DEF EnsureDownloading
  <2>5. holder' \in {holder, NoOne} /\ op' \in {op, "none"}
    BY <2>4 DEF GiveUp, Return, GoOn
  <2>6. /\ pc' \in [User -> {"idle", "download", "restart", "resuming", "waiting", "calling"}]
        /\ noticed' \in [User -> BOOLEAN]
    BY <2>4 DEF GiveUp, Return, GoOn, TypeOK
  <2> QED
    BY <1>16, <2>1, <2>3, <2>5, <2>6 DEF EnsureDownloading, TypeOK
<1>17. ASSUME EnsurePaused PROVE TypeOK'
  <2>1. /\ life' \in [File -> {"NotDownloaded", "Downloading", "Paused", "Downloaded"}]
        /\ projection' \in [File -> {"None", "Locked", "Error"}]
        /\ lease' \in [File -> {"free", "ours", "others"}]
        /\ disk' \in [File -> {"none", "part", "whole"}]
        /\ task' \in [File -> {"none", "live", "dead", "culled"}]
    BY <1>17 DEF EnsurePaused, Downloading, Live, Become, TypeOK
  <2>2. \A g \in File : Public(g)' \in Phase
    BY <2>1 DEF Public, Phase
  <2>3. unread' \in [File -> Seq(Phase)] /\ \A g \in File : Len(unread'[g]) <= Capacity
    BY <1>17, <2>2, PublishFacts DEF EnsurePaused
  <2>4. Proceed("store") \/ GiveUp
    BY <1>17 DEF EnsurePaused
  <2>5. holder' \in {holder, NoOne} /\ op' \in {op, "none"}
    BY <2>4 DEF GiveUp, Return, Proceed
  <2>6. /\ pc' \in [User -> {"idle", "download", "restart", "resuming", "waiting", "calling"}]
        /\ noticed' \in [User -> BOOLEAN]
    BY <2>4 DEF GiveUp, Return, Proceed, TypeOK
  <2> QED
    BY <1>17, <2>1, <2>3, <2>5, <2>6 DEF EnsurePaused, TypeOK
<1>18. ASSUME StoreStates PROVE TypeOK'
  <2>1. [f \in File |-> Public(f)] \in [File -> Phase]
    BY PublicIsPhase
  <2> QED
    BY <1>18, <2>1 DEF StoreStates, Proceed, TypeOK
<1>19. ASSUME Report PROVE TypeOK'
  BY <1>19, ReducedIsPhase DEF Report, Proceed, TypeOK
<1>20. ASSUME WriteState PROVE TypeOK'
  BY <1>20 DEF WriteState, Tell, Return, GiveUp, Proceed, GoOn, TypeOK, Phase
<1>21. ASSUME CancelAndRemove PROVE TypeOK'
  <2>1. /\ life' \in [File -> {"NotDownloaded", "Downloading", "Paused", "Downloaded"}]
        /\ projection' \in [File -> {"None", "Locked", "Error"}]
        /\ lease' \in [File -> {"free", "ours", "others"}]
        /\ disk' \in [File -> {"none", "part", "whole"}]
        /\ task' \in [File -> {"none", "live", "dead", "culled"}]
    BY <1>21 DEF CancelAndRemove, Cancel, Mine, Become, TypeOK
  <2>2. \A g \in File : Public(g)' \in Phase
    BY <2>1 DEF Public, Phase
  <2>3. unread' \in [File -> Seq(Phase)] /\ \A g \in File : Len(unread'[g]) <= Capacity
    BY <1>21, <2>2, PublishFacts DEF CancelAndRemove, Cancel
  <2>4. \E next, later : Proceed(next) \/ GoOn(next, later) \/ GiveUp
    BY <1>21 DEF CancelAndRemove
  <2>5. holder' \in {holder, NoOne} /\ op' \in {op, "none"}
    BY <2>4 DEF Proceed, GoOn, GiveUp, Return
  <2>6. /\ pc' \in [User -> {"idle", "download", "restart", "resuming", "waiting", "calling"}]
        /\ noticed' \in [User -> BOOLEAN]
    BY <2>4 DEF Proceed, GoOn, GiveUp, Return, TypeOK
  <2> QED
    BY <1>21, <2>1, <2>3, <2>5, <2>6 DEF CancelAndRemove, TypeOK
<1>22. ASSUME Clear PROVE TypeOK'
  <2>1. /\ life' \in [File -> {"NotDownloaded", "Downloading", "Paused", "Downloaded"}]
        /\ projection' \in [File -> {"None", "Locked", "Error"}]
        /\ task' \in [File -> {"none", "live", "dead", "culled"}] /\ held' = FALSE
    BY <1>22 DEF Clear, DropTasks, TypeOK
  <2>2. "NotDownloaded" \in Phase
    BY DEF Phase
  <2>3. /\ holder' \in User \cup {Engine, NoOne}
        /\ op' \in {"none", "download", "restart", "pause", "delete", "refresh"}
        /\ pc' \in [User -> {"idle", "download", "restart", "resuming", "waiting", "calling"}]
        /\ noticed' \in [User -> BOOLEAN]
    BY <1>22 DEF Clear, Return, GiveUp, Proceed, GoOn, TypeOK
  <2>4. /\ folder' \in BOOLEAN /\ listed' \in BOOLEAN /\ held' \in BOOLEAN
        /\ state' \in {state, "NotDownloaded"} /\ told' = told /\ found' = found /\ cache' = <<>>
    BY <1>22, <2>1 DEF Clear, TypeOK
  <2>5. {state', told', found'} \subseteq Phase
    BY <2>2, <2>4 DEF TypeOK
  <2> QED
    BY <1>22, <2>1, <2>3, <2>4, <2>5 DEF Clear, TypeOK
<1>23. ASSUME EraseFolder PROVE TypeOK'
  BY <1>23 DEF EraseFolder, Return, GiveUp, Proceed, GoOn, TypeOK, Phase
<1>24. ASSUME Forget PROVE TypeOK'
  <2>1. /\ life' \in [File -> {"NotDownloaded", "Downloading", "Paused", "Downloaded"}]
        /\ projection' \in [File -> {"None", "Locked", "Error"}]
        /\ task' \in [File -> {"none", "live", "dead", "culled"}] /\ held' = FALSE
    BY <1>24 DEF Forget, DropTasks, TypeOK
  <2>2. "NotDownloaded" \in Phase
    BY DEF Phase
  <2>3. /\ holder' \in User \cup {Engine, NoOne}
        /\ op' \in {"none", "download", "restart", "pause", "delete", "refresh"}
        /\ pc' \in [User -> {"idle", "download", "restart", "resuming", "waiting", "calling"}]
        /\ noticed' \in [User -> BOOLEAN]
    BY <1>24 DEF Forget, Return, GiveUp, Proceed, GoOn, TypeOK
  <2>4. /\ folder' \in BOOLEAN /\ listed' \in BOOLEAN /\ held' \in BOOLEAN
        /\ state' \in {state, "NotDownloaded"} /\ told' = told /\ found' = found /\ cache' = <<>>
    BY <1>24, <2>1 DEF Forget, TypeOK
  <2>5. {state', told', found'} \subseteq Phase
    BY <2>2, <2>4 DEF TypeOK
  <2> QED
    BY <1>24, <2>1, <2>3, <2>4, <2>5 DEF Forget, TypeOK
<1>25. ASSUME AddItem PROVE TypeOK'
  <2>1. CASE listed' = TRUE /\ GiveUp /\ UNCHANGED <<tasks, held>>
    BY <1>25, <2>1 DEF AddItem, GiveUp, Return, TypeOK
  <2>2. CASE MakeTasks(File) /\ held' = TRUE /\ GoOn("listen", "report") /\ UNCHANGED listed
    <3>1. /\ life' \in [File -> {"NotDownloaded", "Downloading", "Paused", "Downloaded"}]
        /\ projection' \in [File -> {"None", "Locked", "Error"}]
        /\ task' \in [File -> {"none", "live", "dead", "culled"}]
      BY <2>2, MadeTasks
    <3> QED
      BY <1>25, <2>2, <3>1 DEF AddItem, GoOn, TypeOK
  <2>3. CASE (\E n \in File : MakeTasks(1 .. n - 1)) /\ GiveUp /\ UNCHANGED <<listed, held>>
    <3>1. /\ life' \in [File -> {"NotDownloaded", "Downloading", "Paused", "Downloaded"}]
        /\ projection' \in [File -> {"None", "Locked", "Error"}]
        /\ task' \in [File -> {"none", "live", "dead", "culled"}]
      BY <2>3, MadeTasks
    <3> QED
      BY <1>25, <2>3, <3>1 DEF AddItem, GiveUp, Return, TypeOK
  <2> QED
    BY <1>25, <2>1, <2>2, <2>3 DEF AddItem
<1>26. ASSUME Tidy PROVE TypeOK'
  BY <1>26 DEF Tidy, Return, GiveUp, Proceed, GoOn, TypeOK, Phase
<1>27. ASSUME Refresh PROVE TypeOK'
  <2>1. /\ life' \in [File -> {"NotDownloaded", "Downloading", "Paused", "Downloaded"}]
        /\ projection' \in [File -> {"None", "Locked", "Error"}]
        /\ lease' \in [File -> {"free", "ours", "others"}]
        /\ disk' \in [File -> {"none", "part", "whole"}]
        /\ task' \in [File -> {"none", "live", "dead", "culled"}]
    BY <1>27 DEF Refresh, Cancel, Failed, Become, TypeOK
  <2>2. \A g \in File : Public(g)' \in Phase
    BY <2>1 DEF Public, Phase
  <2>3. unread' \in [File -> Seq(Phase)] /\ \A g \in File : Len(unread'[g]) <= Capacity
    BY <1>27, <2>2, PublishFacts DEF Refresh, Cancel
  <2> QED
    BY <1>27, <2>1, <2>3 DEF Refresh, Return, GiveUp, Proceed, GoOn, Enter, TypeOK
<1>28. CASE UNCHANGED vars
  BY <1>28 DEF vars, TypeOK
<1> QED
  BY <1>1, <1>2, <1>3, <1>4, <1>5, <1>6, <1>7, <1>8, <1>9, <1>10, <1>11, <1>12, <1>13,
       <1>14, <1>15, <1>16, <1>17, <1>18, <1>19, <1>20, <1>21, <1>22, <1>23, <1>24,
       <1>25, <1>26, <1>27, <1>28
     DEF Next, TaskStep, Others, Listen, Operate, UserStep

LEMMA TypesInit == Init => TypeOK
<1> SUFFICES ASSUME Init PROVE TypeOK
  OBVIOUS
<1>1. PICK locked \in SUBSET Shared :
            lease = [f \in File |-> IF f \in locked THEN "others" ELSE "free"]
  BY DEF Init
<1>2. /\ <<>> \in Seq(Phase) /\ Len(<<>>) = 0
      /\ lease \in [File -> {"free", "ours", "others"}]
  BY <1>1, EmptySeq
<1>3. folder \in BOOLEAN
  BY DEF Init
<1>4. \A phase \in {"NotDownloaded"} : phase \in Phase
  BY DEF Phase
<1>5. cache \in [File -> Phase] \cup {<<>>} /\ {state, told, found} \subseteq Phase
  BY <1>4 DEF Init
<1>6. /\ fresh \in Seq(Phase) /\ Len(fresh) < Files
      /\ unread \in [File -> Seq(Phase)] /\ \A f \in File : Len(unread[f]) <= Capacity
  BY <1>2 DEF Init
<1> QED
  BY <1>2, <1>3, <1>5, <1>6 DEF Init, TypeOK

\* Every reachable state is well typed: no state is lost on its way from a task.
THEOREM TypeCorrect == Spec => []TypeOK
<1>1. Init => TypeOK
  BY TypesInit
<1>2. TypeOK /\ [Next]_vars => TypeOK'
  BY TypesStep
<1> QED
  BY <1>1, <1>2, PTL DEF Spec

-----------------------------------------------------------------------------
(* Control.                                                                 *)

\* Where the operation at work may be, and where it goes then.
UserOp == {"download", "restart", "pause", "delete"}
Route ==
  \/ holder = NoOne /\ op = "none" /\ at = "none" /\ then = "none"
  \/ /\ holder \in User /\ op \in UserOp
     /\ \/ at \in {"ensure", "look", "begin"} /\ then = "none"
        \/ at \in {"stop", "listen", "read"} /\ then = "look"
        \/ op = "download" /\ at = "ensure" /\ then = "clear" /\ ~held
        \/ op = "download" /\ at \in {"stop", "listen", "read"} /\ then = "report"
        \/ op = "download" /\ at \in {"report", "write"} /\ then = "none"
        \/ op = "pause" /\ at \in {"store", "report", "write"} /\ then = "none"
        \/ /\ op \in {"delete", "restart"} /\ then = "clear"
           /\ at \in {"stop", "clear", "erase", "write"}
  \/ /\ holder = Engine /\ op = "refresh"
     /\ \/ at \in {"begin", "add", "clear", "report", "write", "tidy"} /\ then = "none"
        \/ at \in {"stop", "gone"} /\ then = "gone"
        \/ at \in {"listen", "read"} /\ then = "report"

\* When the item has its tasks.
Erasing == at \in {"erase", "write"} /\ then = "clear"
Holds ==
  /\ at \in {"look", "listen", "read", "store", "report", "tidy"} => held
  /\ at = "write" /\ then = "none" => held
  /\ at = "begin" /\ op # "refresh" => held
  /\ at = "stop" /\ then # "gone" => held
  /\ at = "clear" /\ op # "refresh" => held
  /\ at = "add" \/ Erasing => ~held
  /\ held /\ at = "none" => listed
  /\ op \in UserOp => listed

\* Every step of an operation leads to a place of it.
LEMMA RouteStep ==
  ASSUME TypeOK, Route, Holds, [Next]_vars
  PROVE  Route'
<1>1. ASSUME NEW f \in File, Complete(f) PROVE Route'
  BY <1>1 DEF Complete, Route, UserOp
<1>2. ASSUME NEW f \in File, Break(f) PROVE Route'
  BY <1>2 DEF Break, Route, UserOp
<1>3. ASSUME NEW f \in File, OthersAcquire(f) PROVE Route'
  BY <1>3 DEF OthersAcquire, Route, UserOp
<1>4. ASSUME NEW f \in File, OthersRelease(f) PROVE Route'
  BY <1>4 DEF OthersRelease, Route, UserOp
<1>5. ASSUME Hear PROVE Route'
  BY <1>5 DEF Hear, Route, UserOp
<1>6. ASSUME TellState PROVE Route'
  BY <1>6 DEF TellState, Tell, Route, UserOp
<1>7. ASSUME NEW u \in User, Resume(u) PROVE Route'
  BY <1>7 DEF Resume, Route, UserOp
<1>8. ASSUME NEW u \in User, Subscribe(u) PROVE Route'
  BY <1>8 DEF Subscribe, Enter, Route, UserOp
<1>9. ASSUME NEW u \in User, NEW what \in {"pause", "delete"}, Ask(u, what) PROVE Route'
  BY <1>9 DEF Ask, Enter, Route, UserOp
<1>10. ASSUME NEW u \in User, Observe(u) PROVE Route'
  BY <1>10 DEF Observe, Route, UserOp
<1>11. ASSUME EnsureFileTasks PROVE Route'
  BY <1>11 DEF EnsureFileTasks, GiveUp, Return, Proceed, GoOn, Route, UserOp
<1>12. ASSUME StopListening PROVE Route'
  BY <1>12 DEF StopListening, Proceed, Route, UserOp
<1>13. ASSUME SubscribeToNext PROVE Route'
  BY <1>13 DEF SubscribeToNext, Proceed, Route, UserOp
<1>14. ASSUME ReadState PROVE Route'
  BY <1>14 DEF ReadState, Proceed, GoOn, Route, UserOp
<1>15. ASSUME Look PROVE Route'
  BY <1>15 DEF Look, GiveUp, Return, Proceed, Route, UserOp
<1>16. ASSUME EnsureDownloading PROVE Route'
  BY <1>16 DEF EnsureDownloading, GiveUp, Return, GoOn, Route, UserOp
<1>17. ASSUME EnsurePaused PROVE Route'
  BY <1>17 DEF EnsurePaused, GiveUp, Return, Proceed, Route, UserOp
<1>18. ASSUME StoreStates PROVE Route'
  BY <1>18 DEF StoreStates, Proceed, Route, UserOp
<1>19. ASSUME Report PROVE Route'
  BY <1>19 DEF Report, Proceed, Route, UserOp
<1>20. ASSUME WriteState PROVE Route'
  BY <1>20 DEF WriteState, Tell, Return, Proceed, Holds, Erasing, Route, UserOp
<1>21. ASSUME CancelAndRemove PROVE Route'
  BY <1>21 DEF CancelAndRemove, GiveUp, Return, Proceed, GoOn, Route, UserOp
<1>22. ASSUME Clear PROVE Route'
  BY <1>22 DEF Clear, DropTasks, Proceed, GoOn, Route, UserOp
<1>23. ASSUME EraseFolder PROVE Route'
  BY <1>23 DEF EraseFolder, Proceed, Route, UserOp
<1>24. ASSUME Forget PROVE Route'
  BY <1>24 DEF Forget, DropTasks, GiveUp, Return, Route, UserOp
<1>25. ASSUME AddItem PROVE Route'
  BY <1>25 DEF AddItem, GiveUp, Return, GoOn, Route, UserOp
<1>26. ASSUME Tidy PROVE Route'
  BY <1>26 DEF Tidy, GiveUp, Return, Route, UserOp
<1>27. ASSUME Refresh PROVE Route'
  BY <1>27 DEF Refresh, Enter, Route, UserOp
<1>28. CASE UNCHANGED vars
  BY <1>28 DEF vars, Route, UserOp
<1> QED
  BY <1>1, <1>2, <1>3, <1>4, <1>5, <1>6, <1>7, <1>8, <1>9, <1>10, <1>11, <1>12, <1>13,
       <1>14, <1>15, <1>16, <1>17, <1>18, <1>19, <1>20, <1>21, <1>22, <1>23, <1>24,
       <1>25, <1>26, <1>27, <1>28
     DEF Next, TaskStep, Others, Listen, Operate, UserStep

\* The item has its tasks where the operation works with them.
LEMMA HoldsStep ==
  ASSUME TypeOK, Route, Holds, [Next]_vars
  PROVE  Holds'
<1>1. ASSUME NEW f \in File, Complete(f) PROVE Holds'
  BY <1>1 DEF Complete, Route, UserOp, Holds, Erasing
<1>2. ASSUME NEW f \in File, Break(f) PROVE Holds'
  BY <1>2 DEF Break, Route, UserOp, Holds, Erasing
<1>3. ASSUME NEW f \in File, OthersAcquire(f) PROVE Holds'
  BY <1>3 DEF OthersAcquire, Route, UserOp, Holds, Erasing
<1>4. ASSUME NEW f \in File, OthersRelease(f) PROVE Holds'
  BY <1>4 DEF OthersRelease, Route, UserOp, Holds, Erasing
<1>5. ASSUME Hear PROVE Holds'
  BY <1>5 DEF Hear, Route, UserOp, Holds, Erasing
<1>6. ASSUME TellState PROVE Holds'
  BY <1>6 DEF TellState, Tell, Route, UserOp, Holds, Erasing
<1>7. ASSUME NEW u \in User, Resume(u) PROVE Holds'
  BY <1>7 DEF Resume, Route, UserOp, Holds, Erasing
<1>8. ASSUME NEW u \in User, Subscribe(u) PROVE Holds'
  BY <1>8 DEF Subscribe, Enter, Route, UserOp, Holds, Erasing
<1>9. ASSUME NEW u \in User, NEW what \in {"pause", "delete"}, Ask(u, what) PROVE Holds'
  BY <1>9 DEF Ask, Enter, Route, UserOp, Holds, Erasing
<1>10. ASSUME NEW u \in User, Observe(u) PROVE Holds'
  BY <1>10 DEF Observe, Route, UserOp, Holds, Erasing
<1>11. ASSUME EnsureFileTasks PROVE Holds'
  BY <1>11 DEF EnsureFileTasks, GiveUp, Return, Proceed, GoOn, Route, UserOp, Holds, Erasing
<1>12. ASSUME StopListening PROVE Holds'
  BY <1>12 DEF StopListening, Proceed, Route, UserOp, Holds, Erasing
<1>13. ASSUME SubscribeToNext PROVE Holds'
  BY <1>13 DEF SubscribeToNext, Proceed, Route, UserOp, Holds, Erasing
<1>14. ASSUME ReadState PROVE Holds'
  BY <1>14 DEF ReadState, Proceed, GoOn, Route, UserOp, Holds, Erasing
<1>15. ASSUME Look PROVE Holds'
  BY <1>15 DEF Look, GiveUp, Return, Proceed, Route, UserOp, Holds, Erasing
<1>16. ASSUME EnsureDownloading PROVE Holds'
  BY <1>16 DEF EnsureDownloading, GiveUp, Return, GoOn, Route, UserOp, Holds, Erasing
<1>17. ASSUME EnsurePaused PROVE Holds'
  BY <1>17 DEF EnsurePaused, GiveUp, Return, Proceed, Route, UserOp, Holds, Erasing
<1>18. ASSUME StoreStates PROVE Holds'
  BY <1>18 DEF StoreStates, Proceed, Route, UserOp, Holds, Erasing
<1>19. ASSUME Report PROVE Holds'
  BY <1>19 DEF Report, Proceed, Route, UserOp, Holds, Erasing
<1>20. ASSUME WriteState PROVE Holds'
  BY <1>20 DEF WriteState, Tell, Return, Proceed, Route, UserOp, Holds, Erasing
<1>21. ASSUME CancelAndRemove PROVE Holds'
  BY <1>21 DEF CancelAndRemove, GiveUp, Return, Proceed, GoOn, Route, UserOp, Holds, Erasing
<1>22. ASSUME Clear PROVE Holds'
  BY <1>22 DEF Clear, DropTasks, Proceed, GoOn, Route, UserOp, Holds, Erasing
<1>23. ASSUME EraseFolder PROVE Holds'
  BY <1>23 DEF EraseFolder, Proceed, Route, UserOp, Holds, Erasing
<1>24. ASSUME Forget PROVE Holds'
  BY <1>24 DEF Forget, DropTasks, GiveUp, Return, Route, UserOp, Holds, Erasing
<1>25. ASSUME AddItem PROVE Holds'
  BY <1>25 DEF AddItem, GiveUp, Return, GoOn, Route, UserOp, Holds, Erasing
<1>26. ASSUME Tidy PROVE Holds'
  BY <1>26 DEF Tidy, GiveUp, Return, Route, UserOp, Holds, Erasing
<1>27. ASSUME Refresh PROVE Holds'
  BY <1>27 DEF Refresh, Enter, Route, UserOp, Holds, Erasing
<1>28. CASE UNCHANGED vars
  BY <1>28 DEF vars, Route, UserOp, Holds, Erasing
<1> QED
  BY <1>1, <1>2, <1>3, <1>4, <1>5, <1>6, <1>7, <1>8, <1>9, <1>10, <1>11, <1>12, <1>13,
       <1>14, <1>15, <1>16, <1>17, <1>18, <1>19, <1>20, <1>21, <1>22, <1>23, <1>24,
       <1>25, <1>26, <1>27, <1>28
     DEF Next, TaskStep, Others, Listen, Operate, UserStep

-----------------------------------------------------------------------------
(* The listener.                                                            *)

\* Between the stop of a listener and the start of the next there is none.
Unheard == at \in {"listen", "read", "gone"} \/ (at = "clear" /\ op # "refresh")
Leaving == op = "refresh" /\ at \in {"clear", "stop", "gone"}
Hears ==
  /\ Unheard => listener = "none"
  /\ held /\ ~Unheard /\ at # "stop" => listener # "none"
  /\ listener = "none" => told = "NotDownloaded"
  /\ ~held /\ ~Leaving => listener = "none" /\ cache = <<>>
  /\ ~held /\ at = "gone" => listener = "none"
  /\ ~held /\ ~Leaving /\ ~Erasing => state = "NotDownloaded"
  /\ at # "write" \/ then = "clear" => found = "NotDownloaded"

\* There is a listener whenever the item has tasks and no operation replaces it.
LEMMA HearsStep ==
  ASSUME TypeOK, Route, Holds, Hears, [Next]_vars
  PROVE  Hears'
<1>1. ASSUME NEW f \in File, Complete(f) PROVE Hears'
  BY <1>1 DEF Complete, Route, UserOp, Holds, Erasing, Hears, Unheard, Leaving
<1>2. ASSUME NEW f \in File, Break(f) PROVE Hears'
  BY <1>2 DEF Break, Route, UserOp, Holds, Erasing, Hears, Unheard, Leaving
<1>3. ASSUME NEW f \in File, OthersAcquire(f) PROVE Hears'
  BY <1>3 DEF OthersAcquire, Route, UserOp, Holds, Erasing, Hears, Unheard, Leaving
<1>4. ASSUME NEW f \in File, OthersRelease(f) PROVE Hears'
  BY <1>4 DEF OthersRelease, Route, UserOp, Holds, Erasing, Hears, Unheard, Leaving
<1>5. ASSUME Hear PROVE Hears'
  BY <1>5 DEF Hear, Route, UserOp, Holds, Erasing, Hears, Unheard, Leaving
<1>6. ASSUME TellState PROVE Hears'
  BY <1>6 DEF TellState, Tell, Route, UserOp, Holds, Erasing, Hears, Unheard, Leaving
<1>7. ASSUME NEW u \in User, Resume(u) PROVE Hears'
  BY <1>7 DEF Resume, Route, UserOp, Holds, Erasing, Hears, Unheard, Leaving
<1>8. ASSUME NEW u \in User, Subscribe(u) PROVE Hears'
  BY <1>8 DEF Subscribe, Enter, Route, UserOp, Holds, Erasing, Hears, Unheard, Leaving
<1>9. ASSUME NEW u \in User, NEW what \in {"pause", "delete"}, Ask(u, what) PROVE Hears'
  BY <1>9 DEF Ask, Enter, Route, UserOp, Holds, Erasing, Hears, Unheard, Leaving
<1>10. ASSUME NEW u \in User, Observe(u) PROVE Hears'
  BY <1>10 DEF Observe, Route, UserOp, Holds, Erasing, Hears, Unheard, Leaving
<1>11. ASSUME EnsureFileTasks PROVE Hears'
  BY <1>11 DEF EnsureFileTasks, GiveUp, Return, Proceed, GoOn, Route, UserOp, Holds,
       Erasing, Hears, Unheard, Leaving
<1>12. ASSUME StopListening PROVE Hears'
  BY <1>12 DEF StopListening, Proceed, Route, UserOp, Holds, Erasing, Hears, Unheard,
       Leaving
<1>13. ASSUME SubscribeToNext PROVE Hears'
  BY <1>13 DEF SubscribeToNext, Proceed, Route, UserOp, Holds, Erasing, Hears, Unheard,
       Leaving
<1>14. ASSUME ReadState PROVE Hears'
  BY <1>14 DEF ReadState, Proceed, GoOn, Route, UserOp, Holds, Erasing, Hears, Unheard,
       Leaving
<1>15. ASSUME Look PROVE Hears'
  BY <1>15 DEF Look, GiveUp, Return, Proceed, Route, UserOp, Holds, Erasing, Hears,
       Unheard, Leaving
<1>16. ASSUME EnsureDownloading PROVE Hears'
  BY <1>16 DEF EnsureDownloading, GiveUp, Return, GoOn, Route, UserOp, Holds, Erasing,
       Hears, Unheard, Leaving
<1>17. ASSUME EnsurePaused PROVE Hears'
  BY <1>17 DEF EnsurePaused, GiveUp, Return, Proceed, Route, UserOp, Holds, Erasing,
       Hears, Unheard, Leaving
<1>18. ASSUME StoreStates PROVE Hears'
  BY <1>18 DEF StoreStates, Proceed, Route, UserOp, Holds, Erasing, Hears, Unheard, Leaving
<1>19. ASSUME Report PROVE Hears'
  BY <1>19 DEF Report, Proceed, Route, UserOp, Holds, Erasing, Hears, Unheard, Leaving
<1>20. ASSUME WriteState PROVE Hears'
  BY <1>20 DEF WriteState, Tell, Return, Proceed, Route, UserOp, Holds, Erasing, Hears,
       Unheard, Leaving
<1>21. ASSUME CancelAndRemove PROVE Hears'
  BY <1>21 DEF CancelAndRemove, GiveUp, Return, Proceed, GoOn, Route, UserOp, Holds,
       Erasing, Hears, Unheard, Leaving
<1>22. ASSUME Clear PROVE Hears'
  BY <1>22 DEF Clear, DropTasks, Proceed, GoOn, Route, UserOp, Holds, Erasing, Hears,
       Unheard, Leaving
<1>23. ASSUME EraseFolder PROVE Hears'
  BY <1>23 DEF EraseFolder, Proceed, Route, UserOp, Holds, Erasing, Hears, Unheard, Leaving
<1>24. ASSUME Forget PROVE Hears'
  BY <1>24 DEF Forget, DropTasks, GiveUp, Return, Route, UserOp, Holds, Erasing, Hears,
       Unheard, Leaving
<1>25. ASSUME AddItem PROVE Hears'
  BY <1>25 DEF AddItem, GiveUp, Return, GoOn, Route, UserOp, Holds, Erasing, Hears,
       Unheard, Leaving
<1>26. ASSUME Tidy PROVE Hears'
  BY <1>26 DEF Tidy, GiveUp, Return, Route, UserOp, Holds, Erasing, Hears, Unheard, Leaving
<1>27. ASSUME Refresh PROVE Hears'
  BY <1>27 DEF Refresh, Enter, Route, UserOp, Holds, Erasing, Hears, Unheard, Leaving
<1>28. CASE UNCHANGED vars
  BY <1>28 DEF vars, Route, UserOp, Holds, Erasing, Hears, Unheard, Leaving
<1> QED
  BY <1>1, <1>2, <1>3, <1>4, <1>5, <1>6, <1>7, <1>8, <1>9, <1>10, <1>11, <1>12, <1>13,
       <1>14, <1>15, <1>16, <1>17, <1>18, <1>19, <1>20, <1>21, <1>22, <1>23, <1>24,
       <1>25, <1>26, <1>27, <1>28
     DEF Next, TaskStep, Others, Listen, Operate, UserStep

\* Whose messages the listener receives.
Receives ==
  /\ listener # "none" => subscribed = File
  /\ listener = "none" /\ at \notin {"listen", "read"} => subscribed = {}
  /\ at = "listen" => subscribed = 1 .. Len(fresh)
  /\ at = "read" => subscribed = 1 .. Len(fresh) + 1
  /\ at \notin {"listen", "read"} => fresh = <<>>

\* A listener receives from every task.
LEMMA ReceivesStep ==
  ASSUME TypeOK, Route, Holds, Hears, Receives, [Next]_vars
  PROVE  Receives'
<1>1. ASSUME NEW f \in File, Complete(f) PROVE Receives'
  BY <1>1 DEF Complete, Route, UserOp, Hears, Unheard, Receives
<1>2. ASSUME NEW f \in File, Break(f) PROVE Receives'
  BY <1>2 DEF Break, Route, UserOp, Hears, Unheard, Receives
<1>3. ASSUME NEW f \in File, OthersAcquire(f) PROVE Receives'
  BY <1>3 DEF OthersAcquire, Route, UserOp, Hears, Unheard, Receives
<1>4. ASSUME NEW f \in File, OthersRelease(f) PROVE Receives'
  BY <1>4 DEF OthersRelease, Route, UserOp, Hears, Unheard, Receives
<1>5. ASSUME Hear PROVE Receives'
  BY <1>5 DEF Hear, Route, UserOp, Hears, Unheard, Receives
<1>6. ASSUME TellState PROVE Receives'
  BY <1>6 DEF TellState, Tell, Route, UserOp, Hears, Unheard, Receives
<1>7. ASSUME NEW u \in User, Resume(u) PROVE Receives'
  BY <1>7 DEF Resume, Route, UserOp, Hears, Unheard, Receives
<1>8. ASSUME NEW u \in User, Subscribe(u) PROVE Receives'
  BY <1>8 DEF Subscribe, Enter, Route, UserOp, Hears, Unheard, Receives
<1>9. ASSUME NEW u \in User, NEW what \in {"pause", "delete"}, Ask(u, what) PROVE Receives'
  BY <1>9 DEF Ask, Enter, Route, UserOp, Hears, Unheard, Receives
<1>10. ASSUME NEW u \in User, Observe(u) PROVE Receives'
  BY <1>10 DEF Observe, Route, UserOp, Hears, Unheard, Receives
<1>11. ASSUME EnsureFileTasks PROVE Receives'
  BY <1>11 DEF EnsureFileTasks, GiveUp, Return, Proceed, GoOn, Route, UserOp, Hears,
       Unheard, Receives
<1>12. ASSUME StopListening PROVE Receives'
  BY <1>12 DEF StopListening, Proceed, Route, UserOp, Hears, Unheard, Receives
<1>13. ASSUME SubscribeToNext PROVE Receives'
  BY <1>13 DEF SubscribeToNext, Proceed, Route, UserOp, Hears, Unheard, Receives
<1>14. ASSUME ReadState PROVE Receives'
  <2> DEFINE read == Append(fresh, Public(Len(fresh) + 1))
  <2>1. Len(fresh) \in Nat /\ Len(fresh) < Files /\ Len(read) = Len(fresh) + 1
    <3>1. Len(fresh) + 1 \in File
      BY LenProperties DEF TypeOK, File
    <3> QED
      BY <3>1, PublicIsPhase, AppendProperties, LenProperties DEF TypeOK
  <2>2. subscribed = 1 .. Len(read)
    BY <1>14, <2>1 DEF ReadState, Receives
  <2>3. CASE Len(read) < Files
    BY <1>14, <2>1, <2>2, <2>3 DEF ReadState, Proceed, Route, UserOp, Hears, Unheard,
       Receives
  <2>4. CASE ~(Len(read) < Files)
    <3>1. subscribed = File
      BY <2>1, <2>2, <2>4 DEF File
    <3> QED
      BY <1>14, <2>4, <3>1 DEF ReadState, GoOn, Route, UserOp, Receives
  <2> QED
    BY <2>3, <2>4
<1>15. ASSUME Look PROVE Receives'
  BY <1>15 DEF Look, GiveUp, Return, Proceed, Route, UserOp, Hears, Unheard, Receives
<1>16. ASSUME EnsureDownloading PROVE Receives'
  BY <1>16 DEF EnsureDownloading, GiveUp, Return, GoOn, Route, UserOp, Hears, Unheard,
       Receives
<1>17. ASSUME EnsurePaused PROVE Receives'
  BY <1>17 DEF EnsurePaused, GiveUp, Return, Proceed, Route, UserOp, Hears, Unheard,
       Receives
<1>18. ASSUME StoreStates PROVE Receives'
  BY <1>18 DEF StoreStates, Proceed, Route, UserOp, Hears, Unheard, Receives
<1>19. ASSUME Report PROVE Receives'
  BY <1>19 DEF Report, Proceed, Route, UserOp, Hears, Unheard, Receives
<1>20. ASSUME WriteState PROVE Receives'
  BY <1>20 DEF WriteState, Tell, Return, Proceed, Route, UserOp, Hears, Unheard, Receives
<1>21. ASSUME CancelAndRemove PROVE Receives'
  BY <1>21 DEF CancelAndRemove, GiveUp, Return, Proceed, GoOn, Route, UserOp, Hears,
       Unheard, Receives
<1>22. ASSUME Clear PROVE Receives'
  BY <1>22 DEF Clear, DropTasks, Proceed, GoOn, Route, UserOp, Hears, Unheard, Receives
<1>23. ASSUME EraseFolder PROVE Receives'
  BY <1>23 DEF EraseFolder, Proceed, Route, UserOp, Hears, Unheard, Receives
<1>24. ASSUME Forget PROVE Receives'
  BY <1>24 DEF Forget, DropTasks, GiveUp, Return, Route, UserOp, Hears, Unheard, Receives
<1>25. ASSUME AddItem PROVE Receives'
  BY <1>25 DEF AddItem, GiveUp, Return, GoOn, Holds, Erasing, Leaving, Route, UserOp,
       Hears, Unheard, Receives
<1>26. ASSUME Tidy PROVE Receives'
  BY <1>26 DEF Tidy, GiveUp, Return, Route, UserOp, Hears, Unheard, Receives
<1>27. ASSUME Refresh PROVE Receives'
  BY <1>27 DEF Refresh, Enter, Route, UserOp, Hears, Unheard, Receives
<1>28. CASE UNCHANGED vars
  BY <1>28 DEF vars, Route, UserOp, Hears, Unheard, Receives
<1> QED
  BY <1>1, <1>2, <1>3, <1>4, <1>5, <1>6, <1>7, <1>8, <1>9, <1>10, <1>11, <1>12, <1>13,
       <1>14, <1>15, <1>16, <1>17, <1>18, <1>19, <1>20, <1>21, <1>22, <1>23, <1>24,
       <1>25, <1>26, <1>27, <1>28
     DEF Next, TaskStep, Others, Listen, Operate, UserStep

-----------------------------------------------------------------------------
(* The tasks.                                                               *)

\* What the tasks are.
TasksGo == at \in {"clear", "gone"} \/ (at = "stop" /\ then \in {"clear", "gone"})
Lifecycles ==
  \A f \in File :
    /\ projection[f] # "None" => life[f] \in {"NotDownloaded", "Paused"}
    /\ projection[f] = "Error" => life[f] = "NotDownloaded"
    /\ task[f] = "none" => projection[f] = "None" /\ life[f] # "Downloading"
    /\ task[f] = "live" /\ life[f] = "Downloading" => held /\ ~TasksGo
    /\ task[f] \in {"dead", "culled"} => held

\* Nobody removes a task of an item but its deletion, until one has been culled.
Answers ==
  held /\ ~TasksGo => (\A f \in File : task[f] = "live") \/ (\E f \in File : task[f] = "culled")

\* New tasks of an item without tasks: none downloads yet, none is dead.
LEMMA MadeLives ==
  ASSUME TypeOK, Lifecycles, ~held, NEW some, MakeTasks(some)
  PROVE  \A f \in File :
           /\ projection'[f] # "None" => life'[f] \in {"NotDownloaded", "Paused"}
           /\ projection'[f] = "Error" => life'[f] = "NotDownloaded"
           /\ life'[f] # "Downloading" /\ task'[f] \notin {"dead", "culled"}
           /\ task'[f] = "none" => projection'[f] = "None"
           /\ f \in some => task'[f] = "live"
<1> SUFFICES ASSUME NEW f \in File
             PROVE  /\ projection'[f] # "None" => life'[f] \in {"NotDownloaded", "Paused"}
                    /\ projection'[f] = "Error" => life'[f] = "NotDownloaded"
                    /\ life'[f] # "Downloading" /\ task'[f] \notin {"dead", "culled"}
                    /\ task'[f] = "none" => projection'[f] = "None"
                    /\ f \in some => task'[f] = "live"
  OBVIOUS
<1>1. /\ task[f] \in {"none", "live"} /\ life[f] # "Downloading"
      /\ projection[f] # "None" => life[f] \in {"NotDownloaded", "Paused"}
      /\ projection[f] = "Error" => life[f] = "NotDownloaded"
      /\ task[f] = "none" => projection[f] = "None"
  BY DEF Lifecycles, TypeOK
<1>2. CASE f \in some /\ task[f] = "none"
  <2>1. /\ task'[f] = "live" /\ life'[f] = InitialLife(f)
        /\ projection'[f] = IF lease[f] = "others" /\ disk[f] # "whole" THEN "Locked" ELSE "None"
    BY <1>1, <1>2 DEF MakeTasks, Become
  <2>2. disk[f] \in {"none", "part", "whole"}
    BY DEF TypeOK
  <2>3. InitialLife(f) # "Downloading"
    BY <2>2 DEF InitialLife
  <2>4. disk[f] # "whole" => InitialLife(f) \in {"NotDownloaded", "Paused"}
    BY <2>2 DEF InitialLife
  <2> QED
    BY <2>1, <2>3, <2>4
<1>3. CASE ~(f \in some /\ task[f] = "none")
  <2>1. task'[f] = task[f] /\ life'[f] = life[f] /\ projection'[f] = projection[f]
    BY <1>3 DEF MakeTasks, Become
  <2> QED
    BY <1>1, <1>3, <2>1
<1> QED
  BY <1>2, <1>3

\* Only tasks of the item download, and only before they are removed.
LEMMA LifecyclesStep ==
  ASSUME TypeOK, Route, Holds, Lifecycles, [Next]_vars
  PROVE  Lifecycles'
<1>1. ASSUME NEW f \in File, Complete(f) PROVE Lifecycles'
  BY <1>1 DEF Complete, Downloading, Live, TypeOK, Route, UserOp, Holds, Erasing,
       Lifecycles, TasksGo
<1>2. ASSUME NEW f \in File, Break(f) PROVE Lifecycles'
  BY <1>2 DEF Break, Downloading, Live, TypeOK, Route, UserOp, Holds, Erasing,
       Lifecycles, TasksGo
<1>3. ASSUME NEW f \in File, OthersAcquire(f) PROVE Lifecycles'
  BY <1>3 DEF OthersAcquire, Route, UserOp, Holds, Erasing, Lifecycles, TasksGo
<1>4. ASSUME NEW f \in File, OthersRelease(f) PROVE Lifecycles'
  BY <1>4 DEF OthersRelease, Route, UserOp, Holds, Erasing, Lifecycles, TasksGo
<1>5. ASSUME Hear PROVE Lifecycles'
  BY <1>5 DEF Hear, Route, UserOp, Holds, Erasing, Lifecycles, TasksGo
<1>6. ASSUME TellState PROVE Lifecycles'
  BY <1>6 DEF TellState, Tell, Route, UserOp, Holds, Erasing, Lifecycles, TasksGo
<1>7. ASSUME NEW u \in User, Resume(u) PROVE Lifecycles'
  BY <1>7 DEF Resume, Route, UserOp, Holds, Erasing, Lifecycles, TasksGo
<1>8. ASSUME NEW u \in User, Subscribe(u) PROVE Lifecycles'
  BY <1>8 DEF Subscribe, Enter, Route, UserOp, Holds, Erasing, Lifecycles, TasksGo
<1>9. ASSUME NEW u \in User, NEW what \in {"pause", "delete"}, Ask(u, what) PROVE Lifecycles'
  BY <1>9 DEF Ask, Enter, Route, UserOp, Holds, Erasing, Lifecycles, TasksGo
<1>10. ASSUME NEW u \in User, Observe(u) PROVE Lifecycles'
  BY <1>10 DEF Observe, Route, UserOp, Holds, Erasing, Lifecycles, TasksGo
<1>11. ASSUME EnsureFileTasks PROVE Lifecycles'
  <2>1. CASE held /\ Proceed("look") /\ UNCHANGED <<tasks, held>>
    BY <1>11, <2>1 DEF EnsureFileTasks, Proceed, GoOn, GiveUp, Return, Lifecycles,
       TasksGo, Route, UserOp
  <2>2. CASE ~held /\ MakeTasks(File) /\ held' = TRUE /\ GoOn("stop", "look")
    <3>1. ~held
      BY <2>2
    <3>2. \A f \in File :
                          /\ projection'[f] # "None" => life'[f] \in {"NotDownloaded", "Paused"}
                          /\ projection'[f] = "Error" => life'[f] = "NotDownloaded"
                          /\ life'[f] # "Downloading" /\ task'[f] = "live"
      BY <2>2, <3>1, MadeLives
    <3> QED
      BY <1>11, <2>2, <3>2 DEF GoOn, Lifecycles, TasksGo
  <2>3. CASE ~held /\ (\E n \in File : MakeTasks(1 .. n - 1)) /\ GiveUp /\ UNCHANGED held
    <3>1. ~held
      BY <2>3
    <3>2. \A f \in File :
                          /\ projection'[f] # "None" => life'[f] \in {"NotDownloaded", "Paused"}
                          /\ projection'[f] = "Error" => life'[f] = "NotDownloaded"
                          /\ life'[f] # "Downloading" /\ task'[f] \notin {"dead", "culled"}
                          /\ task'[f] = "none" => projection'[f] = "None"
      BY <2>3, <3>1, MadeLives
    <3> QED
      BY <2>3, <3>1, <3>2 DEF Lifecycles, TasksGo
  <2> QED
    BY <1>11, <2>1, <2>2, <2>3 DEF EnsureFileTasks
<1>12. ASSUME StopListening PROVE Lifecycles'
  BY <1>12 DEF StopListening, Proceed, Route, UserOp, Holds, Erasing, Lifecycles, TasksGo
<1>13. ASSUME SubscribeToNext PROVE Lifecycles'
  BY <1>13 DEF SubscribeToNext, Proceed, Route, UserOp, Holds, Erasing, Lifecycles, TasksGo
<1>14. ASSUME ReadState PROVE Lifecycles'
  BY <1>14 DEF ReadState, Proceed, GoOn, Route, UserOp, Holds, Erasing, Lifecycles, TasksGo
<1>15. ASSUME Look PROVE Lifecycles'
  BY <1>15 DEF Look, GiveUp, Return, Proceed, Route, UserOp, Holds, Erasing, Lifecycles,
       TasksGo
<1>16. ASSUME EnsureDownloading PROVE Lifecycles'
  BY <1>16 DEF EnsureDownloading, GiveUp, Return, GoOn, Startable, Live, Become, Route,
       UserOp, Holds, Erasing, Lifecycles, TasksGo
<1>17. ASSUME EnsurePaused PROVE Lifecycles'
  BY <1>17 DEF EnsurePaused, GiveUp, Return, Proceed, Downloading, Live, Become, Route,
       UserOp, Holds, Erasing, Lifecycles, TasksGo
<1>18. ASSUME StoreStates PROVE Lifecycles'
  BY <1>18 DEF StoreStates, Proceed, Route, UserOp, Holds, Erasing, Lifecycles, TasksGo
<1>19. ASSUME Report PROVE Lifecycles'
  BY <1>19 DEF Report, Proceed, Route, UserOp, Holds, Erasing, Lifecycles, TasksGo
<1>20. ASSUME WriteState PROVE Lifecycles'
  BY <1>20 DEF WriteState, Tell, Return, Proceed, Route, UserOp, Holds, Erasing,
       Lifecycles, TasksGo
<1>21. ASSUME CancelAndRemove PROVE Lifecycles'
  BY <1>21 DEF CancelAndRemove, GiveUp, Return, Proceed, GoOn, Cancel, Mine, Live,
       Become, TypeOK, Route, UserOp, Holds, Erasing, Lifecycles, TasksGo
<1>22. ASSUME Clear PROVE Lifecycles'
  BY <1>22 DEF Clear, DropTasks, Proceed, GoOn, Route, UserOp, Holds, Erasing,
       Lifecycles, TasksGo
<1>23. ASSUME EraseFolder PROVE Lifecycles'
  BY <1>23 DEF EraseFolder, Proceed, Route, UserOp, Holds, Erasing, Lifecycles, TasksGo
<1>24. ASSUME Forget PROVE Lifecycles'
  BY <1>24 DEF Forget, DropTasks, GiveUp, Return, Route, UserOp, Holds, Erasing,
       Lifecycles, TasksGo
<1>25. ASSUME AddItem PROVE Lifecycles'
  <2>1. CASE GiveUp /\ UNCHANGED <<tasks, held>>
    BY <1>25, <2>1 DEF AddItem, Proceed, GoOn, GiveUp, Return, Lifecycles, TasksGo,
       Route, UserOp
  <2>2. CASE MakeTasks(File) /\ held' = TRUE /\ GoOn("listen", "report")
    <3>1. ~held
      BY <1>25, <2>2 DEF AddItem, Holds
    <3>2. \A f \in File :
                          /\ projection'[f] # "None" => life'[f] \in {"NotDownloaded", "Paused"}
                          /\ projection'[f] = "Error" => life'[f] = "NotDownloaded"
                          /\ life'[f] # "Downloading" /\ task'[f] = "live"
      BY <2>2, <3>1, MadeLives
    <3> QED
      BY <1>25, <2>2, <3>2 DEF GoOn, Lifecycles, TasksGo
  <2>3. CASE (\E n \in File : MakeTasks(1 .. n - 1)) /\ GiveUp /\ UNCHANGED held
    <3>1. ~held
      BY <1>25, <2>3 DEF AddItem, Holds
    <3>2. \A f \in File :
                          /\ projection'[f] # "None" => life'[f] \in {"NotDownloaded", "Paused"}
                          /\ projection'[f] = "Error" => life'[f] = "NotDownloaded"
                          /\ life'[f] # "Downloading" /\ task'[f] \notin {"dead", "culled"}
                          /\ task'[f] = "none" => projection'[f] = "None"
      BY <2>3, <3>1, MadeLives
    <3> QED
      BY <2>3, <3>1, <3>2 DEF Lifecycles, TasksGo
  <2> QED
    BY <1>25, <2>1, <2>2, <2>3 DEF AddItem
<1>26. ASSUME Tidy PROVE Lifecycles'
  BY <1>26 DEF Tidy, GiveUp, Return, Route, UserOp, Holds, Erasing, Lifecycles, TasksGo
<1>27. ASSUME Refresh PROVE Lifecycles'
  BY <1>27 DEF Refresh, Enter, Cancel, Failed, Live, Become, Public, TypeOK, Route,
       UserOp, Holds, Erasing, Lifecycles, TasksGo
<1>28. CASE UNCHANGED vars
  BY <1>28 DEF vars, Route, UserOp, Holds, Erasing, Lifecycles, TasksGo
<1> QED
  BY <1>1, <1>2, <1>3, <1>4, <1>5, <1>6, <1>7, <1>8, <1>9, <1>10, <1>11, <1>12, <1>13,
       <1>14, <1>15, <1>16, <1>17, <1>18, <1>19, <1>20, <1>21, <1>22, <1>23, <1>24,
       <1>25, <1>26, <1>27, <1>28
     DEF Next, TaskStep, Others, Listen, Operate, UserStep

\* The item and the manager have the same tasks.
LEMMA AnswersStep ==
  ASSUME TypeOK, Route, Holds, Lifecycles, Answers, [Next]_vars
  PROVE  Answers'
<1>1. ASSUME NEW f \in File, Complete(f) PROVE Answers'
  BY <1>1 DEF Complete, Route, UserOp, Holds, Erasing, Answers, TasksGo
<1>2. ASSUME NEW f \in File, Break(f) PROVE Answers'
  BY <1>2 DEF Break, Route, UserOp, Holds, Erasing, Answers, TasksGo
<1>3. ASSUME NEW f \in File, OthersAcquire(f) PROVE Answers'
  BY <1>3 DEF OthersAcquire, Route, UserOp, Holds, Erasing, Answers, TasksGo
<1>4. ASSUME NEW f \in File, OthersRelease(f) PROVE Answers'
  BY <1>4 DEF OthersRelease, Route, UserOp, Holds, Erasing, Answers, TasksGo
<1>5. ASSUME Hear PROVE Answers'
  BY <1>5 DEF Hear, Route, UserOp, Holds, Erasing, Answers, TasksGo
<1>6. ASSUME TellState PROVE Answers'
  BY <1>6 DEF TellState, Tell, Route, UserOp, Holds, Erasing, Answers, TasksGo
<1>7. ASSUME NEW u \in User, Resume(u) PROVE Answers'
  BY <1>7 DEF Resume, Route, UserOp, Holds, Erasing, Answers, TasksGo
<1>8. ASSUME NEW u \in User, Subscribe(u) PROVE Answers'
  BY <1>8 DEF Subscribe, Enter, Route, UserOp, Holds, Erasing, Answers, TasksGo
<1>9. ASSUME NEW u \in User, NEW what \in {"pause", "delete"}, Ask(u, what) PROVE Answers'
  BY <1>9 DEF Ask, Enter, Route, UserOp, Holds, Erasing, Answers, TasksGo
<1>10. ASSUME NEW u \in User, Observe(u) PROVE Answers'
  BY <1>10 DEF Observe, Route, UserOp, Holds, Erasing, Answers, TasksGo
<1>11. ASSUME EnsureFileTasks PROVE Answers'
  <2>1. CASE held /\ Proceed("look") /\ UNCHANGED <<tasks, held>>
    BY <1>11, <2>1 DEF EnsureFileTasks, Proceed, GoOn, GiveUp, Return, Answers, TasksGo,
       Route, UserOp
  <2>2. CASE ~held /\ MakeTasks(File) /\ held' = TRUE /\ GoOn("stop", "look")
    <3>1. ~held
      BY <2>2
    <3>2. \A f \in File :
                          /\ projection'[f] # "None" => life'[f] \in {"NotDownloaded", "Paused"}
                          /\ projection'[f] = "Error" => life'[f] = "NotDownloaded"
                          /\ life'[f] # "Downloading" /\ task'[f] = "live"
      BY <2>2, <3>1, MadeLives
    <3> QED
      BY <1>11, <2>2, <3>2 DEF GoOn, Answers, TasksGo
  <2>3. CASE ~held /\ (\E n \in File : MakeTasks(1 .. n - 1)) /\ GiveUp /\ UNCHANGED held
    <3>1. ~held
      BY <2>3
    <3>2. \A f \in File :
                          /\ projection'[f] # "None" => life'[f] \in {"NotDownloaded", "Paused"}
                          /\ projection'[f] = "Error" => life'[f] = "NotDownloaded"
                          /\ life'[f] # "Downloading" /\ task'[f] \notin {"dead", "culled"}
                          /\ task'[f] = "none" => projection'[f] = "None"
      BY <2>3, <3>1, MadeLives
    <3> QED
      BY <2>3, <3>1, <3>2 DEF Answers, TasksGo
  <2> QED
    BY <1>11, <2>1, <2>2, <2>3 DEF EnsureFileTasks
<1>12. ASSUME StopListening PROVE Answers'
  BY <1>12 DEF StopListening, Proceed, Route, UserOp, Holds, Erasing, Answers, TasksGo
<1>13. ASSUME SubscribeToNext PROVE Answers'
  BY <1>13 DEF SubscribeToNext, Proceed, Route, UserOp, Holds, Erasing, Answers, TasksGo
<1>14. ASSUME ReadState PROVE Answers'
  BY <1>14 DEF ReadState, Proceed, GoOn, Route, UserOp, Holds, Erasing, Answers, TasksGo
<1>15. ASSUME Look PROVE Answers'
  BY <1>15 DEF Look, GiveUp, Return, Proceed, Route, UserOp, Holds, Erasing, Answers,
       TasksGo
<1>16. ASSUME EnsureDownloading PROVE Answers'
  BY <1>16 DEF EnsureDownloading, GiveUp, Return, GoOn, Route, UserOp, Holds, Erasing,
       Answers, TasksGo
<1>17. ASSUME EnsurePaused PROVE Answers'
  BY <1>17 DEF EnsurePaused, GiveUp, Return, Proceed, Route, UserOp, Holds, Erasing,
       Answers, TasksGo
<1>18. ASSUME StoreStates PROVE Answers'
  BY <1>18 DEF StoreStates, Proceed, Route, UserOp, Holds, Erasing, Answers, TasksGo
<1>19. ASSUME Report PROVE Answers'
  BY <1>19 DEF Report, Proceed, Route, UserOp, Holds, Erasing, Answers, TasksGo
<1>20. ASSUME WriteState PROVE Answers'
  BY <1>20 DEF WriteState, Tell, Return, Proceed, Route, UserOp, Holds, Erasing, Answers,
       TasksGo
<1>21. ASSUME CancelAndRemove PROVE Answers'
  BY <1>21 DEF CancelAndRemove, GiveUp, Return, Proceed, GoOn, Mine, Live, Become, Route,
       UserOp, Holds, Erasing, Answers, TasksGo
<1>22. ASSUME Clear PROVE Answers'
  BY <1>22 DEF Clear, DropTasks, Proceed, GoOn, Route, UserOp, Holds, Erasing, Answers,
       TasksGo
<1>23. ASSUME EraseFolder PROVE Answers'
  BY <1>23 DEF EraseFolder, Proceed, Route, UserOp, Holds, Erasing, Answers, TasksGo
<1>24. ASSUME Forget PROVE Answers'
  BY <1>24 DEF Forget, DropTasks, GiveUp, Return, Route, UserOp, Holds, Erasing, Answers,
       TasksGo
<1>25. ASSUME AddItem PROVE Answers'
  <2>1. CASE GiveUp /\ UNCHANGED <<tasks, held>>
    BY <1>25, <2>1 DEF AddItem, Proceed, GoOn, GiveUp, Return, Answers, TasksGo, Holds,
       Erasing
  <2>2. CASE MakeTasks(File) /\ held' = TRUE /\ GoOn("listen", "report")
    <3>1. ~held
      BY <1>25, <2>2 DEF AddItem, Holds
    <3>2. \A f \in File :
                          /\ projection'[f] # "None" => life'[f] \in {"NotDownloaded", "Paused"}
                          /\ projection'[f] = "Error" => life'[f] = "NotDownloaded"
                          /\ life'[f] # "Downloading" /\ task'[f] = "live"
      BY <2>2, <3>1, MadeLives
    <3> QED
      BY <1>25, <2>2, <3>2 DEF GoOn, Answers, TasksGo
  <2>3. CASE (\E n \in File : MakeTasks(1 .. n - 1)) /\ GiveUp /\ UNCHANGED held
    <3>1. ~held
      BY <1>25, <2>3 DEF AddItem, Holds
    <3>2. \A f \in File :
                          /\ projection'[f] # "None" => life'[f] \in {"NotDownloaded", "Paused"}
                          /\ projection'[f] = "Error" => life'[f] = "NotDownloaded"
                          /\ life'[f] # "Downloading" /\ task'[f] \notin {"dead", "culled"}
                          /\ task'[f] = "none" => projection'[f] = "None"
      BY <2>3, <3>1, MadeLives
    <3> QED
      BY <2>3, <3>1, <3>2 DEF Answers, TasksGo
  <2> QED
    BY <1>25, <2>1, <2>2, <2>3 DEF AddItem
<1>26. ASSUME Tidy PROVE Answers'
  BY <1>26 DEF Tidy, GiveUp, Return, Route, UserOp, Holds, Erasing, Answers, TasksGo
<1>27. ASSUME Refresh PROVE Answers'
  BY <1>27 DEF Refresh, Enter, Failed, Live, Become, Public, TypeOK, Route, UserOp,
       Holds, Erasing, Answers, TasksGo
<1>28. CASE UNCHANGED vars
  BY <1>28 DEF vars, Route, UserOp, Holds, Erasing, Answers, TasksGo
<1> QED
  BY <1>1, <1>2, <1>3, <1>4, <1>5, <1>6, <1>7, <1>8, <1>9, <1>10, <1>11, <1>12, <1>13,
       <1>14, <1>15, <1>16, <1>17, <1>18, <1>19, <1>20, <1>21, <1>22, <1>23, <1>24,
       <1>25, <1>26, <1>27, <1>28
     DEF Next, TaskStep, Others, Listen, Operate, UserStep

-----------------------------------------------------------------------------
(* Messages.                                                                *)

\* What the listener knows.
Following ==
  \A f \in File :
    /\ f \notin subscribed => unread[f] = <<>>
    /\ held /\ unread[f] # <<>> => Last(unread[f]) = Public(f)
    /\ held /\ listener # "none" /\ cache # <<>> /\ unread[f] = <<>> => cache[f] = Public(f)
    /\ f \in 1 .. Len(fresh) /\ unread[f] = <<>> => fresh[f] = Public(f)

\* What is published is followed: each change of a task comes to those who receive from it.
LEMMA PublishedFollows ==
  ASSUME TypeOK, TypeOK', Receives, Following, NEW some, Publish(some),
         \A f \in File : f \notin some => Public(f)' = Public(f),
         UNCHANGED <<held, subscribed, cache, listener, fresh>>
  PROVE  Following'
<1>1. \A f \in File : Public(f)' \in Phase
  BY PublicIsPhase DEF TypeOK, Public, Phase
<1>2. \A f \in File : IF f \in some \cap subscribed
                      THEN unread'[f] # <<>> /\ Last(unread'[f]) = Public(f)'
                      ELSE unread'[f] = unread[f]
  BY <1>1, PublishFacts
<1>3. listener # "none" => subscribed = File
  BY DEF Receives
<1>4. \A f \in File : f \in 1 .. Len(fresh) => f \in subscribed
  <2>1. Len(fresh) \in Nat /\ Len(<<>>) = 0
    BY LenProperties, EmptySeq DEF TypeOK
  <2>2. CASE at \in {"listen", "read"}
    BY <2>1, <2>2 DEF Receives
  <2>3. CASE at \notin {"listen", "read"}
    BY <2>1, <2>3 DEF Receives
  <2> QED
    BY <2>2, <2>3
<1> SUFFICES ASSUME NEW f \in File
             PROVE  /\ f \notin subscribed => unread'[f] = <<>>
                    /\ held /\ unread'[f] # <<>> => Last(unread'[f]) = Public(f)'
                    /\ held /\ listener # "none" /\ cache # <<>> /\ unread'[f] = <<>>
                         => cache[f] = Public(f)'
                    /\ f \in 1 .. Len(fresh) /\ unread'[f] = <<>> => fresh[f] = Public(f)'
  BY DEF Following
<1>5. CASE f \in some \cap subscribed
  BY <1>2, <1>5
<1>6. CASE f \notin subscribed
  BY <1>2, <1>3, <1>4, <1>6 DEF Following
<1>7. CASE f \in subscribed /\ f \notin some
  <2>1. unread'[f] = unread[f] /\ Public(f)' = Public(f)
    BY <1>2, <1>7
  <2> QED
    BY <1>7, <2>1 DEF Following
<1> QED
  BY <1>5, <1>6, <1>7

\* A step of something else.
LEMMA QuietFollows ==
  ASSUME Following, UNCHANGED <<life, projection, held, subscribed, unread, cache, listener, fresh>>
  PROVE  Following'
<1>1. \A f \in File : Public(f)' = Public(f)
  BY DEF Public
<1> QED
  BY <1>1 DEF Following

\* An item without tasks has nothing to follow.
LEMMA NothingToFollow ==
  ASSUME Route, Hears, Receives, Following, ~held, at \in {"ensure", "add"}
  PROVE  /\ listener = "none" /\ cache = <<>> /\ fresh = <<>>
         /\ \A f \in File : unread[f] = <<>>
<1>1. listener = "none" /\ cache = <<>> /\ fresh = <<>> /\ subscribed = {}
  BY DEF Hears, Leaving, Receives
<1> QED
  BY <1>1 DEF Following

\* The listener misses nothing, whatever tasks and operations do.
LEMMA FollowingStep ==
  ASSUME TypeOK, TypeOK', Route, Holds, Hears, Receives, Following, [Next]_vars
  PROVE  Following'
<1>1. ASSUME NEW f \in File, Complete(f) PROVE Following'
  <2>1. \A g \in File : g \notin {f} => Public(g)' = Public(g)
    BY <1>1 DEF Complete, Public
  <2> QED
    BY <1>1, <2>1, PublishedFollows DEF Complete
<1>2. ASSUME NEW f \in File, Break(f) PROVE Following'
  <2>1. \A g \in File : g \notin {f} => Public(g)' = Public(g)
    BY <1>2 DEF Break, Public
  <2> QED
    BY <1>2, <2>1, PublishedFollows DEF Break
<1>3. ASSUME NEW f \in File, OthersAcquire(f) PROVE Following'
  BY <1>3, QuietFollows DEF OthersAcquire
<1>4. ASSUME NEW f \in File, OthersRelease(f) PROVE Following'
  BY <1>4, QuietFollows DEF OthersRelease
<1>5. ASSUME Hear PROVE Following'
  <2>1. PICK some \in SUBSET {f \in File : unread[f] # <<>>} :
          /\ cache' = IF cache = <<>> THEN <<>>
                      ELSE [f \in File |-> IF f \in some THEN Last(unread[f]) ELSE cache[f]]
          /\ unread' = Become(unread, some, <<>>)
    BY <1>5 DEF Hear
  <2>2. fresh = <<>> /\ Len(<<>>) = 0 /\ listener # "none"
    BY <1>5, EmptySeq DEF Hear, Hears, Unheard, Receives
  <2>3. \A f \in File : Public(f)' = Public(f)
    BY <1>5 DEF Hear, Public
  <2>4. UNCHANGED <<held, subscribed, fresh>>
    BY <1>5 DEF Hear
  <2> SUFFICES ASSUME NEW f \in File
               PROVE  /\ f \notin subscribed => unread'[f] = <<>>
                      /\ held /\ unread'[f] # <<>> => Last(unread'[f]) = Public(f)
                      /\ held /\ cache' # <<>> /\ unread'[f] = <<>> => cache'[f] = Public(f)
    BY <2>2, <2>3, <2>4 DEF Following
  <2>5. CASE f \in some
    BY <2>1, <2>5 DEF Following, Become
  <2>6. CASE f \notin some
    BY <2>1, <2>2, <2>6 DEF Following, Become
  <2> QED
    BY <2>5, <2>6
<1>6. ASSUME TellState PROVE Following'
  <2>1. \A f \in File : Public(f)' = Public(f)
    BY <1>6 DEF TellState, Public
  <2> QED
    BY <1>6, <2>1 DEF TellState, Following
<1>7. ASSUME NEW u \in User, Resume(u) PROVE Following'
  BY <1>7, QuietFollows DEF Resume
<1>8. ASSUME NEW u \in User, Subscribe(u) PROVE Following'
  BY <1>8, QuietFollows DEF Subscribe
<1>9. ASSUME NEW u \in User, NEW what \in {"pause", "delete"}, Ask(u, what) PROVE Following'
  BY <1>9, QuietFollows DEF Ask
<1>10. ASSUME NEW u \in User, Observe(u) PROVE Following'
  BY <1>10, QuietFollows DEF Observe
<1>11. ASSUME EnsureFileTasks PROVE Following'
  <2>1. CASE held /\ UNCHANGED <<tasks, held>>
    BY <1>11, <2>1, QuietFollows DEF EnsureFileTasks
  <2>2. CASE ~held
    <3>1. /\ listener = "none" /\ cache = <<>> /\ fresh = <<>>
          /\ \A f \in File : unread[f] = <<>>
      BY <1>11, <2>2, NothingToFollow DEF EnsureFileTasks
    <3> QED
      BY <1>11, <3>1, EmptySeq DEF EnsureFileTasks, Following
  <2> QED
    BY <1>11, <2>1, <2>2 DEF EnsureFileTasks
<1>12. ASSUME StopListening PROVE Following'
  <2>1. fresh' = <<>> /\ Len(<<>>) = 0
    BY <1>12, EmptySeq DEF StopListening, Receives
  <2> QED
    BY <1>12, <2>1 DEF StopListening, Following
<1>13. ASSUME SubscribeToNext PROVE Following'
  <2>1. \A f \in File : Public(f)' = Public(f)
    BY <1>13 DEF SubscribeToNext, Public
  <2> QED
    BY <1>13, <2>1 DEF SubscribeToNext, Following
<1>14. ASSUME ReadState PROVE Following'
  <2> DEFINE next == Len(fresh) + 1
             read == Append(fresh, Public(next))
  <2>1. Len(fresh) \in Nat /\ next \in File /\ Len(<<>>) = 0
    BY LenProperties, EmptySeq DEF TypeOK, File
  <2>2. /\ read \in Seq(Phase) /\ Len(read) = next /\ read[next] = Public(next)
        /\ \A f \in 1 .. Len(fresh) : read[f] = fresh[f]
    BY <2>1, PublicIsPhase, AppendProperties DEF TypeOK
  <2>3. \A f \in File : Public(f)' = Public(f)
    BY <1>14 DEF ReadState, Public
  <2>4. \A f \in 1 .. next : f \in File /\ (unread[f] = <<>> => read[f] = Public(f))
    <3> SUFFICES ASSUME NEW f \in 1 .. next
                 PROVE  f \in File /\ (unread[f] = <<>> => read[f] = Public(f))
      OBVIOUS
    <3>1. f \in File
      BY <2>1 DEF File
    <3>2. CASE f = next
      BY <2>2, <3>1, <3>2
    <3>3. CASE f # next
      <4>1. f \in 1 .. Len(fresh)
        BY <2>1, <3>3
      <4> QED
        BY <2>2, <3>1, <4>1 DEF Following
    <3> QED
      BY <3>2, <3>3
  <2>5. CASE next < Files
    <3>1. fresh' = read /\ UNCHANGED <<held, subscribed, unread, cache, listener>>
      BY <1>14, <2>2, <2>5 DEF ReadState
    <3> QED
      BY <2>2, <2>3, <2>4, <3>1 DEF Following
  <2>6. CASE ~(next < Files)
    <3>1. fresh' = <<>> /\ cache' = read /\ UNCHANGED <<held, subscribed, unread>>
      BY <1>14, <2>2, <2>6 DEF ReadState
    <3>2. 1 .. next = File
      BY <2>1, <2>6 DEF File
    <3> QED
      BY <2>1, <2>3, <2>4, <3>1, <3>2 DEF Following
  <2> QED
    BY <2>5, <2>6
<1>15. ASSUME Look PROVE Following'
  BY <1>15, QuietFollows DEF Look
<1>16. ASSUME EnsureDownloading PROVE Following'
  <2>1. \A g \in File : g \notin Live => Public(g)' = Public(g)
    BY <1>16 DEF EnsureDownloading, Startable, Become, Public
  <2> QED
    BY <1>16, <2>1, PublishedFollows DEF EnsureDownloading
<1>17. ASSUME EnsurePaused PROVE Following'
  <2>1. \A g \in File : g \notin Downloading => Public(g)' = Public(g)
    BY <1>17 DEF EnsurePaused, Become, Public
  <2> QED
    BY <1>17, <2>1, PublishedFollows DEF EnsurePaused
<1>18. ASSUME StoreStates PROVE Following'
  <2>1. fresh' = <<>> /\ Len(<<>>) = 0
    BY <1>18, EmptySeq DEF StoreStates, Receives
  <2>2. \A f \in File : Public(f)' = Public(f)
    BY <1>18 DEF StoreStates, Public
  <2> QED
    BY <1>18, <2>1, <2>2 DEF StoreStates, Following
<1>19. ASSUME Report PROVE Following'
  BY <1>19, QuietFollows DEF Report
<1>20. ASSUME WriteState PROVE Following'
  BY <1>20, QuietFollows DEF WriteState
<1>21. ASSUME CancelAndRemove PROVE Following'
  <2>1. \A g \in File : g \notin Mine => Public(g)' = Public(g)
    BY <1>21 DEF CancelAndRemove, Cancel, Become, Public
  <2> QED
    BY <1>21, <2>1, PublishedFollows DEF CancelAndRemove, Cancel
<1>22. ASSUME Clear PROVE Following'
  <2>1. fresh' = <<>> /\ Len(<<>>) = 0
    BY <1>22, EmptySeq DEF Clear, Receives
  <2> QED
    BY <1>22, <2>1 DEF Clear, DropTasks, Following
<1>23. ASSUME EraseFolder PROVE Following'
  BY <1>23, QuietFollows DEF EraseFolder
<1>24. ASSUME Forget PROVE Following'
  <2>1. fresh' = <<>> /\ Len(<<>>) = 0
    BY <1>24, EmptySeq DEF Forget, Receives
  <2> QED
    BY <1>24, <2>1 DEF Forget, DropTasks, Following
<1>25. ASSUME AddItem PROVE Following'
  <2>1. ~held
    BY <1>25 DEF AddItem, Holds
  <2>2. /\ listener = "none" /\ cache = <<>> /\ fresh = <<>>
        /\ \A f \in File : unread[f] = <<>>
    BY <1>25, <2>1, NothingToFollow DEF AddItem
  <2> QED
    BY <1>25, <2>2, EmptySeq DEF AddItem, Following
<1>26. ASSUME Tidy PROVE Following'
  BY <1>26, QuietFollows DEF Tidy
<1>27. ASSUME Refresh PROVE Following'
  <2>1. \A g \in File : g \notin Failed => Public(g)' = Public(g)
    BY <1>27 DEF Refresh, Cancel, Become, Public
  <2> QED
    BY <1>27, <2>1, PublishedFollows DEF Refresh, Cancel
<1>28. CASE UNCHANGED vars
  BY <1>28, QuietFollows DEF vars
<1> QED
  BY <1>1, <1>2, <1>3, <1>4, <1>5, <1>6, <1>7, <1>8, <1>9, <1>10, <1>11, <1>12, <1>13,
       <1>14, <1>15, <1>16, <1>17, <1>18, <1>19, <1>20, <1>21, <1>22, <1>23, <1>24,
       <1>25, <1>26, <1>27, <1>28
     DEF Next, TaskStep, Others, Listen, Operate, UserStep

-----------------------------------------------------------------------------
(* Resumes.                                                                 *)

\* A download that has begun has a state worth waiting for, down to its last step.
Begun == op = "download" /\ (then = "report" \/ at = "report")
Answering ==
  /\ Begun => \A f \in File : Observable(Public(f))
  /\ Begun => \A f \in 1 .. Len(fresh) : Observable(fresh[f])
  /\ op = "download" /\ at = "report" => cache # <<>> /\ \A f \in File : Observable(cache[f])
  /\ op = "download" /\ at = "write" => Observable(found)

\* Who resumes holds the storage until it is told.
Answered ==
  /\ holder \in User /\ op \in {"download", "restart"} => pc[holder] = "resuming"
  /\ ResumeIsAnswered

LEMMA OneFile == File # {}
BY DEF File

\* A download that goes well leaves every task in a state worth waiting for.
LEMMA AnsweringStep ==
  ASSUME TypeOK, Route, Holds, Hears, Receives, Lifecycles, Following, Answering, [Next]_vars
  PROVE  Answering'
<1>1. ASSUME NEW f \in File, Complete(f) PROVE Answering'
  <2>1. Public(f)' = "Downloaded"
    BY <1>1 DEF Complete, Downloading, Live, Lifecycles, TypeOK, Public
  <2>2. \A g \in File : g # f => Public(g)' = Public(g)
    BY <1>1 DEF Complete, Public
  <2> QED
    BY <1>1, <2>1, <2>2 DEF Complete, Answering, Begun, Observable
<1>2. ASSUME NEW f \in File, Break(f) PROVE Answering'
  <2>1. Public(f)' = "Error"
    BY <1>2 DEF Break, TypeOK, Public
  <2>2. \A g \in File : g # f => Public(g)' = Public(g)
    BY <1>2 DEF Break, Public
  <2> QED
    BY <1>2, <2>1, <2>2 DEF Break, Answering, Begun, Observable
<1>3. ASSUME NEW f \in File, OthersAcquire(f) PROVE Answering'
  BY <1>3 DEF OthersAcquire, Route, UserOp, Answering, Begun, Public
<1>4. ASSUME NEW f \in File, OthersRelease(f) PROVE Answering'
  BY <1>4 DEF OthersRelease, Route, UserOp, Answering, Begun, Public
<1>5. ASSUME Hear PROVE Answering'
  <2>1. PICK some \in SUBSET {f \in File : unread[f] # <<>>} :
          cache' = IF cache = <<>> THEN <<>>
                   ELSE [f \in File |-> IF f \in some THEN Last(unread[f]) ELSE cache[f]]
    BY <1>5 DEF Hear
  <2>2. \A f \in File : Public(f)' = Public(f)
    BY <1>5 DEF Hear, Public
  <2>3. ASSUME op = "download", at = "report"
        PROVE  cache' # <<>> /\ \A f \in File : Observable(cache'[f])
    <3>1. held /\ cache # <<>> /\ Begun
      BY <2>3 DEF Holds, Answering, Begun
    <3>2. cache' = [f \in File |-> IF f \in some THEN Last(unread[f]) ELSE cache[f]]
      BY <2>1, <3>1
    <3>3. 1 \in DOMAIN cache'
      BY <3>2 DEF File
    <3>4. cache' # <<>>
      BY <3>3, EmptySeq
    <3>5. \A f \in some : Last(unread[f]) = Public(f)
      BY <3>1 DEF Following
    <3> QED
      BY <2>3, <3>1, <3>2, <3>4, <3>5 DEF Answering
  <2> QED
    BY <1>5, <2>2, <2>3 DEF Hear, Answering, Begun
<1>6. ASSUME TellState PROVE Answering'
  BY <1>6 DEF TellState, Tell, Route, UserOp, Answering, Begun, Public
<1>7. ASSUME NEW u \in User, Resume(u) PROVE Answering'
  BY <1>7 DEF Resume, Route, UserOp, Answering, Begun, Public
<1>8. ASSUME NEW u \in User, Subscribe(u) PROVE Answering'
  BY <1>8 DEF Subscribe, Enter, Route, UserOp, Answering, Begun, Public
<1>9. ASSUME NEW u \in User, NEW what \in {"pause", "delete"}, Ask(u, what) PROVE Answering'
  BY <1>9 DEF Ask, Enter, Route, UserOp, Answering, Begun, Public
<1>10. ASSUME NEW u \in User, Observe(u) PROVE Answering'
  BY <1>10 DEF Observe, Route, UserOp, Answering, Begun, Public
<1>11. ASSUME EnsureFileTasks PROVE Answering'
  BY <1>11 DEF EnsureFileTasks, GiveUp, Return, Proceed, GoOn, Route, UserOp, Answering,
       Begun, Public
<1>12. ASSUME StopListening PROVE Answering'
  BY <1>12 DEF StopListening, Proceed, Route, UserOp, Answering, Begun, Public
<1>13. ASSUME SubscribeToNext PROVE Answering'
  BY <1>13 DEF SubscribeToNext, Proceed, Route, UserOp, Answering, Begun, Public
<1>14. ASSUME ReadState PROVE Answering'
  <2> DEFINE next == Len(fresh) + 1
             read == Append(fresh, Public(next))
  <2>1. Len(fresh) \in Nat /\ next \in File /\ Len(<<>>) = 0
    BY LenProperties, EmptySeq DEF TypeOK, File
  <2>2. /\ read \in Seq(Phase) /\ Len(read) = next /\ read[next] = Public(next)
        /\ \A f \in 1 .. Len(fresh) : read[f] = fresh[f]
    BY <2>1, PublicIsPhase, AppendProperties DEF TypeOK
  <2>3. \A f \in File : Public(f)' = Public(f)
    BY <1>14 DEF ReadState, Public
  <2>4. ASSUME Begun PROVE \A f \in 1 .. next : Observable(read[f])
    <3> SUFFICES ASSUME NEW f \in 1 .. next PROVE Observable(read[f])
      OBVIOUS
    <3>1. CASE f = next
      BY <2>1, <2>2, <2>4, <3>1 DEF Answering
    <3>2. CASE f # next
      <4>1. f \in 1 .. Len(fresh)
        BY <2>1, <3>2
      <4> QED
        BY <2>2, <2>4, <4>1 DEF Answering
    <3> QED
      BY <3>1, <3>2
  <2>5. CASE next < Files
    <3>1. fresh' = read /\ Proceed("listen")
      BY <1>14, <2>2, <2>5 DEF ReadState
    <3> QED
      BY <1>14, <2>2, <2>3, <2>4, <3>1 DEF Proceed, ReadState, Answering, Begun
  <2>6. CASE ~(next < Files)
    <3>1. fresh' = <<>> /\ cache' = read /\ GoOn(then, "none")
      BY <1>14, <2>2, <2>6 DEF ReadState
    <3>2. 1 .. next = File /\ read # <<>>
      BY <2>1, <2>2, <2>6 DEF File
    <3>3. Begun' => Begun
      BY <1>14, <3>1 DEF GoOn, Begun
    <3>4. op' = "download" /\ at' = "write" => FALSE
      BY <1>14, <3>1 DEF GoOn, ReadState, Route
    <3> QED
      BY <2>1, <2>3, <2>4, <3>1, <3>2, <3>3, <3>4 DEF GoOn, Answering, Begun
  <2> QED
    BY <2>5, <2>6
<1>15. ASSUME Look PROVE Answering'
  BY <1>15 DEF Look, GiveUp, Return, Proceed, Route, UserOp, Answering, Begun, Public
<1>16. ASSUME EnsureDownloading PROVE Answering'
  <2>1. CASE GiveUp
    BY <1>16, <2>1 DEF EnsureDownloading, GiveUp, Return, Answering, Begun
  <2>2. CASE ~GiveUp
    <3>1. /\ Live = File /\ GoOn("stop", "report")
          /\ life' = Become(life, Startable, "Downloading")
          /\ \A f \in Startable : projection'[f] = "None"
          /\ \A f \in File \ Startable : projection'[f] = projection[f]
      <4> DEFINE barred == {f \in Startable : lease[f] = "others"}
      <4> DEFINE Outcome(failing, lost) ==
              LET started == Startable \ (barred \cup failing)
              IN  /\ life' = [f \in File |-> CASE f \in started -> "Downloading"
                                               [] f \in lost    -> "NotDownloaded"
                                               [] OTHER         -> life[f]]
                  /\ projection' = [f \in File |-> CASE f \in started -> "None"
                                                     [] f \in barred  -> "Locked"
                                                     [] f \in lost    -> "Error"
                                                     [] OTHER         -> projection[f]]
                  /\ IF barred \cup failing = {} /\ Live = File
                     THEN GoOn("stop", "report")
                     ELSE GiveUp
      <4>0. PICK failing \in SUBSET (Startable \ barred) :
              \E lost \in SUBSET {f \in failing : life[f] = "Paused"} : Outcome(failing, lost)
        BY <1>16 DEF EnsureDownloading
      <4>1. PICK lost \in SUBSET {f \in failing : life[f] = "Paused"} : Outcome(failing, lost)
        BY <4>0
      <4>2. barred = {} /\ failing = {} /\ lost = {} /\ Live = File /\ GoOn("stop", "report")
        BY <2>2, <4>1
      <4>3. Startable \ (barred \cup failing) = Startable
        BY <4>2
      <4>4. life' = [f \in File |-> CASE f \in Startable -> "Downloading"
                                     [] f \in {}        -> "NotDownloaded"
                                     [] OTHER          -> life[f]]
        BY <4>1, <4>2, <4>3
      <4>5. projection' = [f \in File |-> CASE f \in Startable -> "None"
                                           [] f \in {}        -> "Locked"
                                           [] f \in {}        -> "Error"
                                           [] OTHER          -> projection[f]]
        BY <4>1, <4>2, <4>3
      <4> HIDE DEF barred
      <4>6. life' = Become(life, Startable, "Downloading")
        BY <4>4 DEF Become
      <4>7. \A f \in File : projection'[f] = IF f \in Startable THEN "None" ELSE projection[f]
        BY <4>5
      <4> QED
        BY <4>2, <4>6, <4>7 DEF Startable, Live
    <3>2. \A f \in File : Observable(Public(f)')
      <4> SUFFICES ASSUME NEW f \in File PROVE Observable(Public(f)')
        OBVIOUS
      <4>1. CASE f \in Startable
        BY <3>1, <4>1 DEF Become, Public, Observable
      <4>2. CASE f \notin Startable
        <5>1. life[f] \in {"Downloading", "Downloaded"} /\ projection[f] = "None"
          BY <3>1, <4>2 DEF Startable, Lifecycles, TypeOK
        <5> QED
          BY <3>1, <4>2, <5>1 DEF Become, Public, Observable
      <4> QED
        BY <4>1, <4>2
    <3>3. fresh' = <<>> /\ Len(<<>>) = 0
      BY <1>16, EmptySeq DEF EnsureDownloading, Receives
    <3> QED
      BY <3>1, <3>2, <3>3 DEF GoOn, Answering, Begun
  <2> QED
    BY <2>1, <2>2
<1>17. ASSUME EnsurePaused PROVE Answering'
  BY <1>17 DEF EnsurePaused, GiveUp, Return, Proceed, Route, UserOp, Answering, Begun,
       Public
<1>18. ASSUME StoreStates PROVE Answering'
  BY <1>18 DEF StoreStates, Proceed, Route, UserOp, Answering, Begun, Public
<1>19. ASSUME Report PROVE Answering'
  <2>1. \A f \in File : Public(f)' = Public(f)
    BY <1>19 DEF Report, Public
  <2>2. ASSUME op = "download" PROVE Observable(Reduce(States))
    <3>1. held /\ cache # <<>> /\ \A f \in File : Observable(cache[f])
      BY <1>19, <2>2 DEF Report, Holds, Answering
    <3>2. States = cache
      BY <3>1 DEF States
    <3> QED
      BY <3>1, <3>2, OneFile DEF Reduce, Observable
  <2> QED
    BY <1>19, <2>1, <2>2 DEF Report, Proceed, Route, UserOp, Answering, Begun
<1>20. ASSUME WriteState PROVE Answering'
  BY <1>20 DEF WriteState, Tell, Return, Proceed, Route, UserOp, Answering, Begun, Public
<1>21. ASSUME CancelAndRemove PROVE Answering'
  BY <1>21 DEF CancelAndRemove, GiveUp, Return, Proceed, GoOn, Route, UserOp, Answering,
       Begun, Public
<1>22. ASSUME Clear PROVE Answering'
  BY <1>22 DEF Clear, DropTasks, Proceed, GoOn, Route, UserOp, Answering, Begun, Public
<1>23. ASSUME EraseFolder PROVE Answering'
  BY <1>23 DEF EraseFolder, Proceed, Route, UserOp, Answering, Begun, Public
<1>24. ASSUME Forget PROVE Answering'
  BY <1>24 DEF Forget, DropTasks, GiveUp, Return, Route, UserOp, Answering, Begun, Public
<1>25. ASSUME AddItem PROVE Answering'
  BY <1>25 DEF AddItem, GiveUp, Return, GoOn, Route, UserOp, Answering, Begun, Public
<1>26. ASSUME Tidy PROVE Answering'
  BY <1>26 DEF Tidy, GiveUp, Return, Route, UserOp, Answering, Begun, Public
<1>27. ASSUME Refresh PROVE Answering'
  BY <1>27 DEF Refresh, Enter, Route, UserOp, Answering, Begun, Public
<1>28. CASE UNCHANGED vars
  BY <1>28 DEF vars, Route, UserOp, Answering, Begun, Public
<1> QED
  BY <1>1, <1>2, <1>3, <1>4, <1>5, <1>6, <1>7, <1>8, <1>9, <1>10, <1>11, <1>12, <1>13,
       <1>14, <1>15, <1>16, <1>17, <1>18, <1>19, <1>20, <1>21, <1>22, <1>23, <1>24,
       <1>25, <1>26, <1>27, <1>28
     DEF Next, TaskStep, Others, Listen, Operate, UserStep

\* Each resume that waits has been told, by itself.
LEMMA AnsweredStep ==
  ASSUME TypeOK, Route, Answering, Answered, [Next]_vars
  PROVE  Answered'
<1>0. /\ pc \in [User -> {"idle", "download", "restart", "resuming", "waiting", "calling"}]
      /\ noticed \in [User -> BOOLEAN]
  BY DEF TypeOK
<1>1. ASSUME NEW f \in File, Complete(f) PROVE Answered'
  BY <1>1, <1>0 DEF Complete, Route, UserOp, Answered, ResumeIsAnswered
<1>2. ASSUME NEW f \in File, Break(f) PROVE Answered'
  BY <1>2, <1>0 DEF Break, Route, UserOp, Answered, ResumeIsAnswered
<1>3. ASSUME NEW f \in File, OthersAcquire(f) PROVE Answered'
  BY <1>3, <1>0 DEF OthersAcquire, Route, UserOp, Answered, ResumeIsAnswered
<1>4. ASSUME NEW f \in File, OthersRelease(f) PROVE Answered'
  BY <1>4, <1>0 DEF OthersRelease, Route, UserOp, Answered, ResumeIsAnswered
<1>5. ASSUME Hear PROVE Answered'
  BY <1>5, <1>0 DEF Hear, Route, UserOp, Answered, ResumeIsAnswered
<1>6. ASSUME TellState PROVE Answered'
  BY <1>6, <1>0 DEF TellState, Tell, Route, UserOp, Answered, ResumeIsAnswered
<1>7. ASSUME NEW u \in User, Resume(u) PROVE Answered'
  BY <1>7, <1>0 DEF Resume, Route, UserOp, Answered, ResumeIsAnswered
<1>8. ASSUME NEW u \in User, Subscribe(u) PROVE Answered'
  BY <1>8, <1>0 DEF Subscribe, Enter, Route, UserOp, Answered, ResumeIsAnswered
<1>9. ASSUME NEW u \in User, NEW what \in {"pause", "delete"}, Ask(u, what) PROVE Answered'
  BY <1>9, <1>0 DEF Ask, Enter, Route, UserOp, Answered, ResumeIsAnswered
<1>10. ASSUME NEW u \in User, Observe(u) PROVE Answered'
  BY <1>10, <1>0 DEF Observe, Route, UserOp, Answered, ResumeIsAnswered
<1>11. ASSUME EnsureFileTasks PROVE Answered'
  BY <1>11, <1>0 DEF EnsureFileTasks, GiveUp, Return, Proceed, GoOn, Route, UserOp,
       Answered, ResumeIsAnswered
<1>12. ASSUME StopListening PROVE Answered'
  BY <1>12, <1>0 DEF StopListening, Proceed, Route, UserOp, Answered, ResumeIsAnswered
<1>13. ASSUME SubscribeToNext PROVE Answered'
  BY <1>13, <1>0 DEF SubscribeToNext, Proceed, Route, UserOp, Answered, ResumeIsAnswered
<1>14. ASSUME ReadState PROVE Answered'
  BY <1>14, <1>0 DEF ReadState, Proceed, GoOn, Route, UserOp, Answered, ResumeIsAnswered
<1>15. ASSUME Look PROVE Answered'
  BY <1>15, <1>0 DEF Look, GiveUp, Return, Proceed, Route, UserOp, Answered,
       ResumeIsAnswered
<1>16. ASSUME EnsureDownloading PROVE Answered'
  BY <1>16, <1>0 DEF EnsureDownloading, GiveUp, Return, GoOn, Route, UserOp, Answered,
       ResumeIsAnswered
<1>17. ASSUME EnsurePaused PROVE Answered'
  BY <1>17, <1>0 DEF EnsurePaused, GiveUp, Return, Proceed, Route, UserOp, Answered,
       ResumeIsAnswered
<1>18. ASSUME StoreStates PROVE Answered'
  BY <1>18, <1>0 DEF StoreStates, Proceed, Route, UserOp, Answered, ResumeIsAnswered
<1>19. ASSUME Report PROVE Answered'
  BY <1>19, <1>0 DEF Report, Proceed, Route, UserOp, Answered, ResumeIsAnswered
<1>20. ASSUME WriteState PROVE Answered'
  BY <1>20, <1>0 DEF WriteState, Tell, Return, Proceed, Answering, Route, UserOp,
       Answered, ResumeIsAnswered
<1>21. ASSUME CancelAndRemove PROVE Answered'
  BY <1>21, <1>0 DEF CancelAndRemove, GiveUp, Return, Proceed, GoOn, Route, UserOp,
       Answered, ResumeIsAnswered
<1>22. ASSUME Clear PROVE Answered'
  BY <1>22, <1>0 DEF Clear, DropTasks, Proceed, GoOn, Route, UserOp, Answered,
       ResumeIsAnswered
<1>23. ASSUME EraseFolder PROVE Answered'
  BY <1>23, <1>0 DEF EraseFolder, Proceed, Route, UserOp, Answered, ResumeIsAnswered
<1>24. ASSUME Forget PROVE Answered'
  BY <1>24, <1>0 DEF Forget, DropTasks, GiveUp, Return, Route, UserOp, Answered,
       ResumeIsAnswered
<1>25. ASSUME AddItem PROVE Answered'
  BY <1>25, <1>0 DEF AddItem, GiveUp, Return, GoOn, Route, UserOp, Answered,
       ResumeIsAnswered
<1>26. ASSUME Tidy PROVE Answered'
  BY <1>26, <1>0 DEF Tidy, GiveUp, Return, Route, UserOp, Answered, ResumeIsAnswered
<1>27. ASSUME Refresh PROVE Answered'
  BY <1>27, <1>0 DEF Refresh, Enter, Route, UserOp, Answered, ResumeIsAnswered
<1>28. CASE UNCHANGED vars
  BY <1>28 DEF vars, Route, UserOp, Answered, ResumeIsAnswered
<1> QED
  BY <1>1, <1>2, <1>3, <1>4, <1>5, <1>6, <1>7, <1>8, <1>9, <1>10, <1>11, <1>12, <1>13,
       <1>14, <1>15, <1>16, <1>17, <1>18, <1>19, <1>20, <1>21, <1>22, <1>23, <1>24,
       <1>25, <1>26, <1>27, <1>28
     DEF Next, TaskStep, Others, Listen, Operate, UserStep

-----------------------------------------------------------------------------
(* The theorems.                                                            *)

\* The inductive invariant.
Inv ==
  /\ TypeOK /\ Route /\ Holds /\ Hears /\ Receives /\ Lifecycles /\ Answers
  /\ Following /\ Answering /\ Answered

\* All layers together are inductive: operations that overlap keep to them.
THEOREM Invariance == Spec => []Inv
<1>1. Init => Inv
  <2> SUFFICES ASSUME Init PROVE Inv
    OBVIOUS
  <2>1. TypeOK
    BY TypesInit
  <2>2. Route /\ Holds /\ Hears /\ Receives
    <3>1. /\ holder = NoOne /\ op = "none" /\ at = "none" /\ then = "none" /\ ~held
          /\ listener = "none" /\ told = "NotDownloaded" /\ cache = <<>> /\ fresh = <<>>
          /\ state = "NotDownloaded" /\ found = "NotDownloaded" /\ subscribed = {}
      BY DEF Init
    <3>2. Route /\ Holds
      BY <3>1 DEF Route, UserOp, Holds, Erasing
    <3>3. Hears /\ Receives
      BY <3>1 DEF Hears, Unheard, Leaving, Erasing, Receives
    <3> QED
      BY <3>2, <3>3
  <2>3. Lifecycles /\ Answers
    BY DEF Init, Lifecycles, Answers
  <2>4. Len(fresh) = 0
    BY EmptySeq DEF Init
  <2>5. Following
    BY <2>4 DEF Init, Following
  <2>6. Answering /\ Answered
    BY <2>4 DEF Init, Answering, Begun, Answered, ResumeIsAnswered
  <2> QED
    BY <2>1, <2>2, <2>3, <2>5, <2>6 DEF Inv
<1>2. Inv /\ [Next]_vars => Inv'
  <2> SUFFICES ASSUME Inv, [Next]_vars PROVE Inv'
    OBVIOUS
  <2>1. TypeOK'
    BY TypesStep DEF Inv
  <2>2. Route' /\ Holds' /\ Hears' /\ Receives'
    BY RouteStep, HoldsStep, HearsStep, ReceivesStep DEF Inv
  <2>3. Lifecycles' /\ Answers'
    BY LifecyclesStep, AnswersStep DEF Inv
  <2>4. Following'
    BY <2>1, FollowingStep DEF Inv
  <2>5. Answering' /\ Answered'
    BY AnsweringStep, AnsweredStep DEF Inv
  <2> QED
    BY <2>1, <2>2, <2>3, <2>4, <2>5 DEF Inv
<1> QED
  BY <1>1, <1>2, PTL DEF Spec

\* The cache and the channels of a listener say what the tasks are: neither an
\* operation that starts it nor one that writes the cache behind it loses a change.
THEOREM CacheIsCurrent == Spec => []CacheFollows
<1>1. Inv => CacheFollows
  <2> SUFFICES ASSUME Inv, held, listener = "wait", cache # <<>>,
                      \A f \in File : unread[f] = <<>>
               PROVE  cache = [f \in File |-> Public(f)]
    BY DEF CacheFollows
  <2>1. cache \in [File -> Phase]
    BY DEF Inv, TypeOK
  <2>2. \A f \in File : cache[f] = Public(f)
    BY DEF Inv, Following
  <2> QED
    BY <2>1, <2>2
<1> QED
  BY <1>1, Invariance, PTL

\* A task that downloads is heard by its item, whichever operations overtook it.
THEOREM EveryDownloadIsHeard == Spec => []DownloadsAreHeard
<1>1. Inv => DownloadsAreHeard
  <2> SUFFICES ASSUME Inv, at \notin {"stop", "listen", "read"}, NEW f \in Downloading
               PROVE  listener # "none" /\ f \in subscribed
    BY DEF DownloadsAreHeard
  <2>1. f \in File /\ held /\ ~TasksGo
    BY DEF Downloading, Live, Inv, Lifecycles
  <2>2. listener # "none"
    BY <2>1 DEF TasksGo, Inv, Hears, Unheard
  <2> QED
    BY <2>1, <2>2 DEF Inv, Receives
<1> QED
  BY <1>1, Invariance, PTL

\* What was deleted stays deleted, though listeners and tasks were at work then.
THEOREM DeletionLasts == Spec => []DeletedStaysDeleted
<1>1. Inv => DeletedStaysDeleted
  BY DEF Inv, Route, UserOp, Hears, Leaving, Erasing, DeletedStaysDeleted
<1> QED
  BY <1>1, Invariance, PTL

\* An item works with tasks of the manager until a refresh takes one that has failed.
THEOREM ItemsTasksAnswer == Spec => []TasksAnswer
<1>1. Inv => TasksAnswer
  BY DEF Inv, Answers, TasksGo, TasksAnswer, Live
<1> QED
  BY <1>1, Invariance, PTL

\* No resume that succeeded waits in vain.
THEOREM EveryResumeIsAnswered == Spec => []ResumeIsAnswered
<1>1. Inv => ResumeIsAnswered
  BY DEF Inv, Answered
<1> QED
  BY <1>1, Invariance, PTL

===============================================================================
