-------------------------- MODULE DownloadTaskProofs --------------------------
(***************************************************************************)
(* Theorems about DownloadTask, for any number of callers, any size of     *)
(* file, any number of retries, downloads and tasks.                       *)
(*                                                                         *)
(* Common is what every argument rests on: types, what a stream's open     *)
(* file holds, and that the lease and the stream belong to the state       *)
(* Downloading.  Each property adds what it needs of its own.              *)
(***************************************************************************)
EXTENDS DownloadTask, TLAPS

\* The file a stream has open, or is about to append to, is no longer than what
\* the stream counts.
OpenFileFits ==
  /\ stream.at \in {"requesting", "opening"} /\ stream.from > 0
       => Length(part) <= stream.from
  /\ stream.at = "receiving" /\ stream.file = "part"
       => part # NoFile /\ part.length <= stream.received
  /\ stream.at = "receiving" /\ stream.file = "dest"
       => dest # NoFile /\ dest.length <= stream.received

\* A stream that reports has something to report.
OutcomeKnown == stream.at = "reporting" => stream.outcome # "none"

\* The lease and the stream belong to the state Downloading.
Ownership ==
  /\ Downloading <=> lock = "ours"
  /\ ~Downloading => stream = NoStream
  /\ Downloading => stream.at # "none" /\ stream.generation = generation
  /\ actor \in {"stopped", "down"} => ~Downloading

Common == TypeOK /\ OpenFileFits /\ OutcomeKnown /\ Ownership

USE ReducerAssumption DEF ReducerAssumption, files, display, channel, StreamOnly

-----------------------------------------------------------------------------
(* The parts a step is made of.                                             *)

LEMMA NoStreamType == NoStream \in StreamState
  BY DEF NoStream, StreamState

LEMMA LengthType == ASSUME NEW file \in FileOrNone PROVE Length(file) \in 0 .. Size
  BY DEF Length, FileOrNone, File

LEMMA EmptyFileType == [length |-> 0, sound |-> TRUE] \in FileOrNone
  BY DEF FileOrNone, File

LEMMA OutcomeType ==
  ASSUME stream \in StreamState, NEW result \in {"Completed", "Paused", "Error"},
         Outcome(result)
  PROVE  stream' \in StreamState
  BY DEF StreamState, Outcome

LEMMA AttemptType ==
  ASSUME stream \in StreamState, GiveUpAttempt PROVE stream' \in StreamState
<1>1. CASE stream' = [stream EXCEPT !.at = "sleeping", !.attempt = @ + 1]
  <2>1. stream.attempt + 1 \in Nat
    BY DEF StreamState
  <2> QED BY <1>1, <2>1 DEF StreamState
<1>2. CASE Outcome("Error")
  BY <1>2, OutcomeType
<1> QED BY <1>1, <1>2 DEF GiveUpAttempt

LEMMA LateCallsType ==
  ASSUME late \subseteq {"rename", "truncate", "create"}
  PROVE  LateCalls \subseteq {"rename", "truncate", "create"}
  BY TaskAssumption DEF LateCalls, TaskAssumption

LEMMA BeginType ==
  ASSUME NEW shown \in 0 .. Size, generation \in Nat, Begin(shown)
  PROVE  stream' \in StreamState
<1>1. generation + 1 \in Nat /\ 0 \in 0 .. Size
  OBVIOUS
<1> QED BY <1>1 DEF Begin, NoStream, StreamState

LEMMA ResumingType ==
  ASSUME part \in FileOrNone, Resuming PROVE part.length \in 0 .. Size
  BY DEF Resuming, FileOrNone, File

\* The end of an attempt leads to the next one or to the report of the failure.
LEMMA AttemptEffect ==
  ASSUME stream \in StreamState, GiveUpAttempt
  PROVE  /\ stream'.at \in {"sleeping", "reporting"}
         /\ stream'.at = "reporting" => stream'.outcome = "Error"
         /\ \A f \in {"generation", "from", "received", "high", "file"} : stream'[f] = stream[f]
<1>1. CASE stream' = [stream EXCEPT !.at = "sleeping", !.attempt = @ + 1]
  BY <1>1 DEF StreamState
<1>2. CASE Outcome("Error")
  BY <1>2 DEF StreamState, Outcome
<1> QED BY <1>1, <1>2 DEF GiveUpAttempt

\* A stream only runs, reports and ends: it never starts another one, and all the
\* actor and the callers see of it is its messages.
LEMMA StreamEffect ==
  ASSUME TypeOK, StreamStep \/ ServerStep
  PROVE  /\ Live /\ stream'.at # "none" /\ stream'.generation = stream.generation
         /\ UNCHANGED <<actor, phase, generation, display, lock, call, isStopped, starts>>
<1> USE DEF TypeOK, Live
<1>1. CASE Measure \/ Respond \/ NothingLeft \/ OpenPart \/ Retry
  BY <1>1 DEF Measure, Respond, NothingLeft, OpenPart, Retry, StreamState
<1>2. CASE Receive \/ EndOfBody \/ Report
  BY <1>2 DEF Receive, EndOfBody, Report, StreamState
<1>3. CASE NoticePause
  BY <1>3 DEF NoticePause, Outcome, StreamState
<1>4. CASE RangeRefused \/ FailAttempt
  BY <1>4, AttemptEffect DEF RangeRefused, FailAttempt
<1>5. CASE RenamePart
  <2>1. CASE Outcome("Completed")
    BY <1>5, <2>1 DEF RenamePart, Outcome, StreamState
  <2>2. CASE GiveUpAttempt
    BY <1>5, <2>2, AttemptEffect DEF RenamePart
  <2> QED BY <1>5, <2>1, <2>2 DEF RenamePart
<1> QED BY <1>1, <1>2, <1>3, <1>4, <1>5 DEF StreamStep, ServerStep

\* A call of an aborted stream moves files and nothing else.
LEMMA LateEffect ==
  ASSUME TypeOK, LateCall
  PROVE  /\ stream' \in {stream, Moved}
         /\ \A f \in {"at", "generation", "received", "high", "outcome"} : stream'[f] = stream[f]
         /\ stream = NoStream => stream' = NoStream
         /\ UNCHANGED <<actor, phase, generation, display, channel, lock, call, isStopped, starts>>
<1>1. stream' \in {stream, Moved} /\ UNCHANGED pending /\ StreamOnly
  BY DEF LateCall
<1>2. \A f \in {"at", "generation", "received", "high", "outcome"} : Moved[f] = stream[f]
  BY DEF TypeOK, Moved, StreamState
<1>3. stream = NoStream => Moved = NoStream
  BY DEF Moved, NoStream
<1> QED BY <1>1, <1>2, <1>3

\* download() begins a download, or leaves the stream and the lease as they were.
LEMMA DownloadEffect ==
  ASSUME TypeOK, Ownership, NEW c \in Caller, HandleDownload(c)
  PROVE  \/ /\ phase \in {"NotDownloaded", "Paused"} /\ phase' = "Downloading"
            /\ lock' = "ours" /\ generation' = generation + 1 /\ projection' = "None"
            /\ stream'.at = "measuring" /\ stream'.generation = generation + 1
            /\ bytes' = stream'.high /\ stream'.from = 0 /\ stream'.received = 0
         \/ /\ stream' = stream /\ (lock' = "ours" <=> lock = "ours")
            /\ generation' \in {generation, generation + 1}
            /\ Downloading => generation' = generation /\ bytes' = bytes /\ part' = part
            /\ \/ phase' = phase
               \/ phase = "Paused" /\ phase' = "NotDownloaded"
            /\ phase \in {"Downloading", "Downloaded"} => UNCHANGED <<phase, projection, part>>
<1>1. ASSUME NEW shown \in Nat, Begin(shown)
      PROVE  /\ phase' = "Downloading" /\ lock' = "ours" /\ generation' = generation + 1
             /\ projection' = "None"
             /\ stream'.at = "measuring" /\ stream'.generation = generation + 1
             /\ bytes' = stream'.high /\ stream'.from = 0 /\ stream'.received = 0
  BY <1>1 DEF Begin, NoStream
<1>2. CASE NotBegun
  BY <1>2 DEF NotBegun
<1>3. CASE phase \in {"NotDownloaded", "Paused"}
  <2>1. CASE Locked
    BY <1>3, <2>1 DEF Locked, Downloading
  <2>2. CASE Resuming /\ Begin(part.length)
    BY <1>1, <1>3, <2>2, ResumingType DEF TypeOK
  <2>3. CASE Begin(0)
    BY <1>1, <1>3, <2>3
  <2>4. CASE FailFresh
    BY <1>3, <2>4 DEF FailFresh, Downloading
  <2>5. CASE Resuming /\ FailResume
    BY <1>3, <2>5 DEF FailResume, Resuming, Downloading
  <2> QED BY <1>2, <1>3, <2>1, <2>2, <2>3, <2>4, <2>5 DEF HandleDownload
<1> QED BY <1>2, <1>3 DEF HandleDownload, TypeOK

-----------------------------------------------------------------------------
(* What every argument rests on.                                            *)

\* Every step keeps every variable in its type.
LEMMA TypeStep ==
  ASSUME Common, Next PROVE TypeOK'
<1> USE DEF Common
<1>1. CASE Measure
  <2>1. stream' \in StreamState
    BY <1>1, LengthType DEF TypeOK, StreamState, Larger, Measure
  <2> QED BY <1>1, <2>1 DEF TypeOK, Measure
<1>2. CASE Respond
  <2>1. stream' \in StreamState
    <3>1. CASE stream' = [stream EXCEPT !.at = "opening"]
      BY <1>2, <3>1 DEF TypeOK, StreamState
    <3>2. CASE stream' = [stream EXCEPT !.at = "opening", !.from = 0]
      <4>1. 0 \in 0 .. Size
        OBVIOUS
      <4> QED BY <1>2, <3>2, <4>1 DEF TypeOK, StreamState
    <3> QED BY <1>2, <3>1, <3>2 DEF Respond
  <2> QED BY <1>2, <2>1 DEF TypeOK, Respond
<1>3. CASE NothingLeft
  <2>1. stream' \in StreamState
    BY <1>3 DEF TypeOK, StreamState, NothingLeft, SendProgress
  <2>2. pending' \in [generation : Nat, bytes : 0 .. Size]
    BY <1>3 DEF TypeOK, StreamState, NothingLeft, SendProgress
  <2> QED BY <1>3, <2>1, <2>2 DEF TypeOK, NothingLeft, SendProgress
<1>4. CASE RangeRefused
  <2>1. stream' \in StreamState
    BY <1>4, AttemptType DEF TypeOK, RangeRefused
  <2>2. part' \in FileOrNone /\ dest' \in FileOrNone
    BY <1>4 DEF TypeOK, FileOrNone, File, RangeRefused, GiveUpAttempt, Outcome
  <2> QED BY <1>4, <2>1, <2>2 DEF TypeOK, RangeRefused, GiveUpAttempt, Outcome
<1>5. CASE OpenPart
  <2>1. stream' \in StreamState
    BY <1>5 DEF TypeOK, StreamState, OpenPart, Opened
  <2>2. part' \in FileOrNone /\ dest' \in FileOrNone
    BY <1>5 DEF TypeOK, FileOrNone, File, OpenPart, Opened
  <2> QED BY <1>5, <2>1, <2>2 DEF TypeOK, OpenPart, Opened
<1>6. CASE Receive
  <2>1. /\ stream \in StreamState /\ part \in FileOrNone /\ dest \in FileOrNone
        /\ stream.received + 1 \in 0 .. Size
        /\ Larger(stream.high, stream.received + 1) \in 0 .. Size
    BY <1>6 DEF TypeOK, StreamState, Larger, Receive
  <2>2. stream' \in StreamState
    BY <1>6, <2>1 DEF StreamState, Receive
  <2>3. ASSUME NEW f \in File, f.length <= stream.received PROVE Extended(f) \in File
    BY <1>6, <2>1, <2>3 DEF StreamState, Extended, File
  <2>4. part' \in FileOrNone /\ dest' \in FileOrNone
    BY <1>6, <2>1, <2>3 DEF OpenFileFits, FileOrNone, Receive
  <2>5. pending' \in [generation : Nat, bytes : 0 .. Size]
    BY <1>6 DEF TypeOK, StreamState, SendProgress, Receive
  <2> QED BY <1>6, <2>2, <2>4, <2>5 DEF TypeOK, Receive
<1>7. CASE EndOfBody
  <2>1. stream' \in StreamState
    BY <1>7 DEF TypeOK, StreamState, EndOfBody, SendProgress
  <2>2. pending' \in [generation : Nat, bytes : 0 .. Size]
    BY <1>7 DEF TypeOK, StreamState, EndOfBody, SendProgress
  <2> QED BY <1>7, <2>1, <2>2 DEF TypeOK, EndOfBody, SendProgress
<1>8. CASE RenamePart
  <2>1. stream' \in StreamState
    BY <1>8, AttemptType, OutcomeType DEF TypeOK, RenamePart
  <2>2. part' \in FileOrNone /\ dest' \in FileOrNone
    BY <1>8 DEF TypeOK, FileOrNone, File, RenamePart, RenameFile, GiveUpAttempt, Outcome
  <2> QED BY <1>8, <2>1, <2>2 DEF TypeOK, RenamePart, RenameFile, GiveUpAttempt, Outcome
<1>9. CASE FailAttempt
  <2>1. stream' \in StreamState
    BY <1>9, AttemptType DEF TypeOK, FailAttempt
  <2> QED BY <1>9, <2>1 DEF TypeOK, FailAttempt, GiveUpAttempt, Outcome
<1>10. CASE NoticePause
  <2>1. stream' \in StreamState
    BY <1>10 DEF TypeOK, StreamState, NoticePause, SendProgress, Outcome
  <2>2. pending' \in [generation : Nat, bytes : 0 .. Size]
    BY <1>10 DEF TypeOK, StreamState, NoticePause, SendProgress, Outcome
  <2> QED BY <1>10, <2>1, <2>2 DEF TypeOK, NoticePause, SendProgress, Outcome
<1>11. CASE Retry
  <2>1. stream' \in StreamState
    BY <1>11 DEF TypeOK, StreamState, Retry
  <2> QED BY <1>11, <2>1 DEF TypeOK, Retry
<1>12. CASE Report
  <2>1. stream' \in StreamState
    BY <1>12 DEF TypeOK, StreamState, Report, Event
  <2>2. events' \in Seq(Event)
    <3>1. CASE stream.outcome # "Paused"
      <4>1. [kind |-> stream.outcome, generation |-> stream.generation] \in Event
        BY <1>12, <3>1 DEF TypeOK, OutcomeKnown, StreamState, Event, Report
      <4>2. events' = Append(events, [kind |-> stream.outcome,
                                      generation |-> stream.generation])
        BY <1>12, <3>1 DEF Report
      <4> QED BY <1>12, <4>1, <4>2 DEF TypeOK
    <3>2. CASE stream.outcome = "Paused"
      BY <1>12, <3>2 DEF TypeOK, Report
    <3> QED BY <1>12, <3>1, <3>2
  <2> QED BY <1>12, <2>1, <2>2 DEF TypeOK, Report, Event
<1>13. CASE LateCall
  <2>1. stream' \in StreamState
    BY <1>13 DEF TypeOK, StreamState, LateCall, Moved, RenameFile
  <2>2. part' \in FileOrNone /\ dest' \in FileOrNone
    BY <1>13, EmptyFileType DEF TypeOK, FileOrNone, LateCall, RenameFile
  <2> QED BY <1>13, <2>1, <2>2 DEF TypeOK, LateCall, Moved, RenameFile
<1>14. CASE HandleCompleted
  <2>1. stream' \in StreamState
    BY <1>14, NoStreamType DEF TypeOK, HandleCompleted, Abort
  <2>2. part' \in FileOrNone /\ dest' \in FileOrNone
    BY <1>14 DEF TypeOK, FileOrNone, File, HandleCompleted, Abort, Current, Validate
  <2>3. events' \in Seq(Event)
    BY <1>14 DEF TypeOK, Event, StreamState, HandleCompleted, Abort, Current, Validate
  <2>4. bytes' \in 0 .. Size
    BY <1>14
    DEF TypeOK, StreamState, FileOrNone, File, HandleCompleted, Abort, Current, Validate
  <2> QED BY <1>14, <2>1, <2>2, <2>3, <2>4
    DEF TypeOK, HandleCompleted, Abort, Current, Validate
<1>15. CASE HandleError
  <2>1. stream' \in StreamState
    BY <1>15, NoStreamType DEF TypeOK, HandleError, Abort
  <2>2. part' \in FileOrNone /\ dest' \in FileOrNone
    BY <1>15 DEF TypeOK, FileOrNone, File, HandleError, Abort, Current
  <2>3. events' \in Seq(Event)
    BY <1>15 DEF TypeOK, Event, StreamState, HandleError, Abort, Current
  <2> QED BY <1>15, <2>1, <2>2, <2>3 DEF TypeOK, HandleError, Abort, Current
<1>16. CASE HandleProgress
  <2>1. pending' \in [generation : Nat, bytes : 0 .. Size]
    BY <1>16 DEF TypeOK, StreamState, NoProgress, HandleProgress, Current
  <2>2. bytes' \in 0 .. Size
    BY <1>16 DEF TypeOK, StreamState, FileOrNone, File, HandleProgress, Current, NoProgress
  <2> QED BY <1>16, <2>1, <2>2 DEF TypeOK, HandleProgress, Current, NoProgress
<1>17. CASE FinishStop
  <2>1. stream' \in StreamState
    BY <1>17, NoStreamType DEF TypeOK, FinishStop, EnterPaused
  <2>2. pending' \in [generation : Nat, bytes : 0 .. Size]
    BY <1>17 DEF TypeOK, StreamState, NoProgress, FinishStop, EnterPaused
  <2>3. events' \in Seq(Event)
    BY <1>17 DEF TypeOK, Event, StreamState, FinishStop, EnterPaused, NoProgress
  <2>4. bytes' \in 0 .. Size
    BY <1>17
    DEF TypeOK, StreamState, Length, FileOrNone, File, FinishStop, EnterPaused,
        NoProgress
  <2> QED BY <1>17, <2>1, <2>2, <2>3, <2>4 DEF TypeOK, FinishStop, EnterPaused, NoProgress
<1>18. CASE DropHandle
  <2>1. stream' \in StreamState
    BY <1>18 DEF TypeOK, StreamState, DropHandle
  <2> QED BY <1>18, <2>1 DEF TypeOK, DropHandle
<1>19. CASE Start
  <2>1. stream' \in StreamState
    BY <1>19
    DEF TypeOK, StreamState, NoStream, Start, InitialLifecycleState, InitialProgress,
        InitialProjection, DestAfterStartup, PartAfterStartup, NoProgress
  <2>2. part' \in FileOrNone /\ dest' \in FileOrNone
    BY <1>19
    DEF TypeOK, FileOrNone, File, Start, InitialLifecycleState, InitialProgress,
        InitialProjection, DestAfterStartup, PartAfterStartup, NoProgress
  <2>3. pending' \in [generation : Nat, bytes : 0 .. Size]
    BY <1>19
    DEF TypeOK, StreamState, NoProgress, Start, InitialLifecycleState, InitialProgress,
        InitialProjection, DestAfterStartup, PartAfterStartup
  <2>4. events' \in Seq(Event)
    BY <1>19
    DEF TypeOK, Event, StreamState, Start, InitialLifecycleState, InitialProgress,
        InitialProjection, DestAfterStartup, PartAfterStartup, NoProgress
  <2>5. bytes' \in 0 .. Size
    BY <1>19
    DEF TypeOK, FileOrNone, File, Start, InitialProgress, InitialLifecycleState,
        Validate
  <2>6. /\ phase' \in {"NotDownloaded", "Paused", "Downloaded"}
        /\ projection' \in {"None", "LockedByOther"}
        /\ lock' \in {"free", "dead", "ours", "other"} /\ starts' \in Nat
    BY <1>19 DEF TypeOK, Start, InitialLifecycleState, InitialProjection
  <2> QED BY <1>19, <2>1, <2>2, <2>3, <2>4, <2>5, <2>6 DEF TypeOK, Start, NoProgress
<1>20. CASE Crash
  <2>1. stream' \in StreamState
    BY <1>20 DEF TypeOK, StreamState, NoStream, Crash, NoProgress, Idle
  <2>2. pending' \in [generation : Nat, bytes : 0 .. Size]
    BY <1>20 DEF TypeOK, StreamState, NoProgress, Crash, Idle
  <2>3. call' \in [Caller -> CallState]
    BY <1>20 DEF TypeOK, CallState, Idle, Crash, NoProgress
  <2>4. events' \in Seq(Event)
    BY <1>20 DEF TypeOK, Event, StreamState, Crash, NoProgress, Idle
  <2> QED BY <1>20, <2>1, <2>2, <2>3, <2>4 DEF TypeOK, Crash, NoProgress, Idle
<1>21. CASE Foreign
  <2>1. part' \in FileOrNone /\ dest' \in FileOrNone
    BY <1>21
    DEF TypeOK, FileOrNone, File, Foreign, ForeignAcquire, ForeignRelease, InitialFiles
  <2> QED BY ZenonT(40), <1>21, <2>1 DEF TypeOK, Foreign, ForeignAcquire, ForeignRelease, InitialFiles
<1>22. ASSUME NEW c \in Caller, FinishPause(c) PROVE TypeOK'
  <2>1. stream' \in StreamState
    BY <1>22 DEF TypeOK, StreamState, NoStream, Length, FinishPause, EnterPaused, Answer
  <2>2. call' \in [Caller -> CallState]
    BY <1>22 DEF TypeOK, CallState, Idle, FinishPause, EnterPaused, Answer
  <2>3. bytes' \in 0 .. Size
    BY <1>22
    DEF TypeOK, StreamState, Length, FileOrNone, File, FinishPause, EnterPaused, Answer
  <2> QED BY <1>22, <2>1, <2>2, <2>3 DEF TypeOK, FinishPause, EnterPaused, Answer
<1>23. ASSUME NEW c \in Caller, SendCommand(c) PROVE TypeOK'
  <2>1. call' \in [Caller -> CallState]
    BY <1>23 DEF TypeOK, CallState, Idle, SendCommand, Answer, CallsOnly
  <2> QED BY <1>23, <2>1 DEF TypeOK, SendCommand, Answer, CallsOnly
<1>24. ASSUME NEW c \in Caller, AwaitStopped(c) PROVE TypeOK'
  <2>1. call' \in [Caller -> CallState]
    BY <1>24 DEF TypeOK, CallState, Idle, AwaitStopped, Answer, CallsOnly
  <2> QED BY <1>24, <2>1 DEF TypeOK, AwaitStopped, Answer, CallsOnly
<1>25. ASSUME NEW c \in Caller, HandleDownload(c) PROVE TypeOK'
  <2>1. stream' \in StreamState
    BY <1>25, BeginType, ResumingType
    DEF TypeOK, HandleDownload, NotBegun, Locked, FailFresh, FailResume
  <2>2. part' \in FileOrNone /\ dest' \in FileOrNone
    BY <1>25
    DEF TypeOK, FileOrNone, File, HandleDownload, Serves, NotBegun, Locked, Begin, FailFresh,
        FailResume, Resuming, Answer
  <2>3. call' \in [Caller -> CallState]
    BY <1>25
    DEF TypeOK, CallState, Idle, HandleDownload, Serves, NotBegun, Locked, Begin, FailFresh,
        FailResume, Resuming, Answer
  <2>4. bytes' \in 0 .. Size
    BY <1>25
    DEF TypeOK, StreamState, FileOrNone, File, HandleDownload, Serves, NotBegun, Locked, Begin,
        FailFresh, FailResume, Resuming, Answer
  <2> QED BY <1>25, <2>1, <2>2, <2>3, <2>4
    DEF TypeOK, HandleDownload, Serves, NotBegun, Locked, Begin, FailFresh, FailResume, Resuming,
        Answer
<1>26. ASSUME NEW c \in Caller, HandlePause(c) PROVE TypeOK'
  <2>1. stream' \in StreamState
    BY ZenonT(40), <1>26 DEF TypeOK, StreamState, HandlePause, Serves, Answer
  <2>2. call' \in [Caller -> CallState]
    BY <1>26 DEF TypeOK, CallState, Idle, HandlePause, Serves, Answer
  <2> QED BY <1>26, <2>1, <2>2 DEF TypeOK, HandlePause, Serves, Answer
<1>27. ASSUME NEW c \in Caller, HandleCancel(c) PROVE TypeOK'
  <2>1. stream' \in StreamState
    BY <1>27, NoStreamType DEF TypeOK, HandleCancel, CancelOrRemove, Abort
  <2>2. part' \in FileOrNone /\ dest' \in FileOrNone
    BY <1>27
    DEF TypeOK, FileOrNone, File, HandleCancel, Serves, CancelOrRemove, Abort, Answer
  <2>3. call' \in [Caller -> CallState]
    BY <1>27
    DEF TypeOK, CallState, Idle, HandleCancel, Serves, CancelOrRemove, Abort, Answer
  <2>4. bytes' \in 0 .. Size
    BY <1>27
    DEF TypeOK, StreamState, FileOrNone, File, HandleCancel, Serves, CancelOrRemove,
        Abort, Answer
  <2>5. late' \subseteq {"rename", "truncate", "create"}
    BY <1>27, LateCallsType DEF TypeOK, HandleCancel, CancelOrRemove
  <2> QED BY <1>27, <2>1, <2>2, <2>3, <2>4, <2>5
    DEF TypeOK, HandleCancel, Serves, CancelOrRemove, Abort, Answer
<1>28. ASSUME NEW c \in Caller, HandleRemove(c) PROVE TypeOK'
  <2>1. stream' \in StreamState
    BY <1>28, NoStreamType DEF TypeOK, HandleRemove, CancelOrRemove, Abort
  <2>2. part' \in FileOrNone /\ dest' \in FileOrNone
    BY <1>28
    DEF TypeOK, FileOrNone, File, HandleRemove, Serves, CancelOrRemove, Abort,
        NoProgress
  <2>3. pending' \in [generation : Nat, bytes : 0 .. Size]
    BY <1>28
    DEF TypeOK, StreamState, NoProgress, HandleRemove, Serves, CancelOrRemove, Abort
  <2>4. events' \in Seq(Event)
    BY <1>28
    DEF TypeOK, Event, StreamState, HandleRemove, Serves, CancelOrRemove, Abort,
        NoProgress
  <2>5. call' \in [Caller -> CallState]
    BY <1>28
    DEF TypeOK, CallState, Idle, HandleRemove, Serves, CancelOrRemove, Abort, NoProgress
  <2>6. bytes' \in 0 .. Size
    BY <1>28
    DEF TypeOK, StreamState, FileOrNone, File, HandleRemove, Serves, CancelOrRemove,
        Abort, NoProgress
  <2>7. late' \subseteq {"rename", "truncate", "create"}
    BY <1>28, LateCallsType DEF TypeOK, HandleRemove, CancelOrRemove
  <2> QED BY <1>28, <2>1, <2>2, <2>3, <2>4, <2>5, <2>6, <2>7
    DEF TypeOK, HandleRemove, Serves, CancelOrRemove, Abort, NoProgress
<1>29. ASSUME NEW c \in Caller, NEW op \in Operation, Ask(c, op) PROVE TypeOK'
  <2>1. call' \in [Caller -> CallState]
    BY <1>29 DEF TypeOK, CallState, Idle, Ask, HasHandle, CallsOnly, Operation
  <2> QED BY <1>29, <2>1 DEF TypeOK, Ask, HasHandle, CallsOnly
<1> QED
  BY <1>1, <1>2, <1>3, <1>4, <1>5, <1>6, <1>7, <1>8, <1>9, <1>10, <1>11, <1>12, <1>13,
      <1>14, <1>15, <1>16, <1>17, <1>18, <1>19, <1>20, <1>21, <1>22, <1>23, <1>24, <1>25,
      <1>26, <1>27, <1>28, <1>29
  DEF Next, StreamStep, ServerStep, ActorStep, Serve, CallStep

\* A stream begins with the lease and ends, or is aborted, when the lease goes back.
LEMMA OwnershipStep ==
  ASSUME TypeOK, Ownership, Next PROVE Ownership'
<1> USE DEF Ownership, Downloading
<1>1. CASE StreamStep \/ ServerStep
  BY <1>1, StreamEffect DEF Live, NoStream
<1>2. CASE LateCall
  BY <1>2, LateEffect
<1>3. CASE HandleCompleted \/ HandleError
  BY <1>3 DEF HandleCompleted, HandleError, Current, Abort
<1>4. CASE HandleProgress
  BY <1>4 DEF HandleProgress
<1>5. CASE FinishStop
  BY <1>5 DEF FinishStop, EnterPaused
<1>6. CASE DropHandle
  BY <1>6 DEF DropHandle, TypeOK, StreamState
<1>7. CASE Start
  <2>1. phase' # "Downloading" /\ stream' = NoStream /\ lock' # "ours"
    BY <1>7 DEF Start, InitialLifecycleState
  <2> QED BY <2>1
<1>8. CASE Crash
  BY <1>8 DEF Crash
<1>9. CASE Foreign
  BY <1>9 DEF Foreign, ForeignAcquire, ForeignRelease
<1>10. ASSUME NEW c \in Caller, FinishPause(c) PROVE Ownership'
  BY <1>10 DEF FinishPause, EnterPaused
<1>11. ASSUME NEW c \in Caller, HandleDownload(c) PROVE Ownership'
  BY <1>11, DownloadEffect DEF HandleDownload, Serves
<1>12. ASSUME NEW c \in Caller, HandlePause(c) PROVE Ownership'
  BY <1>12 DEF HandlePause, Serves, TypeOK, StreamState
<1>13. ASSUME NEW c \in Caller, HandleCancel(c) \/ HandleRemove(c) PROVE Ownership'
  BY <1>13 DEF HandleCancel, HandleRemove, CancelOrRemove, Abort
<1>14. ASSUME NEW c \in Caller, CallStep(c) \/ \E op \in Operation : Ask(c, op) PROVE Ownership'
  BY <1>14 DEF CallStep, SendCommand, AwaitStopped, Ask, CallsOnly
<1> QED
  BY <1>1, <1>2, <1>3, <1>4, <1>5, <1>6, <1>7, <1>8, <1>9, <1>10, <1>11, <1>12, <1>13,
     <1>14
  DEF Next, ActorStep, Serve

\* Whatever takes the stream to "reporting" gives it an outcome.
LEMMA OutcomeStep ==
  ASSUME TypeOK, Ownership, OutcomeKnown, Next PROVE OutcomeKnown'
<1> USE DEF OutcomeKnown
<1>1. CASE Measure \/ Respond \/ NothingLeft \/ OpenPart \/ Receive \/ EndOfBody \/ Retry \/ Report
  BY ZenonT(40), <1>1 DEF TypeOK, StreamState, Measure, Respond, NothingLeft, OpenPart, Receive, EndOfBody,
              Retry, Report
<1>2. CASE NoticePause
  BY <1>2 DEF NoticePause, Outcome, TypeOK, StreamState
<1>3. CASE RangeRefused \/ FailAttempt
  BY <1>3, AttemptEffect DEF RangeRefused, FailAttempt, TypeOK
<1>4. CASE RenamePart
  BY <1>4, AttemptEffect DEF RenamePart, Outcome, TypeOK, StreamState
<1>5. CASE LateCall
  BY <1>5, LateEffect
<1>6. ASSUME stream' \in {stream, NoStream, [stream EXCEPT !.pause = TRUE]}
      PROVE  OutcomeKnown'
  BY <1>6 DEF NoStream, TypeOK, StreamState
<1>7. CASE ActorStep \/ DropHandle \/ Start \/ Crash \/ Foreign
  BY <1>6, <1>7 DEF ActorStep, HandleCompleted, HandleError, HandleProgress, FinishStop,
                    FinishPause, EnterPaused, Abort, DropHandle, Start, Crash, Foreign
<1>8. ASSUME NEW c \in Caller, Serve(c) PROVE OutcomeKnown'
  <2>1. CASE HandleDownload(c)
    BY <2>1, DownloadEffect
  <2>2. CASE HandlePause(c) \/ HandleCancel(c) \/ HandleRemove(c)
    BY <1>6, <2>2 DEF HandlePause, HandleCancel, HandleRemove, CancelOrRemove, Abort
  <2> QED BY <1>8, <2>1, <2>2 DEF Serve
<1>9. ASSUME NEW c \in Caller, CallStep(c) \/ \E op \in Operation : Ask(c, op)
      PROVE  OutcomeKnown'
  BY <1>9 DEF CallStep, SendCommand, AwaitStopped, Ask, CallsOnly
<1> QED
  BY <1>1, <1>2, <1>3, <1>4, <1>5, <1>7, <1>8, <1>9 DEF Next, StreamStep, ServerStep

\* Nothing but the stream itself writes the file it has open: the part file goes away
\* under it, or becomes empty, or becomes the destination, but never grows.
LEMMA FitStep ==
  ASSUME TypeOK, Ownership, OpenFileFits, Next PROVE OpenFileFits'
<1> USE DEF OpenFileFits
<1>1. ASSUME stream'.at \notin {"requesting", "opening", "receiving"} PROVE OpenFileFits'
  BY <1>1
<1>2. CASE Measure
  <2>1. /\ stream'.at = "requesting" /\ stream'.from = Length(part) /\ part' = part
        /\ Length(part) \in 0 .. Size
    BY <1>2, LengthType DEF Measure, TypeOK, StreamState
  <2>2. Length(part)' = Length(part)
    BY <2>1 DEF Length
  <2> QED BY <2>1, <2>2
<1>3. CASE Respond
  <2>1. /\ stream'.at = "opening" /\ stream'.from \in {stream.from, 0} /\ part' = part
    BY <1>3 DEF Respond, TypeOK, StreamState
  <2> QED BY <1>3, <2>1 DEF Respond, Length
<1>4. CASE OpenPart
  <2>1. stream'.at = "receiving" /\ stream'.file = "part" /\ stream'.received = stream.from
    BY <1>4 DEF OpenPart, TypeOK, StreamState
  <2>2. part' # NoFile /\ part'.length <= stream.from
    <3>1. CASE stream.from = 0 \/ part = NoFile
      <4>1. part' = [length |-> 0, sound |-> TRUE] /\ stream.from \in 0 .. Size
        BY <1>4, <3>1 DEF OpenPart, Opened, TypeOK, StreamState
      <4>2. [length |-> 0, sound |-> TRUE] \in File
        BY DEF File
      <4>3. part' \in File /\ part'.length = 0 /\ 0 <= stream.from
        BY <4>1, <4>2
      <4> QED BY <4>3
    <3>2. CASE stream.from # 0 /\ part # NoFile
      BY <1>4, <3>2 DEF OpenPart, Opened, Length, TypeOK, StreamState
    <3> QED BY <3>1, <3>2
  <2> QED BY <2>1, <2>2
<1>5. CASE Receive
  <2>1. /\ stream \in StreamState /\ part \in FileOrNone /\ dest \in FileOrNone
        /\ stream.received + 1 \in 0 .. Size
    BY <1>5 DEF Receive, TypeOK, StreamState
  <2>2. /\ stream'.at = "receiving" /\ stream'.received = stream.received + 1
        /\ stream'.file = stream.file
    BY <1>5, <2>1 DEF Receive, StreamState
  <2>3. ASSUME NEW f \in File, f.length <= stream.received
        PROVE  Extended(f) # NoFile /\ Extended(f).length <= stream.received + 1
    <3>1. Extended(f) \in File /\ Extended(f).length <= stream.received + 1
      BY <2>1, <2>3 DEF Extended, File, StreamState
    <3> QED BY <3>1
  <2> QED BY <1>5, <2>1, <2>2, <2>3 DEF Receive, FileOrNone
<1>6. CASE NothingLeft \/ EndOfBody \/ Retry \/ Report
  BY ZenonT(40), <1>1, <1>6 DEF NothingLeft, EndOfBody, Retry, Report, TypeOK, StreamState
<1>7. CASE NoticePause
  BY <1>1, <1>7 DEF NoticePause, Outcome, TypeOK, StreamState
<1>8. CASE RangeRefused \/ FailAttempt
  BY <1>1, <1>8, AttemptEffect DEF RangeRefused, FailAttempt, TypeOK
<1>9. CASE RenamePart
  BY <1>1, <1>9, AttemptEffect DEF RenamePart, Outcome, TypeOK, StreamState
<1>10. CASE LateCall
  <2>1. CASE RenameFile /\ stream' = Moved
    <3>1. part' = NoFile /\ dest' = part /\ stream'.at = stream.at
      BY <1>10, <2>1, LateEffect DEF RenameFile
    <3>2. CASE stream.at = "receiving"
      BY <2>1, <3>1, <3>2 DEF Moved, TypeOK, StreamState
    <3>3. CASE stream.at # "receiving"
      BY <2>1, <3>1, <3>3 DEF Moved, Length, TypeOK, StreamState
    <3> QED BY <3>2, <3>3
  <2>2. CASE /\ UNCHANGED <<dest, stream>>
             /\ part' \in {part, [length |-> 0, sound |-> TRUE]}
    <3>1. CASE part' = part
      BY <2>2, <3>1
    <3>2. CASE part' = [length |-> 0, sound |-> TRUE]
      <4>1. part' \in File
        BY <3>2 DEF File
      <4>2. part' # NoFile /\ part'.length = 0 /\ stream'.at = stream.at
        BY <2>2, <3>2, <4>1
      <4>3. stream.from \in Nat /\ stream.received \in Nat
        BY DEF TypeOK, StreamState
      <4> QED BY <2>2, <4>2, <4>3 DEF Length
    <3> QED BY <2>2, <3>1, <3>2
  <2> QED BY <1>10, <2>1, <2>2 DEF LateCall
<1>11. ASSUME stream' = NoStream PROVE OpenFileFits'
  BY <1>11 DEF NoStream
<1>12. ASSUME UNCHANGED <<stream, part, dest>> PROVE OpenFileFits'
  BY <1>12
<1>13. CASE HandleCompleted \/ HandleError \/ FinishStop \/ Start \/ Crash
  BY <1>11, <1>12, <1>13 DEF HandleCompleted, HandleError, FinishStop, EnterPaused, Start,
                             Crash, Abort, Ownership
<1>14. CASE HandleProgress
  BY <1>14
  DEF HandleProgress
<1>15. CASE DropHandle
  BY <1>15 DEF DropHandle, TypeOK, StreamState
<1>16. CASE Foreign
  BY <1>11, <1>12, <1>16 DEF Foreign, ForeignAcquire, ForeignRelease, Ownership
<1>17. ASSUME NEW c \in Caller, FinishPause(c) PROVE OpenFileFits'
  BY <1>11, <1>17 DEF FinishPause, EnterPaused
<1>18. ASSUME NEW c \in Caller, HandleDownload(c) PROVE OpenFileFits'
  <2>1. CASE stream'.at = "measuring"
    BY <1>1, <2>1
  <2>2. CASE stream' = stream /\ Downloading
    BY <1>18, <2>2, DownloadEffect, <1>12 DEF HandleDownload
  <2>3. CASE stream' = stream /\ ~Downloading
    BY <1>11, <2>3 DEF Ownership
  <2> QED BY <1>18, <2>1, <2>2, <2>3, DownloadEffect
<1>19. ASSUME NEW c \in Caller, HandlePause(c) PROVE OpenFileFits'
  BY <1>19 DEF HandlePause, TypeOK, StreamState
<1>20. ASSUME NEW c \in Caller, HandleCancel(c) \/ HandleRemove(c) PROVE OpenFileFits'
  <2>1. stream' = NoStream
    BY <1>20 DEF HandleCancel, HandleRemove, CancelOrRemove, Abort, Ownership, Downloading
  <2> QED BY <1>11, <2>1
<1>21. ASSUME NEW c \in Caller, CallStep(c) \/ \E op \in Operation : Ask(c, op)
       PROVE  OpenFileFits'
  BY <1>12, <1>21 DEF CallStep, SendCommand, AwaitStopped, Ask, CallsOnly
<1> QED
  BY <1>2, <1>3, <1>4, <1>5, <1>6, <1>7, <1>8, <1>9, <1>10, <1>13, <1>14, <1>15, <1>16,
     <1>17, <1>18, <1>19, <1>20, <1>21
  DEF Next, StreamStep, ServerStep, ActorStep, Serve

LEMMA InitCommon == ASSUME Init PROVE Common
<1> USE DEF Init
<1>1. TypeOK
  <2>1. stream \in StreamState
    BY NoStreamType
  <2>2. part \in FileOrNone /\ dest \in FileOrNone
    BY DEF InitialFiles, FileOrNone
  <2>3. pending \in [generation : Nat, bytes : 0 .. Size]
    BY DEF NoProgress
  <2>4. call \in [Caller -> CallState]
    BY DEF CallState
  <2>5. events \in Seq(Event) /\ 0 \in 0 .. Size /\ 0 \in Nat
    OBVIOUS
  <2>6. lock \in {"free", "dead", "ours", "other"}
    OBVIOUS
  <2> QED BY <2>1, <2>2, <2>3, <2>4, <2>5, <2>6 DEF TypeOK
<1>2. OpenFileFits /\ OutcomeKnown /\ Ownership
  BY DEF OpenFileFits, OutcomeKnown, Ownership, Downloading, NoStream
<1> QED BY <1>1, <1>2 DEF Common

LEMMA CommonStep == ASSUME Common, [Next]_vars PROVE Common'
<1>1. CASE Next
  BY <1>1, TypeStep, FitStep, OutcomeStep, OwnershipStep DEF Common
<1>2. CASE UNCHANGED vars
  BY <1>2 DEF vars, Common, TypeOK, OpenFileFits, OutcomeKnown, Ownership, Downloading, Length
<1> QED BY <1>1, <1>2

LEMMA CommonHolds == Spec => []Common
  BY InitCommon, CommonStep, PTL DEF Spec

\* Every variable keeps its type: in particular a file never outgrows the server's,
\* although a stream counts its bytes while other calls replace the file it writes.
THEOREM TypeCorrect == Spec => []TypeOK
  BY CommonHolds, PTL DEF Common

-----------------------------------------------------------------------------
(* No stream without the lease, no lease without a download.                *)

\* A file is written only by the download the actor believes to be running, and
\* only while the actor holds the destination: whatever commands, events, drops and
\* crashes interleave, no stream outlives the lease it was started under.
THEOREM StreamsStayUnderLease == Spec => []StreamUnderLease
<1>1. Common => StreamUnderLease
  BY DEF Common, Ownership, StreamUnderLease, Live, NoStream
<1> QED BY <1>1, CommonHolds, PTL

-----------------------------------------------------------------------------
(* Trouble is only shown by an idle task.                                   *)

LEMMA TroubleStep == ASSUME Common, TroubleMeansIdle, [Next]_vars PROVE TroubleMeansIdle'
<1> USE DEF Common, TroubleMeansIdle
<1>1. CASE StreamStep \/ ServerStep
  BY <1>1, StreamEffect DEF display
<1>2. CASE LateCall
  BY <1>2, LateEffect
<1>3. CASE ActorStep
  BY <1>3 DEF ActorStep, HandleCompleted, HandleError, HandleProgress, FinishStop,
              FinishPause, EnterPaused
<1>4. CASE Start
  BY <1>4 DEF Start, InitialLifecycleState, InitialProjection
<1>5. CASE DropHandle \/ Crash \/ Foreign
  BY <1>5 DEF DropHandle, Crash, Foreign
<1>6. ASSUME NEW c \in Caller, HandleDownload(c) PROVE TroubleMeansIdle'
  <2>1. phase' \in {"NotDownloaded", "Paused"} \/ projection' = "None"
        \/ UNCHANGED <<phase, projection>>
    BY <1>6, DownloadEffect DEF TypeOK
  <2> QED BY <2>1
<1>7. ASSUME NEW c \in Caller, HandlePause(c) \/ HandleCancel(c) \/ HandleRemove(c)
      PROVE  TroubleMeansIdle'
  BY <1>7 DEF HandlePause, HandleCancel, HandleRemove, CancelOrRemove
<1>8. ASSUME NEW c \in Caller, CallStep(c) \/ \E op \in Operation : Ask(c, op)
      PROVE  TroubleMeansIdle'
  BY <1>8 DEF CallStep, SendCommand, AwaitStopped, Ask, CallsOnly
<1>9. CASE UNCHANGED vars
  BY <1>9 DEF vars
<1> QED
  BY <1>1, <1>2, <1>3, <1>4, <1>5, <1>6, <1>7, <1>8, <1>9 DEF Next, Serve

\* An error, or another application's lock, is on show only while nothing is
\* downloaded or downloading: every way out of trouble takes the message down.
THEOREM TroubleIsTakenDown == Spec => []TroubleMeansIdle
<1>1. Init => TroubleMeansIdle
  BY DEF Init, TroubleMeansIdle
<1> QED BY <1>1, TroubleStep, CommonHolds, PTL DEF Spec

-----------------------------------------------------------------------------
(* A stopped task is quiet.                                                 *)

\* Who waits for an answer of the actor: one caller of a pause at most, nobody while
\* the task stops, and only those who wait for its end when it has stopped.
CallsInOrder ==
  /\ \A c \in Caller : call[c].at = "served" => actor = "pausing"
  /\ \A c, d \in Caller : call[c].at = "served" /\ call[d].at = "served" => c = d
  /\ actor \in {"stopping", "down"} => AllIdle
  /\ actor = "stopped" => \A c \in Caller : call[c].at # "sent"

LEMMA CallsStep == ASSUME Common, CallsInOrder, [Next]_vars PROVE CallsInOrder'
<1> USE DEF Common, CallsInOrder, AllIdle, Idle
<1>0. call \in [Caller -> CallState]
  BY DEF TypeOK
<1>1. ASSUME UNCHANGED <<actor, call>> PROVE CallsInOrder'
  BY <1>1
<1>2. CASE StreamStep \/ ServerStep
  BY <1>1, <1>2, StreamEffect
<1>3. CASE LateCall
  BY <1>1, <1>3, LateEffect
<1>4. CASE HandleCompleted \/ HandleError \/ HandleProgress \/ Foreign
  BY <1>1, <1>4 DEF HandleCompleted, HandleError, HandleProgress, Foreign
<1>5. CASE FinishStop \/ DropHandle
  BY <1>5 DEF FinishStop, DropHandle
<1>6. CASE Start \/ Crash
  BY <1>6 DEF Start, Crash
<1>7. ASSUME NEW c \in Caller, FinishPause(c) PROVE CallsInOrder'
  BY <1>0, <1>7 DEF FinishPause, Answer
<1>8. ASSUME NEW c \in Caller, HandleDownload(c) \/ HandlePause(c) \/ HandleCancel(c)
      PROVE  CallsInOrder'
  BY <1>0, <1>8 DEF HandleDownload, HandlePause, HandleCancel, Serves, Answer, CallState
<1>9. ASSUME NEW c \in Caller, HandleRemove(c) PROVE CallsInOrder'
  BY <1>0, <1>9 DEF HandleRemove, Serves, CallState
<1>10. ASSUME NEW c \in Caller, CallStep(c) PROVE CallsInOrder'
  BY <1>0, <1>10 DEF CallStep, SendCommand, AwaitStopped, Answer, CallsOnly, CallState
<1>11. ASSUME NEW c \in Caller, NEW op \in Operation, Ask(c, op) PROVE CallsInOrder'
  BY <1>0, <1>11 DEF Ask, HasHandle, CallsOnly, CallState
<1>12. CASE UNCHANGED vars
  BY <1>1, <1>12 DEF vars
<1> QED
  BY <1>2, <1>3, <1>4, <1>5, <1>6, <1>7, <1>8, <1>9, <1>10, <1>11, <1>12
  DEF Next, ActorStep, Serve

\* However a task stops (a remove, or the last handle dropped, in the middle of a
\* download or of other calls), it leaves no lease, no stream and no caller who waits
\* for an answer that will not come.
THEOREM StoppedTasksAreQuiet == Spec => []StoppedIsQuiet
<1>1. Init => CallsInOrder
  BY DEF Init, CallsInOrder, AllIdle, Idle
<1>2. Spec => []CallsInOrder
  BY <1>1, CallsStep, CommonHolds, PTL DEF Spec
<1>3. Common /\ CallsInOrder => StoppedIsQuiet
  BY DEF Common, Ownership, CallsInOrder, StoppedIsQuiet
<1> QED BY <1>2, <1>3, CommonHolds, PTL

-----------------------------------------------------------------------------
(* The channel of events.                                                   *)

\* Every download adds at most one event: those in the channel, and the one a live
\* stream will send, are fewer than the generations.
EventsAreFew ==
  actor # "down" => Len(events) + (IF Live THEN 1 ELSE 0) < generation

LEMMA EventsFewStep ==
  ASSUME Common, EventsAreFew, [Next]_vars PROVE EventsAreFew'
<1> USE DEF Common, EventsAreFew
<1>0. events \in Seq(Event) /\ generation \in Nat /\ Len(events) \in Nat
  BY DEF TypeOK
<1>1. ASSUME UNCHANGED <<events, generation>>, Live' => Live,
             actor' # "down" => actor # "down"
      PROVE  EventsAreFew'
  BY <1>0, <1>1
<1>2. CASE Report
  <2>1. Live /\ ~Live' /\ UNCHANGED <<actor, generation>>
    BY <1>2 DEF Report, Live, TypeOK, StreamState
  <2>2. events' = events \/ \E e : events' = Append(events, e)
    BY <1>2 DEF Report
  <2>3. Len(events') <= Len(events) + 1 /\ Len(events') \in Nat
    BY <1>0, <2>2
  <2> QED BY <1>0, <2>1, <2>3
<1>3. CASE (StreamStep \/ ServerStep) /\ events' = events
  BY <1>1, <1>3, StreamEffect
<1>4. ASSUME StreamStep \/ ServerStep PROVE Report \/ events' = events
  BY <1>4 DEF StreamStep, ServerStep, Measure, Respond, NothingLeft, RangeRefused, OpenPart,
              Receive, EndOfBody, RenamePart, FailAttempt, NoticePause, Retry
<1>5. CASE LateCall
  BY <1>1, <1>5, LateEffect DEF Live
<1>6. CASE HandleCompleted \/ HandleError
  <2>1. /\ actor = "running" /\ UNCHANGED <<actor, generation>>
        /\ events # <<>> /\ events' = Tail(events)
    BY <1>6 DEF HandleCompleted, HandleError
  <2>2. Live' => Live
    BY <1>6 DEF HandleCompleted, HandleError, Abort, Live, NoStream
  <2>3. Len(events') = Len(events) - 1
    BY <1>0, <2>1
  <2> QED BY <1>0, <2>1, <2>2, <2>3
<1>7. CASE HandleProgress \/ DropHandle \/ Foreign
  BY <1>1, <1>7 DEF HandleProgress, DropHandle, Foreign, Live, TypeOK, StreamState
<1>8. CASE FinishStop \/ Start
  <2>1. ~Live'
    BY <1>8 DEF FinishStop, Start, EnterPaused, Ownership, Live, NoStream
  <2>2. events' = <<>> /\ generation' \in {generation, 1}
    BY <1>8 DEF FinishStop, Start
  <2>3. generation' > 0
    BY <1>0, <1>8 DEF FinishStop, Start
  <2> QED BY <1>0, <2>1, <2>2, <2>3
<1>9. CASE Crash
  BY <1>9 DEF Crash
<1>10. ASSUME NEW c \in Caller, FinishPause(c) \/ HandlePause(c) \/ HandleCancel(c)
       PROVE  EventsAreFew'
  <2>1. Live' => Live
    BY <1>10 DEF FinishPause, EnterPaused, HandlePause, HandleCancel, CancelOrRemove, Abort,
                 Live, NoStream, TypeOK, StreamState
  <2> QED BY <1>1, <1>10, <2>1 DEF FinishPause, HandlePause, HandleCancel, Serves
<1>11. ASSUME NEW c \in Caller, HandleRemove(c) PROVE EventsAreFew'
  <2>1. ~Live' /\ events' = <<>> /\ generation' = generation /\ actor # "down"
    BY <1>11 DEF HandleRemove, Serves, CancelOrRemove, Abort, Ownership, Downloading, Live,
                 NoStream
  <2> QED BY <1>0, <2>1
<1>12. ASSUME NEW c \in Caller, HandleDownload(c) PROVE EventsAreFew'
  <2>1. actor # "down" /\ events' = events
    BY <1>12 DEF HandleDownload, Serves
  <2>2. CASE generation' = generation + 1 /\ ~Live
    BY <1>0, <2>1, <2>2
  <2>3. CASE stream' = stream /\ generation' \in {generation, generation + 1}
    BY <1>0, <2>1, <2>3 DEF Live
  <2> QED BY <1>12, <2>2, <2>3, DownloadEffect DEF Ownership, Downloading, Live, NoStream
<1>13. ASSUME NEW c \in Caller, CallStep(c) \/ \E op \in Operation : Ask(c, op)
       PROVE  EventsAreFew'
  BY <1>1, <1>13 DEF CallStep, SendCommand, AwaitStopped, Ask, CallsOnly, Live
<1>14. CASE UNCHANGED vars
  BY <1>1, <1>14 DEF vars, Live
<1> QED
  BY <1>2, <1>3, <1>4, <1>5, <1>6, <1>7, <1>8, <1>9, <1>10, <1>11, <1>12, <1>13, <1>14
  DEF Next, ActorStep, Serve

\* A stream that has to report finds room in the channel while its task has started no
\* more downloads than the channel has places: the actor that waits for the stream to
\* end, and takes no events meanwhile, does not wait for a stream that waits for it.
THEOREM ReportsFindRoom == Spec => []ReportNeverBlocks
<1>1. Init => EventsAreFew
  BY DEF Init, EventsAreFew
<1>2. Spec => []EventsAreFew
  BY <1>1, EventsFewStep, CommonHolds, PTL DEF Spec
<1>3. ASSUME Common, EventsAreFew PROVE ReportNeverBlocks
  <2>1. events \in Seq(Event) /\ Len(events) \in Nat /\ generation \in Nat
    BY <1>3 DEF Common, TypeOK
  <2>2. stream.at = "reporting" => Live /\ actor # "down"
    BY <1>3 DEF Common, Ownership, Live, NoStream
  <2> QED BY <1>3, <2>1, <2>2, TaskAssumption DEF TaskAssumption, EventsAreFew, ReportNeverBlocks
<1> QED BY <1>2, <1>3, CommonHolds, PTL

-----------------------------------------------------------------------------
(* The promise of DownloadLifecycle.                                        *)

LEMMA LifecycleStep == ASSUME Common, [Next]_vars PROVE [Lifecycle!Next]_Lifecycle!vars
<1> USE DEF Common, Ownership, Downloading, Lifecycle!vars, Lifecycle!Next
<1>1. CASE StreamStep \/ ServerStep
  BY <1>1, StreamEffect
<1>2. CASE LateCall
  BY <1>2, LateEffect
<1>3. CASE HandleCompleted \/ HandleError
  BY <1>3 DEF HandleCompleted, HandleError, Current, Lifecycle!End, Lifecycle!Finish,
              Lifecycle!Abandon
<1>4. CASE HandleProgress \/ DropHandle \/ Foreign
  BY <1>4 DEF HandleProgress, DropHandle, Foreign, ForeignAcquire, ForeignRelease
<1>5. CASE FinishStop
  BY <1>5 DEF FinishStop, EnterPaused, Lifecycle!Close, Lifecycle!Suspend
<1>6. CASE Start
  <2>1. phase' \in {"NotDownloaded", "Paused", "Downloaded"} /\ lock' # "ours"
    BY <1>6 DEF Start, InitialLifecycleState
  <2> QED BY <1>6, <2>1 DEF Start, Lifecycle!Open
<1>7. CASE Crash
  BY <1>7 DEF Crash, Lifecycle!Close, Lifecycle!Forget
<1>8. ASSUME NEW c \in Caller, FinishPause(c) PROVE [Lifecycle!Next]_Lifecycle!vars
  BY <1>8 DEF FinishPause, EnterPaused, NoStream, Lifecycle!End, Lifecycle!Suspend
<1>9. ASSUME NEW c \in Caller, HandleDownload(c) PROVE [Lifecycle!Next]_Lifecycle!vars
  BY <1>9, DownloadEffect DEF HandleDownload, Serves, Lifecycle!Begin, Lifecycle!End,
                              Lifecycle!Abandon
<1>10. ASSUME NEW c \in Caller, HandlePause(c) PROVE [Lifecycle!Next]_Lifecycle!vars
  BY <1>10 DEF HandlePause, Serves
<1>11. ASSUME NEW c \in Caller, HandleCancel(c) PROVE [Lifecycle!Next]_Lifecycle!vars
  BY <1>11 DEF HandleCancel, Serves, CancelOrRemove, Lifecycle!End, Lifecycle!Abandon
<1>12. ASSUME NEW c \in Caller, HandleRemove(c) PROVE [Lifecycle!Next]_Lifecycle!vars
  BY <1>12 DEF HandleRemove, Serves, CancelOrRemove, Lifecycle!Close
<1>13. ASSUME NEW c \in Caller, CallStep(c) \/ \E op \in Operation : Ask(c, op)
       PROVE  [Lifecycle!Next]_Lifecycle!vars
  BY <1>13 DEF CallStep, SendCommand, AwaitStopped, Ask, CallsOnly
<1>14. CASE UNCHANGED vars
  BY <1>14 DEF vars
<1> QED
  BY <1>1, <1>2, <1>3, <1>4, <1>5, <1>6, <1>7, <1>8, <1>9, <1>10, <1>11, <1>12, <1>13, <1>14
  DEF Next, ActorStep, Serve

\* The actor, its stream, its callers, late file system calls, other applications and
\* crashes together keep the promise of DownloadLifecycle: Downloaded is final while
\* the task is open, and the destination is leased exactly while it is Downloading.
THEOREM TasksFollowTheLifecycle == Spec => LifecycleSpec
<1>1. Init => Lifecycle!Init
  BY DEF Init, Lifecycle!Init
<1> QED BY <1>1, LifecycleStep, CommonHolds, PTL DEF Spec, LifecycleSpec, Lifecycle!Spec

-----------------------------------------------------------------------------
(* Only the running download's own completion completes it.                 *)

\* An event of the running download is the last thing that download did; the others
\* are of downloads before it.
EventsAreDated ==
  \A i \in DOMAIN events :
    /\ events[i].generation <= generation
    /\ Downloading /\ events[i].generation = generation
         => stream.at = "done" /\ stream.outcome = events[i].kind

LEMMA DatedStep == ASSUME Common, EventsAreDated, [Next]_vars PROVE EventsAreDated'
<1> USE DEF Common, EventsAreDated
<1>0. /\ events \in Seq(Event) /\ generation \in Nat
      /\ \A i \in DOMAIN events : events[i].generation \in Nat
  <2>1. events \in Seq(Event) /\ generation \in Nat
    BY DEF TypeOK
  <2>2. \A i \in DOMAIN events : events[i] \in Event
    BY <2>1
  <2> QED BY <2>1, <2>2 DEF Event
<1>1. ASSUME UNCHANGED <<events, generation>>,
             Downloading' => Downloading /\ stream'.at = stream.at
                                         /\ stream'.outcome = stream.outcome
      PROVE  EventsAreDated'
  BY <1>1
<1>2. CASE Report
  <2>1. /\ Live /\ Downloading /\ stream.generation = generation /\ stream'.at = "done"
        /\ stream'.outcome = stream.outcome /\ UNCHANGED <<phase, generation>>
    BY <1>2 DEF Report, Live, Ownership, NoStream, TypeOK, StreamState
  <2>2. \A i \in DOMAIN events : events[i].generation # generation
    BY <1>2, <2>1 DEF Report
  <2>3. CASE events' = events
    BY <2>1, <2>2, <2>3
  <2>4. CASE events' = Append(events, [kind |-> stream.outcome,
                                       generation |-> stream.generation])
    <3>1. ASSUME NEW i \in DOMAIN events'
          PROVE  \/ i \in DOMAIN events /\ events'[i] = events[i]
                 \/ events'[i] = [kind |-> stream.outcome, generation |-> stream.generation]
      BY <1>0, <2>4, <3>1
    <3> QED BY <1>0, <2>1, <2>2, <3>1 DEF Downloading
  <2> QED BY <1>2, <2>3, <2>4 DEF Report
<1>3. CASE (StreamStep \/ ServerStep) /\ events' = events
  <2>1. /\ Live /\ Downloading /\ stream.at # "done"
        /\ UNCHANGED <<phase, generation>>
    BY <1>3, StreamEffect DEF Live, Ownership, NoStream
  <2>2. \A i \in DOMAIN events : events[i].generation # generation
    BY <2>1
  <2> QED BY <1>3, <2>1, <2>2
<1>4. ASSUME StreamStep \/ ServerStep PROVE Report \/ events' = events
  BY <1>4 DEF StreamStep, ServerStep, Measure, Respond, NothingLeft, RangeRefused, OpenPart,
              Receive, EndOfBody, RenamePart, FailAttempt, NoticePause, Retry
<1>5. CASE LateCall
  BY <1>1, <1>5, LateEffect DEF Downloading
<1>6. CASE HandleCompleted \/ HandleError
  <2>1. /\ events # <<>> /\ events' = Tail(events) /\ generation' = generation
        /\ Downloading' => Downloading /\ stream' = stream
    BY <1>6 DEF HandleCompleted, HandleError, Downloading
  <2>2. \A i \in DOMAIN events' : i + 1 \in DOMAIN events /\ events'[i] = events[i + 1]
    BY <1>0, <2>1
  <2> QED BY <2>1, <2>2
<1>7. CASE HandleProgress \/ DropHandle \/ Foreign
  BY <1>1, <1>7
  DEF HandleProgress, DropHandle, Foreign, Downloading, TypeOK, StreamState
<1>8. CASE FinishStop \/ Start \/ Crash
  BY <1>8 DEF FinishStop, Start, Crash
<1>9. ASSUME NEW c \in Caller, FinishPause(c) \/ HandlePause(c) \/ HandleCancel(c)
      PROVE  EventsAreDated'
  BY <1>1, <1>9
  DEF FinishPause, EnterPaused, HandlePause, HandleCancel, CancelOrRemove, Downloading,
      TypeOK, StreamState
<1>10. ASSUME NEW c \in Caller, HandleRemove(c) PROVE EventsAreDated'
  BY <1>10 DEF HandleRemove
<1>11. ASSUME NEW c \in Caller, HandleDownload(c) PROVE EventsAreDated'
  <2>1. events' = events
    BY <1>11 DEF HandleDownload
  <2>2. CASE generation' = generation + 1
    BY <1>0, <2>1, <2>2
  <2>3. CASE stream' = stream /\ generation' = generation /\ (Downloading' => Downloading)
    BY <1>1, <2>1, <2>3
  <2> QED BY <1>11, <2>2, <2>3, DownloadEffect DEF Downloading
<1>12. ASSUME NEW c \in Caller, CallStep(c) \/ \E op \in Operation : Ask(c, op)
       PROVE  EventsAreDated'
  BY <1>1, <1>12 DEF CallStep, SendCommand, AwaitStopped, Ask, CallsOnly, Downloading
<1>13. CASE UNCHANGED vars
  BY <1>1, <1>13 DEF vars, Downloading
<1> QED
  BY <1>2, <1>3, <1>4, <1>5, <1>6, <1>7, <1>8, <1>9, <1>10, <1>11, <1>12, <1>13
  DEF Next, ActorStep, Serve

\* Of all steps only the handler of a current completion ends a download well.
LEMMA GenuineStep ==
  ASSUME Common, EventsAreDated, [Next]_vars, phase = "Downloading", phase' = "Downloaded"
  PROVE  stream.at = "done" /\ stream.outcome = "Completed"
<1> USE DEF Common
<1>1. CASE HandleCompleted
  <2>1. Current(Head(events)) /\ events # <<>> /\ Head(events).kind = "Completed"
    BY <1>1 DEF HandleCompleted
  <2>2. events \in Seq(Event) /\ Head(events) = events[1] /\ 1 \in DOMAIN events
    BY <2>1 DEF TypeOK
  <2> QED BY <2>1, <2>2 DEF Current, EventsAreDated, Ownership
<1>2. CASE StreamStep \/ ServerStep
  BY <1>2, StreamEffect
<1>3. CASE LateCall
  BY <1>3, LateEffect
<1>4. CASE HandleError \/ HandleProgress \/ FinishStop \/ DropHandle \/ Crash \/ Foreign
  BY <1>4 DEF HandleError, HandleProgress, FinishStop, EnterPaused, DropHandle, Crash, Foreign
<1>5. CASE Start
  BY <1>5 DEF Start, Ownership, Downloading
<1>6. ASSUME NEW c \in Caller, FinishPause(c) \/ Serve(c) PROVE FALSE
  BY <1>6
  DEF FinishPause, EnterPaused, Serve, HandleDownload, NotBegun, HandlePause,
      HandleCancel, HandleRemove, CancelOrRemove
<1>7. ASSUME NEW c \in Caller, CallStep(c) \/ \E op \in Operation : Ask(c, op) PROVE FALSE
  BY <1>7 DEF CallStep, SendCommand, AwaitStopped, Ask, CallsOnly
<1>8. CASE UNCHANGED vars
  BY <1>8 DEF vars
<1> QED
  BY <1>1, <1>2, <1>3, <1>4, <1>5, <1>6, <1>7, <1>8 DEF Next, ActorStep

\* A task becomes Downloaded only by the completion of the stream it is running: an
\* event that was on its way when its download was paused or cancelled never ends a
\* later one.
THEOREM CompletionsAreGenuine == Spec => CompletionIsGenuine
<1>1. Init => EventsAreDated
  BY DEF Init, EventsAreDated
<1>2. Spec => []EventsAreDated
  BY <1>1, DatedStep, CommonHolds, PTL DEF Spec
<1>3. ASSUME Common, EventsAreDated, [Next]_vars
      PROVE  [phase = "Downloading" /\ phase' = "Downloaded"
                => stream.at = "done" /\ stream.outcome = "Completed"]_vars
  BY <1>3, GenuineStep
<1> QED BY <1>2, <1>3, CommonHolds, PTL DEF Spec, CompletionIsGenuine

-----------------------------------------------------------------------------
(* The bytes shown are the running download's.                              *)

\* What a download counts or has reported is no more than the most it has had; what
\* is pending from other downloads is marked as theirs.
ProgressIsDated ==
  /\ stream.from <= stream.high /\ stream.received <= stream.high
  /\ pending.generation <= generation
  /\ Downloading /\ pending.generation = generation => pending.bytes <= stream.high
  /\ Downloading => bytes <= stream.high

LEMMA ProgressStep == ASSUME Common, ProgressIsDated, [Next]_vars PROVE ProgressIsDated'
<1> USE DEF Common, ProgressIsDated
<1>0. /\ stream \in StreamState /\ generation \in Nat /\ pending.generation \in Nat
      /\ pending.bytes \in Nat /\ bytes \in Nat
      /\ stream.from \in Nat /\ stream.received \in Nat /\ stream.high \in Nat
  BY DEF TypeOK, StreamState
<1>1. ASSUME UNCHANGED <<generation, pending, bytes>>, Downloading' => Downloading,
             \A f \in {"from", "received", "high"} : stream'[f] = stream[f]
      PROVE  ProgressIsDated'
  BY <1>1
<1>2. ASSUME StreamStep \/ ServerStep
      PROVE  /\ Downloading /\ stream.generation = generation
             /\ UNCHANGED <<phase, generation, bytes>>
  BY <1>2, StreamEffect DEF Live, Ownership, NoStream
<1>3. CASE Measure
  <2>1. /\ stream'.from = Length(part) /\ stream'.received = stream.received
        /\ stream'.high = Larger(stream.high, Length(part)) /\ pending' = pending
    BY <1>3, <1>0 DEF Measure, StreamState
  <2>2. Length(part) \in Nat
    BY LengthType DEF TypeOK
  <2>3. stream'.high >= stream.high /\ stream'.high >= Length(part) /\ stream'.high \in Nat
    BY <1>0, <2>1, <2>2 DEF Larger
  <2> QED BY <1>0, <1>2, <1>3, <2>1, <2>2, <2>3 DEF Downloading, StreamStep
<1>4. CASE Receive
  <2>1. /\ stream'.from = stream.from /\ stream'.received = stream.received + 1
        /\ stream'.high = Larger(stream.high, stream.received + 1)
    BY <1>4, <1>0 DEF Receive, StreamState
  <2>2. stream'.high >= stream.high /\ stream'.high >= stream.received + 1 /\ stream'.high \in Nat
    BY <1>0, <2>1 DEF Larger
  <2>3. \/ pending' = pending
        \/ pending' = [generation |-> stream.generation, bytes |-> stream.received + 1]
    BY <1>4 DEF Receive, SendProgress
  <2> QED BY <1>0, <1>2, <1>4, <2>1, <2>2, <2>3 DEF Downloading, ServerStep
<1>5. CASE Respond \/ NothingLeft \/ OpenPart \/ EndOfBody \/ Retry \/ Report \/ NoticePause
  <2>1. /\ stream'.from \in {stream.from, 0}
        /\ stream'.received \in {stream.received, stream.from} /\ stream'.high = stream.high
    BY <1>5, <1>0 DEF Respond, NothingLeft, OpenPart, EndOfBody, Retry, Report, NoticePause,
                      Outcome, StreamState
  <2>2. \/ pending' = pending
        \/ /\ pending' \in [generation : {stream.generation}, bytes : {stream.from, stream.received}]
    BY <1>5 DEF Respond, NothingLeft, OpenPart, EndOfBody, Retry, Report, NoticePause,
                SendProgress
  <2> QED BY <1>0, <1>2, <1>5, <2>1, <2>2 DEF Downloading, StreamStep, ServerStep
<1>6. CASE RangeRefused \/ FailAttempt
  BY <1>0, <1>1, <1>2, <1>6, AttemptEffect
  DEF RangeRefused, FailAttempt, ServerStep, Downloading
<1>7. CASE RenamePart
  <2>1. \A f \in {"from", "received", "high"} : stream'[f] = stream[f]
    BY <1>0, <1>7, AttemptEffect DEF RenamePart, Outcome, StreamState
  <2> QED BY <1>1, <1>2, <1>7, <2>1 DEF RenamePart, StreamStep, Downloading
<1>8. CASE LateCall
  <2>1. stream'.from = stream.from
    BY <1>0, <1>8, LateEffect DEF Moved, StreamState
  <2> QED BY <1>1, <1>8, <2>1, LateEffect DEF Downloading
<1>9. ASSUME stream' = NoStream, ~Downloading', pending' \in {pending, NoProgress},
             pending'.generation <= generation'
      PROVE  ProgressIsDated'
  BY <1>0, <1>9 DEF NoStream
<1>10. CASE HandleCompleted \/ HandleError
  BY <1>0, <1>1, <1>9, <1>10
  DEF HandleCompleted, HandleError, Abort, Downloading
<1>11. CASE HandleProgress
  BY <1>0, <1>11 DEF HandleProgress, Current, Ownership, NoProgress, Downloading
<1>12. CASE FinishStop \/ Start \/ Crash
  <2>1. stream' = NoStream /\ phase' # "Downloading" /\ pending' = NoProgress
    BY <1>12 DEF FinishStop, EnterPaused, Start, InitialLifecycleState, Crash, Ownership,
                 Downloading
  <2>2. generation' \in Nat
    BY <1>0, <1>12 DEF FinishStop, Start, Crash
  <2> QED BY <1>9, <2>1, <2>2 DEF NoProgress, Downloading
<1>13. CASE DropHandle \/ Foreign
  BY <1>0, <1>1, <1>13 DEF DropHandle, Foreign, StreamState, Downloading
<1>14. ASSUME NEW c \in Caller, FinishPause(c) PROVE ProgressIsDated'
  BY <1>0, <1>9, <1>14 DEF FinishPause, EnterPaused, Downloading
<1>15. ASSUME NEW c \in Caller, HandlePause(c) PROVE ProgressIsDated'
  BY <1>0, <1>1, <1>15 DEF HandlePause, StreamState, Downloading
<1>16. ASSUME NEW c \in Caller, HandleCancel(c) \/ HandleRemove(c) PROVE ProgressIsDated'
  <2>1. stream' = NoStream /\ phase' # "Downloading" /\ generation' = generation
        /\ pending' \in {pending, NoProgress}
    BY <1>16 DEF HandleCancel, HandleRemove, CancelOrRemove, Abort, Ownership, Downloading
  <2> QED BY <1>0, <1>9, <2>1 DEF NoProgress, Downloading
<1>17. ASSUME NEW c \in Caller, HandleDownload(c) PROVE ProgressIsDated'
  <2>1. pending' = pending
    BY <1>17 DEF HandleDownload
  <2>2. CASE /\ generation' = generation + 1 /\ bytes' = stream'.high
             /\ stream'.from = 0 /\ stream'.received = 0
    <3>1. bytes' \in Nat
      BY <1>17, TypeStep DEF Next, Serve, TypeOK
    <3> QED BY <1>0, <2>1, <2>2, <3>1
  <2>3. CASE stream' = stream /\ ~Downloading /\ phase' # "Downloading"
    <3>1. generation' \in {generation, generation + 1} /\ stream' = NoStream
      BY <1>17, <2>3, DownloadEffect DEF Ownership, NoStream
    <3> QED BY <1>0, <1>9, <2>1, <2>3, <3>1 DEF Downloading
  <2>4. CASE stream' = stream /\ Downloading
    BY <1>1, <1>17, <2>1, <2>4, DownloadEffect DEF Downloading
  <2> QED BY <1>17, <2>2, <2>3, <2>4, DownloadEffect DEF Downloading
<1>18. ASSUME NEW c \in Caller, CallStep(c) \/ \E op \in Operation : Ask(c, op)
       PROVE  ProgressIsDated'
  BY <1>1, <1>18 DEF CallStep, SendCommand, AwaitStopped, Ask, CallsOnly, Downloading
<1>19. CASE UNCHANGED vars
  BY <1>1, <1>19 DEF vars, Downloading
<1> QED
  BY <1>3, <1>4, <1>5, <1>6, <1>7, <1>8, <1>10, <1>11, <1>12, <1>13, <1>14, <1>15, <1>16,
     <1>17, <1>18, <1>19
  DEF Next, StreamStep, ServerStep, ActorStep, Serve

\* While a task downloads it shows bytes this download has had: never those that an
\* earlier one reported before it was paused or cancelled.
THEOREM ProgressStaysCurrent == Spec => []ProgressIsCurrent
<1>1. Init => ProgressIsDated
  BY DEF Init, ProgressIsDated, NoStream, NoProgress, Downloading
<1>2. Spec => []ProgressIsDated
  BY <1>1, ProgressStep, CommonHolds, PTL DEF Spec
<1>3. ProgressIsDated => ProgressIsCurrent
  BY DEF ProgressIsDated, ProgressIsCurrent
<1> QED BY <1>2, <1>3, PTL

-----------------------------------------------------------------------------
(* A task that says Downloaded has the file.                                *)

\* The circumstances under which it can be relied on: the registry gives a checksum,
\* no other application uses the destination, and of the file system calls that can
\* outlive a stream only renames do.
Reliable == ChecksCrc /\ ~OthersShare /\ LateOps \subseteq {"rename"}

\* Nothing is left beside a downloaded file that a late rename could put in its place.
DownloadedForGood ==
  /\ lock # "other" /\ late \subseteq {"rename"}
  /\ phase = "Downloaded" => Complete(dest) /\ part = NoFile

LEMMA ForGoodStep ==
  ASSUME Reliable, Common, DownloadedForGood, [Next]_vars PROVE DownloadedForGood'
<1> USE DEF Common, DownloadedForGood
<1>1. Validate(dest) => Complete(dest)
  BY DEF Reliable, Validate, Complete
<1>2. CASE StreamStep \/ ServerStep
  <2>1. phase # "Downloaded" /\ UNCHANGED <<phase, lock>>
    BY <1>2, StreamEffect DEF Ownership, Downloading, Live, NoStream
  <2>2. late' = late
    BY <1>2 DEF StreamStep, ServerStep, Measure, Respond, NothingLeft, RangeRefused, OpenPart,
                Receive, EndOfBody, RenamePart, FailAttempt, NoticePause, Retry, Report
  <2> QED BY <2>1, <2>2
<1>3. CASE LateCall
  <2>1. UNCHANGED <<phase, lock>>
    BY <1>3, LateEffect
  <2>2. late' \subseteq {"rename"} /\ (part = NoFile => UNCHANGED <<part, dest>>)
    BY <1>3 DEF LateCall, RenameFile
  <2> QED BY <2>1, <2>2 DEF Complete
<1>4. CASE HandleCompleted
  BY <1>1, <1>4 DEF HandleCompleted, Current, Downloading, Complete
<1>5. CASE HandleError \/ HandleProgress \/ FinishStop \/ DropHandle
  BY <1>5 DEF HandleError, Current, HandleProgress, FinishStop, EnterPaused, DropHandle,
              Downloading, Complete
<1>6. CASE Start
  BY <1>1, <1>6 DEF Start, InitialLifecycleState, DestAfterStartup, PartAfterStartup, Complete
<1>7. CASE Crash
  BY <1>7 DEF Crash
<1>8. CASE Foreign
  BY <1>8 DEF Foreign, ForeignAcquire, ForeignRelease, Reliable
<1>9. ASSUME NEW c \in Caller, FinishPause(c) \/ HandlePause(c) PROVE DownloadedForGood'
  BY <1>9 DEF FinishPause, EnterPaused, HandlePause, Complete
<1>10. ASSUME NEW c \in Caller, HandleCancel(c) \/ HandleRemove(c) PROVE DownloadedForGood'
  <2>1. late' \subseteq {"rename"} /\ lock' # "other" /\ dest' = dest
    BY <1>10 DEF HandleCancel, HandleRemove, CancelOrRemove, LateCalls, Reliable
  <2>2. phase' = "Downloaded" => phase = "Downloaded" /\ part' = part
    BY <1>10 DEF HandleCancel, HandleRemove, CancelOrRemove
  <2> QED BY <2>1, <2>2 DEF Complete
<1>11. ASSUME NEW c \in Caller, HandleDownload(c) PROVE DownloadedForGood'
  <2>1. UNCHANGED <<dest, late>> /\ lock' # "other"
    BY <1>11 DEF HandleDownload, NotBegun, Locked, Begin, FailFresh, FailResume
  <2>2. phase' = "Downloaded" => phase = "Downloaded" /\ part' = part
    BY <1>11, DownloadEffect
  <2> QED BY <2>1, <2>2 DEF Complete
<1>12. ASSUME NEW c \in Caller, CallStep(c) \/ \E op \in Operation : Ask(c, op)
       PROVE  DownloadedForGood'
  BY <1>12 DEF CallStep, SendCommand, AwaitStopped, Ask, CallsOnly, Complete
<1>13. CASE UNCHANGED vars
  BY <1>13 DEF vars, Complete
<1> QED
  BY <1>2, <1>3, <1>4, <1>5, <1>6, <1>7, <1>8, <1>9, <1>10, <1>11, <1>12, <1>13
  DEF Next, ActorStep, Serve

\* In reliable circumstances a task that says Downloaded has the whole, sound file at
\* the destination and keeps it, although renames of cancelled downloads take effect
\* late, servers hang up early, attempts are retried and processes crash.
THEOREM DownloadedFilesAreComplete == ASSUME Reliable PROVE Spec => []DownloadedIsComplete
<1>1. Init => DownloadedForGood
  BY DEF Init, DownloadedForGood, Reliable
<1>2. Spec => []DownloadedForGood
  BY <1>1, ForGoodStep, CommonHolds, PTL DEF Spec
<1>3. DownloadedForGood => DownloadedIsComplete
  BY DEF DownloadedForGood, DownloadedIsComplete
<1> QED BY <1>2, <1>3, PTL

-----------------------------------------------------------------------------
(* Nobody waits for an answer that will not come.                           *)

\* A removal that is on its way to the actor.
Leaving(c) == call[c].op = "remove" /\ call[c].at \in {"checked", "sent"}

\* A command in the channel has an actor that takes commands, or will when the stream
\* it pauses has ended; a pause that is served has an actor that waits for the stream;
\* and who waits for the end of the task waits for an actor that has ended or for a
\* removal that is on its way to it.
AnswerIsDue ==
  \A c \in Caller :
    /\ call[c].at = "sent" => actor \in {"running", "pausing"}
    /\ call[c].at = "served" => actor = "pausing"
    /\ call[c].at = "awaiting" => actor = "stopped" \/ \E d \in Caller : Leaving(d)

\* The handle is shut down by a removal, which has yet to reach the actor or has.
RemovalsInOrder ==
  /\ \A c \in Caller :
       /\ call[c].op = "remove" => isStopped
       /\ call[c].at = "awaiting" => call[c].op = "remove"
       /\ call[c].at = "sent" => actor \in {"running", "pausing"}
  /\ isStopped /\ actor # "stopped" => \E c \in Caller : Leaving(c)

LEMMA RemovalsStep ==
  ASSUME Common, CallsInOrder, RemovalsInOrder, [Next]_vars PROVE RemovalsInOrder'
<1> USE DEF Common, CallsInOrder, RemovalsInOrder, Leaving, AllIdle, Idle
<1>0. call \in [Caller -> CallState]
  BY DEF TypeOK
<1>1. ASSUME UNCHANGED <<actor, call, isStopped>> PROVE RemovalsInOrder'
  BY <1>1
<1>2. CASE StreamStep \/ ServerStep
  BY <1>1, <1>2, StreamEffect
<1>3. CASE LateCall
  BY <1>1, <1>3, LateEffect
<1>4. CASE HandleCompleted \/ HandleError \/ HandleProgress \/ Foreign
  BY <1>1, <1>4 DEF HandleCompleted, HandleError, HandleProgress, Foreign
<1>5. CASE FinishStop \/ DropHandle
  BY <1>5 DEF FinishStop, DropHandle
<1>6. CASE Start \/ Crash
  BY <1>6 DEF Start, Crash
<1>7. ASSUME NEW c \in Caller, FinishPause(c) PROVE RemovalsInOrder'
  BY <1>0, <1>7 DEF FinishPause, Answer, CallState
<1>8. ASSUME NEW c \in Caller, HandleDownload(c) \/ HandlePause(c) \/ HandleCancel(c)
      PROVE  RemovalsInOrder'
  <2>1. /\ actor = "running" /\ actor' \in {"running", "pausing"} /\ isStopped' = isStopped
        /\ call[c].at = "sent" /\ call[c].op \in {"download", "pause", "cancel"}
    BY <1>8 DEF HandleDownload, HandlePause, HandleCancel, Serves
  <2>2. \/ call' = [call EXCEPT ![c] = Idle]
        \/ call' = [call EXCEPT ![c] = [call[c] EXCEPT !.at = "served"]]
    BY <1>8 DEF HandleDownload, HandlePause, HandleCancel, Answer
  <2> QED BY <1>0, <2>1, <2>2 DEF CallState
<1>9. ASSUME NEW c \in Caller, HandleRemove(c) PROVE RemovalsInOrder'
  BY <1>0, <1>9 DEF HandleRemove, Serves, CallState
<1>10. ASSUME NEW c \in Caller, CallStep(c) PROVE RemovalsInOrder'
  <2>1. CASE SendCommand(c)
    <3>1. actor \in {"running", "pausing", "stopped"}
      BY <1>0, <2>1 DEF SendCommand, TypeOK
    <3> QED BY <1>0, <2>1, <3>1 DEF SendCommand, Answer, CallsOnly, CallState
  <2>2. CASE AwaitStopped(c)
    BY <1>0, <2>2 DEF AwaitStopped, Answer, CallsOnly, CallState
  <2> QED BY <1>10, <2>1, <2>2 DEF CallStep
<1>11. ASSUME NEW c \in Caller, NEW op \in Operation, Ask(c, op) PROVE RemovalsInOrder'
  <2>1. call[c] = Idle /\ actor' = actor /\ isStopped' = (isStopped \/ op = "remove")
    BY <1>11 DEF Ask, CallsOnly
  <2>2. \A d \in Caller \ {c} : call'[d] = call[d]
    BY <1>0, <1>11 DEF Ask
  <2>3. isStopped /\ actor # "stopped" => \E d \in Caller \ {c} : Leaving(d)
    BY <2>1
  <2>4. CASE ~isStopped
    <3>1. call'[c].op = op /\ call'[c].at = "checked"
      BY <1>0, <1>11, <2>4 DEF Ask
    <3> QED BY <2>1, <2>2, <2>4, <3>1
  <2>5. CASE isStopped
    <3>1. call'[c] = call[c] \/ (call'[c].op = "remove" /\ call'[c].at = "awaiting")
      BY <1>0, <1>11, <2>5 DEF Ask
    <3> QED BY <2>1, <2>2, <2>3, <2>5, <3>1
  <2> QED BY <2>4, <2>5
<1>12. CASE UNCHANGED vars
  BY <1>1, <1>12 DEF vars
<1> QED
  BY <1>2, <1>3, <1>4, <1>5, <1>6, <1>7, <1>8, <1>9, <1>10, <1>11, <1>12
  DEF Next, ActorStep, Serve

\* The safety half of CallsReturn: whatever pauses, removals, dropped handles and crashes
\* meet, no caller is left with a command nobody takes or waits for an end nobody brings
\* about.
THEOREM AnswersAreDue == Spec => []AnswerIsDue
<1>1. Init => CallsInOrder /\ RemovalsInOrder
  BY DEF Init, CallsInOrder, RemovalsInOrder, AllIdle, Idle
<1>2. Spec => [](CallsInOrder /\ RemovalsInOrder)
  BY <1>1, CallsStep, RemovalsStep, CommonHolds, PTL DEF Spec
<1>3. CallsInOrder /\ RemovalsInOrder => AnswerIsDue
  BY DEF CallsInOrder, RemovalsInOrder, AnswerIsDue
<1> QED BY <1>2, <1>3, PTL

-----------------------------------------------------------------------------
(* No end of a stream is lost.                                              *)

\* A handler of the actor waits for the stream to end.
Draining == actor \in {"pausing", "stopping"} /\ Downloading

\* Only a stream that was told to pause ends without an event; only an actor that waits
\* for the end tells it to, and an actor that pauses has a caller to answer.  The event of
\* a stream that has ended otherwise stays in the channel until the actor takes it.
EndIsAwaited ==
  /\ stream.outcome = "Paused" => stream.pause
  /\ stream.pause => Draining
  /\ actor = "pausing" => stream.pause /\ \E c \in Caller : call[c].at = "served"
  /\ stream.at = "done" /\ ~Draining =>
       \E i \in DOMAIN events :
         events[i] = [kind |-> stream.outcome, generation |-> generation]

\* A stream keeps its pause flag, pauses only when told to, and is done when it reports.
LEMMA StreamEnds ==
  ASSUME TypeOK, StreamStep \/ ServerStep
  PROVE  /\ stream'.pause = stream.pause
         /\ stream'.outcome = "Paused" => stream.outcome = "Paused" \/ stream.pause
         /\ Report \/ (stream'.at # "done" /\ events' = events)
<1> USE DEF TypeOK
<1>0. ASSUME GiveUpAttempt
      PROVE  stream'.pause = stream.pause /\ stream'.at # "done"
             /\ (stream'.outcome = "Paused" => stream.outcome = "Paused")
  <2>1. CASE stream' = [stream EXCEPT !.at = "sleeping", !.attempt = @ + 1]
    BY <2>1 DEF StreamState
  <2>2. CASE Outcome("Error")
    BY <2>2 DEF StreamState, Outcome
  <2> QED BY <1>0, <2>1, <2>2 DEF GiveUpAttempt
<1>1. CASE Measure \/ Respond \/ NothingLeft \/ OpenPart \/ Retry
  BY <1>1 DEF Measure, Respond, NothingLeft, OpenPart, Retry, StreamState
<1>2. CASE Receive \/ EndOfBody \/ NoticePause
  BY <1>2 DEF Receive, EndOfBody, NoticePause, Outcome, StreamState
<1>3. CASE Report
  BY <1>3 DEF Report, StreamState
<1>4. CASE RangeRefused \/ FailAttempt
  BY <1>0, <1>4 DEF RangeRefused, FailAttempt
<1>5. CASE RenamePart
  <2>1. CASE Outcome("Completed")
    BY <1>5, <2>1 DEF RenamePart, Outcome, StreamState
  <2> QED BY <1>0, <1>5, <2>1 DEF RenamePart
<1> QED BY <1>1, <1>2, <1>3, <1>4, <1>5 DEF StreamStep, ServerStep

\* What a download command starts has not been told to pause and has not ended.
LEMMA FreshStream ==
  ASSUME Common, NEW c \in Caller, HandleDownload(c)
  PROVE  \/ stream'.pause = FALSE /\ stream'.outcome = "none" /\ stream'.at = "measuring"
         \/ UNCHANGED <<stream, events>> /\ (Downloading => UNCHANGED <<phase, generation>>)
<1>1. ASSUME NEW shown, Begin(shown)
      PROVE  stream'.pause = FALSE /\ stream'.outcome = "none" /\ stream'.at = "measuring"
  BY <1>1 DEF Begin, NoStream
<1> QED
  BY <1>1 DEF HandleDownload, NotBegun, Locked, FailFresh, FailResume, Downloading

LEMMA EndsStep ==
  ASSUME Common, CallsInOrder, EndIsAwaited, [Next]_vars PROVE EndIsAwaited'
<1> USE DEF Common, EndIsAwaited, Draining
<1>0. call \in [Caller -> CallState] /\ events \in Seq(Event)
  BY DEF TypeOK
<1>1. ASSUME stream' = NoStream, actor' # "pausing" PROVE EndIsAwaited'
  BY <1>1 DEF NoStream
<1>2. ASSUME UNCHANGED <<actor, phase, generation, events, call>>,
             \A f \in {"pause", "outcome", "at"} : stream'[f] = stream[f]
      PROVE  EndIsAwaited'
  BY <1>2 DEF Downloading
<1>3. CASE StreamStep \/ ServerStep
  <2>1. /\ Downloading /\ stream.generation = generation
        /\ UNCHANGED <<actor, phase, generation, call>>
    BY <1>3, StreamEffect DEF Ownership, Live, NoStream
  <2>2. CASE Report
    <3>1. CASE stream.outcome = "Paused"
      BY <1>3, <2>1, <2>2, <3>1, StreamEnds DEF Downloading
    <3>2. CASE stream.outcome # "Paused"
      <4>1. events' = Append(events, [kind |-> stream.outcome, generation |-> generation])
        BY <2>1, <2>2, <3>2 DEF Report
      <4>2. /\ Len(events) + 1 \in DOMAIN events'
            /\ events'[Len(events) + 1] = [kind |-> stream.outcome, generation |-> generation]
        BY <1>0, <4>1
      <4>3. stream'.outcome = stream.outcome
        BY <2>2 DEF Report, TypeOK, StreamState
      <4> QED BY <1>3, <2>1, <4>2, <4>3, StreamEnds DEF Downloading
    <3> QED BY <3>1, <3>2
  <2>3. CASE stream'.at # "done"
    BY <1>3, <2>1, <2>3, StreamEnds DEF Downloading
  <2> QED BY <1>3, <2>2, <2>3, StreamEnds
<1>4. CASE LateCall
  <2>1. Moved.pause = stream.pause
    BY DEF Moved, TypeOK, StreamState
  <2> QED BY <1>2, <1>4, <2>1, LateEffect DEF channel
<1>5. CASE HandleCompleted \/ HandleError
  <2>1. /\ actor = "running" /\ UNCHANGED <<actor, generation>>
        /\ events # <<>> /\ events' = Tail(events)
    BY <1>5 DEF HandleCompleted, HandleError
  <2>2. CASE Current(Head(events))
    BY <1>1, <1>5, <2>1, <2>2 DEF HandleCompleted, HandleError, Abort
  <2>3. CASE ~Current(Head(events))
    <3>1. stream' = stream /\ phase' = phase /\ call' = call
      BY <1>5, <2>3 DEF HandleCompleted, HandleError
    <3>2. ASSUME stream.at = "done"
          PROVE  \E i \in DOMAIN events' :
                   events'[i] = [kind |-> stream.outcome, generation |-> generation]
      <4>1. Downloading /\ stream.generation = generation
        BY <3>2 DEF Ownership, NoStream
      <4>2. PICK i \in DOMAIN events :
              events[i] = [kind |-> stream.outcome, generation |-> generation]
        BY <2>1, <3>2
      <4>3. i # 1
        BY <1>0, <2>1, <2>3, <4>1, <4>2 DEF Current
      <4>4. i - 1 \in DOMAIN events' /\ events'[i - 1] = events[i]
        BY <1>0, <2>1, <4>3
      <4> QED BY <4>2, <4>4
    <3> QED BY <2>1, <3>1, <3>2
  <2> QED BY <2>2, <2>3
<1>6. CASE HandleProgress \/ Foreign
  BY <1>2, <1>6 DEF HandleProgress, Foreign
<1>7. CASE FinishStop
  BY <1>1, <1>7 DEF FinishStop, EnterPaused, Ownership
<1>8. CASE DropHandle
  <2>1. actor' = "stopping" /\ UNCHANGED <<phase, events, generation>>
    BY <1>8 DEF DropHandle
  <2>2. CASE Downloading
    <3>1. stream'.pause /\ Downloading'
      BY <1>8, <2>1, <2>2 DEF DropHandle, Downloading, TypeOK, StreamState
    <3> QED BY <2>1, <3>1
  <2>3. CASE ~Downloading
    BY <1>1, <1>8, <2>1, <2>3 DEF DropHandle, Ownership
  <2> QED BY <2>2, <2>3
<1>9. CASE Start \/ Crash
  BY <1>1, <1>9 DEF Start, Crash
<1>10. ASSUME NEW c \in Caller, FinishPause(c) \/ HandleRemove(c) PROVE EndIsAwaited'
  <2>1. stream' = NoStream
    BY <1>10 DEF FinishPause, EnterPaused, HandleRemove, CancelOrRemove, Abort, Ownership,
                 Downloading
  <2> QED BY <1>1, <1>10, <2>1 DEF FinishPause, HandleRemove
<1>11. ASSUME NEW c \in Caller, HandleCancel(c) PROVE EndIsAwaited'
  <2>1. stream' = NoStream
    BY <1>11 DEF HandleCancel, CancelOrRemove, Abort, Ownership, Downloading
  <2> QED BY <1>1, <1>11, <2>1 DEF HandleCancel, Serves
<1>12. ASSUME NEW c \in Caller, HandlePause(c) PROVE EndIsAwaited'
  <2>1. CASE Downloading
    <3>1. stream'.pause /\ actor' = "pausing" /\ phase' = phase
      BY <1>12, <2>1 DEF HandlePause, TypeOK, StreamState
    <3>2. call'[c].at = "served"
      BY <1>0, <1>12, <2>1 DEF HandlePause, Serves, Answer
    <3> QED BY <2>1, <3>1, <3>2 DEF Downloading
  <2>2. CASE ~Downloading
    BY <1>1, <1>12, <2>2 DEF HandlePause, Serves, Ownership
  <2> QED BY <2>1, <2>2
<1>13. ASSUME NEW c \in Caller, HandleDownload(c) PROVE EndIsAwaited'
  <2>1. actor = "running" /\ actor' = actor /\ events' = events
    BY <1>13 DEF HandleDownload, Serves
  <2>2. CASE stream'.pause = FALSE /\ stream'.outcome = "none" /\ stream'.at = "measuring"
    BY <2>1, <2>2
  <2>3. CASE stream' = stream /\ (Downloading => UNCHANGED <<phase, generation>>)
    <3>1. stream.at = "done" => Downloading
      BY DEF Ownership, NoStream
    <3> QED BY <2>1, <2>3, <3>1
  <2> QED BY <1>13, <2>2, <2>3, FreshStream
<1>14. ASSUME NEW c \in Caller, CallStep(c) \/ \E op \in Operation : Ask(c, op)
       PROVE  EndIsAwaited'
  <2>1. /\ call[c].at # "served" /\ \A d \in Caller \ {c} : call'[d] = call[d]
        /\ UNCHANGED <<actor, phase, generation, stream, events>>
    BY <1>0, <1>14
    DEF CallStep, SendCommand, AwaitStopped, Ask, Answer, CallsOnly, Idle
  <2>2. (\E d \in Caller : call[d].at = "served") => \E d \in Caller : call'[d].at = "served"
    BY <2>1
  <2> QED BY <2>1, <2>2 DEF Downloading
<1>15. CASE UNCHANGED vars
  BY <1>2, <1>15 DEF vars
<1> QED
  BY <1>3, <1>4, <1>5, <1>6, <1>7, <1>8, <1>9, <1>10, <1>11, <1>12, <1>13, <1>14, <1>15
  DEF Next, ActorStep, Serve

\* The safety half of EndIsNoticed: a download whose stream has ended has its event in the
\* channel of an actor that takes events, or a handler that waits for the end; a stale
\* event taken before it, a pause that came too late and a cancel in between lose none.
THEOREM NoEndIsLost == Spec => []EndIsAwaited
<1>1. Init => CallsInOrder /\ EndIsAwaited
  BY DEF Init, CallsInOrder, AllIdle, Idle, EndIsAwaited, NoStream
<1>2. Spec => []EndIsAwaited
  BY <1>1, CallsStep, EndsStep, CommonHolds, PTL DEF Spec
<1> QED BY <1>2
===============================================================================
