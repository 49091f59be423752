----------------------------- MODULE DownloadTask -----------------------------
(***************************************************************************)
(* One download task (crates/download-manager): the actor that owns its    *)
(* state, the stream the actor starts for each download, and the callers   *)
(* of the task's handle.                                                   *)
(*                                                                         *)
(* The actor handles one command, event or wake-up at a time; a handler is *)
(* one step, except that pausing and stopping wait for the stream to end.  *)
(* The stream (backends/universal/context.rs) runs beside it, one step per *)
(* await.  It writes "<dest>.part" and at the end renames it to the        *)
(* destination.  Aborting a stream does not stop the file system call it   *)
(* has handed to a blocking thread: such a call is left in `late` and may  *)
(* take effect at any time afterwards.                                     *)
(*                                                                         *)
(* DestinationLock models the lock file; here it is its abstraction, the   *)
(* one lease.  Other applications may take it while this task does not     *)
(* hold it and download the same file to the same place.                   *)
(***************************************************************************)
EXTENDS StartupReducer, Sequences, FiniteSets

CONSTANTS
  Caller,         \* users of the task's handle
  OthersShare,    \* do other applications use the same destination?
  LateOps,        \* file system calls that can outlive an aborted stream
  Retries,        \* UniversalBackendContext.retries
  EventCapacity,  \* capacity of the channel of terminal events
  MaxGeneration,  \* bound: downloads one task starts
  MaxStarts       \* bound: tasks made for this destination

ASSUME TaskAssumption ==
  /\ OthersShare \in BOOLEAN
  /\ LateOps \subseteq {"rename", "truncate", "create"}
  /\ Retries \in Nat /\ EventCapacity \in Nat
  /\ MaxGeneration \in Nat /\ MaxStarts \in Nat

VARIABLES
  actor,       \* "running", in a handler ("pausing", "stopping"), "stopped", "down"
  phase,       \* DownloadActorState
  generation,  \* the last generation allocated
  bytes,       \* progress_counters.downloaded_bytes
  projection,  \* PublicProjection
  terminal,    \* TerminalOutcome, as wait() sees it
  stream,      \* the active task
  events,      \* terminal events sent to the actor
  pending,     \* PendingProgressSlot
  part,        \* the file at <dest>.part
  dest,        \* the file at the destination
  late,        \* file system calls of aborted streams still to take effect
  lock,        \* who holds the destination
  call,        \* what each caller waits for
  isStopped,   \* the handle was shut down
  starts       \* how many tasks were made

files == <<part, dest, late>>
channel == <<events, pending>>
display == <<bytes, projection, terminal>>
vars == <<actor, phase, generation, display, stream, channel, files, lock,
          call, isStopped, starts>>

Operation == {"download", "pause", "cancel", "remove"}
Idle == [op |-> "none", at |-> "idle"]
NoProgress == [generation |-> 0, bytes |-> 0]

\* `at` is the await the stream is in, `from` the offset its response starts
\* at, `received` the bytes it has counted; `file` says where the file it has
\* open is now; `outcome` is what download_streaming_with_retries returned.
\* `high` is history: the most bytes this download has ever had.
NoStream == [at |-> "none", generation |-> 0, pause |-> FALSE, attempt |-> 0,
             from |-> 0, received |-> 0, high |-> 0, file |-> "part", outcome |-> "none"]

Live == stream.at \notin {"none", "done"}
Length(file) == IF file = NoFile THEN 0 ELSE file.length
Larger(i, j) == IF i > j THEN i ELSE j
InitialFiles == {NoFile} \cup {f \in File : f.sound}

Init ==
  /\ actor = "down" /\ phase = "NotDownloaded" /\ generation = 0
  /\ bytes = 0 /\ projection = "None" /\ terminal = "Pending"
  /\ stream = NoStream /\ events = <<>> /\ pending = NoProgress
  /\ part \in InitialFiles /\ dest \in InitialFiles /\ late = {}
  /\ lock \in {"free", "dead"} \cup (IF OthersShare THEN {"other"} ELSE {})
  /\ call = [c \in Caller |-> Idle] /\ isStopped = FALSE /\ starts = 0

-----------------------------------------------------------------------------
(* The stream                                                               *)

SendProgress(n) == pending' = [generation |-> stream.generation, bytes |-> n]
Outcome(result) == stream' = [stream EXCEPT !.at = "reporting", !.outcome = result]

StreamOnly == UNCHANGED <<actor, phase, generation, display, events, lock, call,
                          isStopped, starts>>

\* download_once: how much of the part file there is decides the request.
Measure ==
  /\ stream.at = "measuring"
  /\ stream' = [stream EXCEPT !.at = "requesting", !.from = Length(part),
                              !.high = Larger(@, Length(part))]
  /\ UNCHANGED <<pending, files>> /\ StreamOnly

\* A response that can be used: the rest of the file, or all of it.
Respond ==
  /\ stream.at = "requesting"
  /\ \/ stream.from < Size /\ stream' = [stream EXCEPT !.at = "opening"]
     \/ stream.from > 0 /\ stream' = [stream EXCEPT !.at = "opening", !.from = 0]
  /\ UNCHANGED <<pending, files>> /\ StreamOnly

\* 416 with the length of the part file: there is nothing left to fetch.
NothingLeft ==
  /\ stream.at = "requesting" /\ stream.from = Size
  /\ SendProgress(stream.from)
  /\ stream' = [stream EXCEPT !.at = "renaming", !.received = stream.from]
  /\ UNCHANGED files /\ StreamOnly

\* A retry, while any is left.
GiveUpAttempt ==
  \/ stream.attempt < Retries
     /\ stream' = [stream EXCEPT !.at = "sleeping", !.attempt = @ + 1]
  \/ stream.attempt >= Retries /\ Outcome("Error")

\* Any other 416: the part file is of no use.
RangeRefused ==
  /\ stream.at = "requesting" /\ stream.from > 0
  /\ part' = NoFile
  /\ GiveUpAttempt
  /\ UNCHANGED <<pending, dest, late>> /\ StreamOnly

\* PartFile::new: truncates for a whole response, else appends.
Opened == IF stream.from = 0 \/ part = NoFile THEN [length |-> 0, sound |-> TRUE] ELSE part

OpenPart ==
  /\ stream.at = "opening"
  /\ part' = Opened
  /\ stream' = [stream EXCEPT !.at = "receiving", !.received = stream.from, !.file = "part"]
  /\ UNCHANGED <<pending, dest, late>> /\ StreamOnly

\* One more piece of a file: at its end when appending, at the offset the
\* stream has counted when not.
Extended(file) ==
  [length |-> (IF stream.from > 0 THEN file.length ELSE stream.received) + 1,
   sound |-> file.sound /\ file.length = stream.received]

\* A chunk is written, and reported if the progress interval has passed.
Receive ==
  /\ stream.at = "receiving" /\ stream.received < Size
  /\ part' = IF stream.file = "part" THEN Extended(part) ELSE part
  /\ dest' = IF stream.file = "dest" THEN Extended(dest) ELSE dest
  /\ stream' = [stream EXCEPT !.received = @ + 1, !.high = Larger(@, stream.received + 1)]
  /\ SendProgress(stream.received + 1) \/ UNCHANGED pending
  /\ UNCHANGED late /\ StreamOnly

\* The body ends, early if the server says no length and hangs up.
EndOfBody ==
  /\ stream.at = "receiving"
  /\ SendProgress(stream.received)
  /\ stream' = [stream EXCEPT !.at = "renaming"]
  /\ UNCHANGED files /\ StreamOnly

RenameFile ==
  /\ part # NoFile
  /\ dest' = part /\ part' = NoFile

RenamePart ==
  /\ stream.at = "renaming"
  /\ \/ RenameFile /\ Outcome("Completed")
     \/ part = NoFile /\ GiveUpAttempt /\ UNCHANGED <<part, dest>>
  /\ UNCHANGED <<pending, late>> /\ StreamOnly

\* The network or the file system fails.
FailAttempt ==
  /\ stream.at \in {"requesting", "opening", "receiving", "renaming"}
  /\ GiveUpAttempt
  /\ UNCHANGED <<pending, files>> /\ StreamOnly

\* Mutant of NoticePause: only the select over chunks watches the pause flag.
NoticePauseInBody ==
  /\ stream.at = "receiving" /\ stream.pause
  /\ SendProgress(stream.received)
  /\ Outcome("Paused")
  /\ UNCHANGED files /\ StreamOnly

\* wait_for_pause, in both of its selects.
NoticePause ==
  /\ stream.at \in {"requesting", "receiving"} /\ stream.pause
  /\ IF stream.at = "receiving" THEN SendProgress(stream.received) ELSE UNCHANGED pending
  /\ Outcome("Paused")
  /\ UNCHANGED files /\ StreamOnly

Retry ==
  /\ stream.at = "sleeping"
  /\ stream' = [stream EXCEPT !.at = "measuring"]
  /\ UNCHANGED <<pending, files>> /\ StreamOnly

\* Mutant of Report: a stream that failed ends without saying so.
ReportSuccess ==
  /\ stream.at = "reporting"
  /\ \/ stream.outcome # "Completed" /\ UNCHANGED events
     \/ /\ stream.outcome = "Completed" /\ Len(events) < EventCapacity
        /\ events' = Append(events, [kind |-> "Completed", generation |-> stream.generation])
  /\ stream' = [stream EXCEPT !.at = "done"]
  /\ UNCHANGED <<actor, phase, generation, display, pending, files, lock, call,
                 isStopped, starts>>

\* The end of download_streaming; sending waits while the channel is full.
Report ==
  /\ stream.at = "reporting"
  /\ \/ stream.outcome = "Paused" /\ UNCHANGED events
     \/ /\ stream.outcome # "Paused" /\ Len(events) < EventCapacity
        /\ events' = Append(events, [kind |-> stream.outcome, generation |-> stream.generation])
  /\ stream' = [stream EXCEPT !.at = "done"]
  /\ UNCHANGED <<actor, phase, generation, display, pending, files, lock, call,
                 isStopped, starts>>

\* The steps no server can hold up.
StreamStep ==
  Measure \/ OpenPart \/ RenamePart \/ NoticePause \/ Retry \/ Report

ServerStep == Respond \/ NothingLeft \/ RangeRefused \/ Receive \/ EndOfBody \/ FailAttempt

\* abort: the stream ends where it is, except for a call that a blocking thread
\* has been given.
LateCalls ==
  late \cup ({CASE stream.at = "renaming" -> "rename"
                [] stream.at = "opening" /\ stream.from = 0 -> "truncate"
                [] stream.at = "opening" /\ stream.from > 0 -> "create"
                [] OTHER -> "none"} \cap LateOps)

\* Mutant of Abort: the stream's task handle is dropped without abort.
DropStream == stream' = stream

Abort == stream' = NoStream

\* Where the open file of the stream is after a rename it did not make.
Moved ==
  IF stream.at # "receiving" THEN stream
  ELSE [stream EXCEPT !.file = IF @ = "part" THEN "dest" ELSE "lost"]

LateCall ==
  /\ \/ /\ "rename" \in late /\ late' = late \ {"rename"}
        /\ \/ RenameFile /\ stream' = Moved
           \/ part = NoFile /\ UNCHANGED <<part, dest, stream>>
     \/ /\ "truncate" \in late /\ late' = late \ {"truncate"}
        /\ part' = [length |-> 0, sound |-> TRUE] /\ UNCHANGED <<dest, stream>>
     \/ /\ "create" \in late /\ late' = late \ {"create"}
        /\ part' = IF part = NoFile THEN [length |-> 0, sound |-> TRUE] ELSE part
        /\ UNCHANGED <<dest, stream>>
  /\ UNCHANGED pending /\ StreamOnly

-----------------------------------------------------------------------------
(* The actor.  A handler of a command answers its caller in the same step.  *)

Answer(c, at) == call' = [call EXCEPT ![c] = IF at = "idle" THEN Idle ELSE [@ EXCEPT !.at = at]]
Serves(c, op) == actor = "running" /\ call[c] = [op |-> op, at |-> "sent"]
Downloading == phase = "Downloading"

\* Mutant of Begin: an old error stays on show.
BeginQuietly(shown) ==
  /\ lock \in {"free", "dead"} /\ lock' = "ours"
  /\ phase' = "Downloading" /\ generation' = generation + 1
  /\ bytes' = shown /\ projection' = projection
  /\ stream' = [NoStream EXCEPT !.at = "measuring", !.generation = generation + 1, !.high = shown]
  /\ UNCHANGED <<terminal, part>>

\* Mutant of Begin: the new download gets the generation of the last.
BeginAgain(shown) ==
  /\ lock \in {"free", "dead"} /\ lock' = "ours"
  /\ phase' = "Downloading" /\ generation' = generation
  /\ bytes' = shown /\ projection' = "None"
  /\ stream' = [NoStream EXCEPT !.at = "measuring", !.generation = generation, !.high = shown]
  /\ UNCHANGED <<terminal, part>>

\* start_fresh_download and resume_download: with the lease taken and the
\* stream spawned.  The stream resumes from the part file in either case; only
\* resume_download counts its bytes from the start.
Begin(shown) ==
  /\ lock \in {"free", "dead"} /\ lock' = "ours"
  /\ phase' = "Downloading" /\ generation' = generation + 1
  /\ bytes' = shown /\ projection' = "None"
  /\ stream' = [NoStream EXCEPT !.at = "measuring", !.generation = generation + 1, !.high = shown]
  /\ UNCHANGED <<terminal, part>>

\* The context fails to start: the lease is given back.
FailFresh ==
  /\ lock \in {"free", "dead"} /\ lock' = "free"
  /\ generation' = generation + 1
  /\ UNCHANGED <<phase, display, stream, part>>

FailResume ==
  /\ lock \in {"free", "dead"} /\ lock' = "free"
  /\ generation' = generation + 1
  /\ part' = NoFile
  /\ phase' = "NotDownloaded" /\ bytes' = 0
  /\ projection' = "Error" /\ terminal' = "Error"
  /\ UNCHANGED stream

Locked ==
  /\ lock = "other" /\ projection' = "LockedByOther"
  /\ UNCHANGED <<lock, phase, generation, bytes, terminal, stream, part>>

\* Nothing changes: there is nothing to do, or the lock file cannot be written.
NotBegun == UNCHANGED <<lock, phase, generation, display, stream, part>>

Resuming == phase = "Paused" /\ part # NoFile

\* Mutant of HandleDownload: a download that is complete is started again.
HandleDownloadAgain(c) ==
  /\ Serves(c, "download")
  /\ IF phase = "Downloading" THEN NotBegun
     ELSE \/ Locked \/ NotBegun
          \/ IF Resuming THEN Begin(part.length) \/ FailResume ELSE Begin(0) \/ FailFresh
  /\ Answer(c, "idle")
  /\ UNCHANGED <<actor, channel, dest, late, isStopped, starts>>

HandleDownload(c) ==
  /\ Serves(c, "download")
  /\ IF phase \in {"Downloading", "Downloaded"} THEN NotBegun
     ELSE \/ Locked \/ NotBegun
          \/ IF Resuming THEN Begin(part.length) \/ FailResume ELSE Begin(0) \/ FailFresh
  /\ Answer(c, "idle")
  /\ UNCHANGED <<actor, channel, dest, late, isStopped, starts>>

\* ActiveTask::pause raises the flag and waits for the stream.
HandlePause(c) ==
  /\ Serves(c, "pause")
  /\ IF Downloading
     THEN /\ actor' = "pausing" /\ Answer(c, "served")
          /\ stream' = [stream EXCEPT !.pause = TRUE]
     ELSE Answer(c, "idle") /\ UNCHANGED <<actor, stream>>
  /\ UNCHANGED <<phase, generation, display, channel, files, lock, isStopped, starts>>

\* Mutant of EnterPaused: resumed bytes are counted twice.
EnterPausedTwice ==
  /\ stream.at = "done" /\ stream' = NoStream
  /\ lock' = "free" /\ phase' = "Paused" /\ bytes' = stream.from + stream.received

\* Mutant of EnterPaused: the lease is not given back.
EnterPausedLeased ==
  /\ stream.at = "done" /\ stream' = NoStream
  /\ lock' = lock /\ phase' = "Paused" /\ bytes' = Length(part)

\* The stream is over, however it ended: UniversalActiveTask::pause is Ok.
EnterPaused ==
  /\ stream.at = "done" /\ stream' = NoStream
  /\ lock' = "free" /\ phase' = "Paused" /\ bytes' = Length(part)

FinishPause(c) ==
  /\ actor = "pausing" /\ call[c].at = "served"
  /\ EnterPaused
  /\ actor' = "running" /\ Answer(c, "idle")
  /\ UNCHANGED <<generation, projection, terminal, channel, files, isStopped, starts>>

\* handle_cancel_or_remove.
CancelOrRemove ==
  \/ /\ Downloading
     /\ Abort /\ late' = LateCalls
     /\ part' = NoFile /\ lock' = "free"
     /\ phase' = "NotDownloaded" /\ bytes' = 0 /\ projection' = "None"
  \/ /\ phase = "Paused"
     /\ part' = NoFile
     /\ phase' = "NotDownloaded" /\ bytes' = 0 /\ projection' = "None"
     /\ UNCHANGED <<stream, late, lock>>
  \/ /\ phase \in {"NotDownloaded", "Downloaded"}
     /\ IF projection = "Error" THEN projection' = "None" /\ bytes' = 0
                                ELSE UNCHANGED <<projection, bytes>>
     /\ UNCHANGED <<phase, stream, late, lock, part>>

HandleCancel(c) ==
  /\ Serves(c, "cancel")
  /\ CancelOrRemove
  /\ Answer(c, "idle")
  /\ UNCHANGED <<actor, generation, terminal, channel, dest, isStopped, starts>>

\* The actor's end: what is queued is dropped, its callers get TaskStopped.
HandleRemove(c) ==
  /\ Serves(c, "remove")
  /\ CancelOrRemove
  /\ actor' = "stopped" /\ terminal' = "ActorStopped"
  /\ events' = <<>> /\ pending' = NoProgress
  /\ call' = [d \in Caller |-> IF d = c THEN [call[c] EXCEPT !.at = "awaiting"]
                               ELSE IF call[d].at = "sent" THEN Idle ELSE call[d]]
  /\ UNCHANGED <<generation, dest, isStopped, starts>>

\* Mutant of Current: the generation of an event is not looked at.
CurrentAny(event) == Downloading

\* An event of a download that is no longer the current one is ignored.
Current(event) == Downloading /\ event.generation = stream.generation

\* handle_backend_completed: the file at the destination decides.
HandleCompleted ==
  /\ actor = "running" /\ events # <<>> /\ Head(events).kind = "Completed"
  /\ events' = Tail(events)
  /\ IF ~Current(Head(events))
     THEN UNCHANGED <<phase, display, stream, part, dest, lock>>
     ELSE /\ Abort /\ lock' = "free" /\ part' = NoFile
          /\ IF Validate(dest)
             THEN /\ phase' = "Downloaded" /\ bytes' = dest.length
                  /\ projection' = "None" /\ terminal' = "Downloaded"
                  /\ UNCHANGED dest
             ELSE /\ phase' = "NotDownloaded" /\ bytes' = 0
                  /\ projection' = "Error" /\ terminal' = "Error"
                  /\ dest' = NoFile
  /\ UNCHANGED <<actor, generation, pending, late, call, isStopped, starts>>

HandleError ==
  /\ actor = "running" /\ events # <<>> /\ Head(events).kind = "Error"
  /\ events' = Tail(events)
  /\ IF ~Current(Head(events))
     THEN UNCHANGED <<phase, display, stream, part, lock>>
     ELSE /\ Abort /\ lock' = "free" /\ part' = NoFile
          /\ phase' = "NotDownloaded" /\ bytes' = 0
          /\ projection' = "Error" /\ terminal' = "Error"
  /\ UNCHANGED <<actor, generation, pending, dest, late, call, isStopped, starts>>

HandleProgress ==
  /\ actor = "running" /\ pending # NoProgress
  /\ pending' = NoProgress
  /\ bytes' = IF Current(pending) THEN pending.bytes ELSE bytes
  /\ UNCHANGED <<actor, phase, generation, projection, terminal, stream, events,
                 files, lock, call, isStopped, starts>>

-----------------------------------------------------------------------------
(* The handle and its callers                                               *)

CallsOnly == UNCHANGED <<actor, phase, generation, display, stream, channel, files,
                         lock, starts>>
\* A caller has a handle until the last one is dropped.
HasHandle == actor \in {"running", "pausing"} \/ (actor = "stopped" /\ isStopped)
DownloadsAsked == Cardinality({c \in Caller : call[c].op = "download"})

\* send_command reads is_stopped; shutdown_for_removal sets it.
Ask(c, op) ==
  /\ HasHandle /\ call[c] = Idle
  /\ op = "download" => generation + DownloadsAsked < MaxGeneration
  /\ IF ~isStopped THEN call' = [call EXCEPT ![c] = [op |-> op, at |-> "checked"]]
     ELSE IF op = "remove" THEN call' = [call EXCEPT ![c] = [op |-> op, at |-> "awaiting"]]
     ELSE UNCHANGED call
  /\ isStopped' = (isStopped \/ op = "remove")
  /\ CallsOnly

\* The command reaches the channel, or finds that the actor is gone.  Which of
\* the waiting commands the actor takes next is left open: no caller can tell.
SendCommand(c) ==
  /\ call[c].at = "checked"
  /\ Answer(c, IF actor # "stopped" THEN "sent"
               ELSE IF call[c].op = "remove" THEN "awaiting" ELSE "idle")
  /\ UNCHANGED isStopped /\ CallsOnly

\* wait_for_actor_stopped
AwaitStopped(c) ==
  /\ call[c].at = "awaiting" /\ actor = "stopped"
  /\ Answer(c, "idle")
  /\ UNCHANGED isStopped /\ CallsOnly

AllIdle == \A c \in Caller : call[c] = Idle

\* The last handle is dropped: the loop ends and stop_preserving_artifacts runs.
DropHandle ==
  /\ actor = "running" /\ AllIdle
  /\ actor' = "stopping"
  /\ stream' = IF Downloading THEN [stream EXCEPT !.pause = TRUE] ELSE stream
  /\ UNCHANGED <<phase, generation, display, channel, files, lock, call, isStopped, starts>>

FinishStop ==
  /\ actor = "stopping" /\ actor' = "stopped" /\ terminal' = "ActorStopped"
  /\ IF Downloading THEN EnterPaused ELSE UNCHANGED <<stream, lock, phase, bytes>>
  /\ events' = <<>> /\ pending' = NoProgress
  /\ UNCHANGED <<generation, projection, files, call, isStopped, starts>>

-----------------------------------------------------------------------------
(* The life of a destination                                                *)

\* file_download_task makes a task: the files are observed, reduced and cleaned
\* up under the lease, which is taken only if there is something to do (a CRC
\* receipt to write counts), and its actor starts in the state they stand for.
Start ==
  /\ actor \in {"stopped", "down"} /\ AllIdle /\ starts < MaxStarts
  /\ actor' = "running" /\ starts' = starts + 1 /\ isStopped' = FALSE
  /\ phase' = InitialLifecycleState(dest, part)
  /\ bytes' = InitialProgress(dest, part)
  /\ projection' = InitialProjection(dest, lock = "other")
  /\ dest' = DestAfterStartup(dest, lock = "other")
  /\ part' = PartAfterStartup(dest, part, lock = "other")
  /\ \/ lock' = lock /\ UNCHANGED <<dest, part>>
     \/ lock # "other" /\ lock' = "free"
  /\ generation' = 1 /\ terminal' = "Pending"
  /\ stream' = NoStream /\ events' = <<>> /\ pending' = NoProgress
  /\ UNCHANGED <<late, call>>

\* The process dies: files stay, and so does the lock file of a dead process.
Crash ==
  /\ actor # "down" /\ actor' = "down"
  /\ phase' = "NotDownloaded" /\ generation' = 0
  /\ bytes' = 0 /\ projection' = "None" /\ terminal' = "Pending"
  /\ stream' = NoStream /\ events' = <<>> /\ pending' = NoProgress
  /\ late' = {} /\ lock' = IF lock = "ours" THEN "dead" ELSE lock
  /\ call' = [c \in Caller |-> Idle] /\ isStopped' = FALSE
  /\ UNCHANGED <<part, dest, starts>>

\* Another application downloads the same file under the lock.  It leaves its
\* lock behind if it dies.
ForeignAcquire == OthersShare /\ lock \in {"free", "dead"} /\ lock' = "other" /\ UNCHANGED files
ForeignRelease ==
  /\ lock = "other" /\ lock' \in {"free", "dead"}
  /\ part' \in InitialFiles
  /\ dest' \in {dest, NoFile} \cup {f \in InitialFiles : Complete(f)}
  /\ UNCHANGED late
Foreign ==
  /\ ForeignAcquire \/ ForeignRelease
  /\ UNCHANGED <<actor, phase, generation, display, stream, channel, call, isStopped, starts>>

ActorStep ==
  HandleCompleted \/ HandleError \/ HandleProgress \/ FinishStop
    \/ \E c \in Caller : FinishPause(c)
Serve(c) == HandleDownload(c) \/ HandlePause(c) \/ HandleCancel(c) \/ HandleRemove(c)
CallStep(c) == SendCommand(c) \/ AwaitStopped(c)

Next ==
  \/ StreamStep \/ ServerStep \/ LateCall \/ ActorStep
  \/ \E c \in Caller : Serve(c) \/ CallStep(c) \/ \E op \in Operation : Ask(c, op)
  \/ DropHandle \/ Start \/ Crash \/ Foreign

Spec == Init /\ [][Next]_vars

\* The runtime drives the stream, the actor and every call; the command channel
\* is first in, first out, and select! picks among ready branches at random, so
\* that no command and no event is passed over for ever.
FairSpec ==
  /\ Spec
  /\ WF_vars(StreamStep)
  /\ SF_vars(HandleCompleted \/ HandleError) /\ WF_vars(ActorStep)
  /\ \A c \in Caller : SF_vars(Serve(c)) /\ WF_vars(CallStep(c))

-----------------------------------------------------------------------------
CallState ==
  {Idle} \cup [op : Operation, at : {"checked", "sent", "served", "awaiting"}]
Event == [kind : {"Completed", "Error"}, generation : Nat]
StreamState ==
  [at : {"none", "measuring", "requesting", "opening", "receiving", "renaming",
         "sleeping", "reporting", "done"},
   generation : Nat, pause : BOOLEAN, attempt : Nat,
   from : 0 .. Size, received : 0 .. Size, high : 0 .. Size,
   file : {"part", "dest", "lost"},
   outcome : {"none", "Completed", "Paused", "Error"}]

TypeOK ==
  /\ actor \in {"running", "pausing", "stopping", "stopped", "down"}
  /\ phase \in {"NotDownloaded", "Paused", "Downloading", "Downloaded"}
  /\ generation \in Nat /\ bytes \in 0 .. Size
  /\ projection \in {"None", "Error", "LockedByOther"}
  /\ terminal \in {"Pending", "Downloaded", "Error", "ActorStopped"}
  /\ stream \in StreamState /\ events \in Seq(Event)
  /\ pending \in [generation : Nat, bytes : 0 .. Size]
  /\ part \in FileOrNone /\ dest \in FileOrNone
  /\ late \subseteq {"rename", "truncate", "create"}
  /\ lock \in {"free", "dead", "ours", "other"}
  /\ call \in [Caller -> CallState]
  /\ isStopped \in BOOLEAN /\ starts \in Nat

\* The part file is written only under the lease, and only by the download the
\* actor believes to be running: no stream outlives the state that owns it.
StreamUnderLease ==
  /\ Live => Downloading /\ stream.generation = generation
  /\ Downloading <=> lock = "ours"

\* A task that says Downloaded has the whole file at the destination, although
\* renames of aborted streams, retries on a part file that has moved, servers
\* that hang up early and crashes may each leave something else there.
DownloadedIsComplete == phase = "Downloaded" => Complete(dest)

\* The bytes shown are bytes this download has had: never those of one that was
\* cancelled or paused before it.
ProgressIsCurrent == Downloading => bytes <= stream.high

\* A stopped task has given back the lease, has no stream and owes no caller an
\* answer but the ones who wait for it to stop.
StoppedIsQuiet ==
  actor = "stopped" =>
    /\ lock # "ours" /\ stream = NoStream
    /\ \A c \in Caller : call[c].at \notin {"sent", "served"}

\* No download leaves more than one terminal event behind, so the channel has
\* room for the next one's until a task has started more downloads than it has
\* places (the first generation is the attachment's, which has no stream).  The
\* actor takes no events while it waits for a stream to end: a stream that could
\* not send would leave both waiting.
ReportNeverBlocks ==
  stream.at = "reporting" /\ generation <= EventCapacity + 1 => Len(events) < EventCapacity

\* An error or a lock is shown only while nothing is downloaded or downloading.
TroubleMeansIdle == projection # "None" => phase \in {"NotDownloaded", "Paused"}

\* Only the running download's own completion makes the task Downloaded: an event
\* that was sent before a pause or a cancel never ends the download after it.
CompletionIsGenuine ==
  [][phase = "Downloading" /\ phase' = "Downloaded"
       => stream.at = "done" /\ stream.outcome = "Completed"]_vars

\* Every call on the handle returns, whatever commands, events, shutdowns and
\* crashes it races with.
CallsReturn == \A c \in Caller : call[c] # Idle ~> call[c] = Idle

\* A download whose stream has ended does not stay Downloading.
EndIsNoticed == stream.at = "done" ~> stream.at # "done"

\* docs/STATE_REDUCTION_DECISION_MATRIX.md: "Any valid file is immediately shown
\* as downloaded, regardless of other state", and "Downloaded -> Paused: Cannot
\* pause completed download".
ValidIsNotPaused == actor = "running" /\ phase = "Paused" => ~Validate(dest)

\* The promise of DownloadLifecycle: which states follow which, and under which
\* of them the destination is leased.
Lifecycle == INSTANCE DownloadLifecycle
  WITH open <- actor \notin {"stopped", "down"}, leased <- lock = "ours"
LifecycleSpec == Lifecycle!Spec
===============================================================================
