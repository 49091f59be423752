----------------------------- MODULE StorageItem -----------------------------
(***************************************************************************)
(* A model in the storage (crates/uzu/src/storage): an item made of one    *)
(* download task per file, the listener that reduces what they publish to  *)
(* the state of the item, the calls of the engine's Downloader, and the    *)
(* refresh that follows the registries.                                    *)
(*                                                                         *)
(* The engine keeps the storage behind one mutex, so one operation at a    *)
(* time works on the item; the tasks, the listener and other applications  *)
(* go on meanwhile.                                                        *)
(***************************************************************************)
EXTENDS Naturals, Sequences, SequencesExt

CONSTANTS
  Files,        \* how many files the model has
  User,         \* users of a Downloader
  Engine,       \* who refreshes
  NoOne,        \* nobody holds the storage
  Capacity,     \* of a task's broadcast channel
  Shared        \* files that other applications fetch to the same directory

File == 1 .. Files

ASSUME ItemAssumption ==
  /\ Files \in Nat \ {0} /\ Capacity \in Nat \ {0}
  /\ Shared \subseteq File
  /\ Engine \notin User /\ NoOne \notin User \cup {Engine}

VARIABLES
  life, projection,  \* the lifecycle state and the projection of each file's task
  task,              \* "none", "live" in the manager, or removed from it: "dead",
                     \* or "culled" by a refresh because it had failed
  lease, disk,       \* of each destination: who has its lock, what is there
  folder,            \* does cache_path exist?
  listed,            \* is the item among the storage's items?
  held,              \* does the item have its tasks?
  cache,             \* file_download_states
  state,             \* download_state
  listener, told,    \* where the listener task is, and the state it is about to tell
  subscribed,        \* the tasks it receives from
  unread,            \* what they have published since
  holder, op, at, then, fresh, found,  \* the operation at work, its place and its locals
  pc, noticed        \* the users, and who has received a state worth waiting for

files == <<lease, disk, folder>>
tasks == <<life, projection, task>>
item == <<listed, held, cache, state>>
hearing == <<listener, told, subscribed>>
call == <<holder, op>>
locals == <<fresh, found>>
users == <<pc, noticed>>
vars == <<files, tasks, item, hearing, unread, call, at, then, locals, users>>

Phase == {"NotDownloaded", "Downloading", "Paused", "Downloaded", "Locked", "Error"}

----------------------------------------------------------------------------
\* What tasks show and publish.

\* project_runtime_public_state
Public(f) == IF projection[f] = "None" THEN life[f] ELSE projection[f]

\* A slow receiver loses the oldest states.
Received(queue, phase) ==
  Append(IF Len(queue) = Capacity THEN Tail(queue) ELSE queue, phase)

\* The watch first, then the broadcast.
Publish(some) ==
  unread' = [f \in File |-> IF f \in some \cap subscribed THEN Received(unread[f], Public(f)')
                            ELSE unread[f]]

Live == {f \in File : task[f] = "live"}
Downloading == {f \in Live : life[f] = "Downloading"}
Startable == {f \in Live : life[f] \in {"NotDownloaded", "Paused"}}

\* For one of the files a new value, for the others the old one.
Become(old, some, new) == [f \in File |-> IF f \in some THEN new ELSE old[f]]

Complete(f) ==
  /\ f \in Downloading
  /\ life' = [life EXCEPT ![f] = "Downloaded"]
  /\ lease' = [lease EXCEPT ![f] = "free"] /\ disk' = [disk EXCEPT ![f] = "whole"]
  /\ UNCHANGED <<projection, task, folder, item, hearing, call, at, then, locals, users>>
  /\ Publish({f})

Break(f) ==
  /\ f \in Downloading
  /\ life' = [life EXCEPT ![f] = "NotDownloaded"]
  /\ projection' = [projection EXCEPT ![f] = "Error"]
  /\ lease' = [lease EXCEPT ![f] = "free"] /\ disk' = [disk EXCEPT ![f] = "none"]
  /\ UNCHANGED <<task, folder, item, hearing, call, at, then, locals, users>>
  /\ Publish({f})

OthersAcquire(f) ==
  /\ f \in Shared /\ lease[f] = "free"
  /\ lease' = [lease EXCEPT ![f] = "others"] /\ folder' = TRUE
  /\ UNCHANGED <<disk, tasks, item, hearing, unread, call, at, then, locals, users>>

OthersRelease(f) ==
  /\ lease[f] = "others"
  /\ lease' = [lease EXCEPT ![f] = "free"]
  /\ \E left \in {disk[f], "whole"} : disk' = [disk EXCEPT ![f] = left]
  /\ UNCHANGED <<folder, tasks, item, hearing, unread, call, at, then, locals, users>>

----------------------------------------------------------------------------
\* The state of the item.

\* reduce_file_download_states; files are not empty.
Reduce(states) ==
  LET Has(phase) == \E f \in File : states[f] = phase
  IN  IF states = <<>> THEN "NotDownloaded"
      ELSE IF \A f \in File : states[f] = "Downloaded" THEN "Downloaded"
      ELSE IF Has("Error") THEN "Error"
      ELSE IF Has("Locked") THEN "Locked"
      ELSE IF Has("Downloading") THEN "Downloading"
      ELSE IF Has("Paused") \/ Has("Downloaded") THEN "Paused"
      ELSE "NotDownloaded"

\* get_file_download_states: the cache, or without a fitting one the tasks.
States == IF ~held THEN <<>>
          ELSE IF cache # <<>> THEN cache ELSE [f \in File |-> Public(f)]

Observable(phase) == phase \in {"Downloading", "Downloaded", "Error"}

\* update_state_and_broadcast, to those who wait for a resume.
Tell(phase) ==
  /\ state' = phase
  /\ noticed' = [u \in User |-> /\ pc[u] \in {"resuming", "waiting"}
                                /\ noticed[u] \/ Observable(phase)]

\* The aggregator takes what the forwarders have brought, the latest of each task,
\* and handle_file_task_update reduces what it has then: an operation that writes
\* the cache in between only makes that newer.
Hear ==
  /\ listener = "wait"
  /\ \E some \in SUBSET {f \in File : unread[f] # <<>>} :
       /\ some # {}
       /\ cache' = IF cache = <<>> THEN <<>>
                   ELSE [f \in File |-> IF f \in some THEN Last(unread[f]) ELSE cache[f]]
       /\ unread' = Become(unread, some, <<>>)
  /\ UNCHANGED <<files, tasks, listed, held, state, subscribed, call, at, then, locals, users>>
  /\ told' = Reduce(States)' /\ listener' = "tell"

TellState ==
  /\ listener = "tell"
  /\ Tell(told)
  /\ listener' = "wait" /\ told' = "NotDownloaded"
  /\ UNCHANGED <<files, tasks, listed, held, cache, subscribed, unread, call, at, then, locals, pc>>

----------------------------------------------------------------------------
\* Users.

\* Downloader::resume reads the state, and lets go of the storage again.
Resume(u) ==
  /\ pc[u] = "idle" /\ holder = NoOne /\ listed
  /\ state \notin {"Downloading", "Downloaded"}
  /\ pc' = [pc EXCEPT ![u] = IF state = "Error" THEN "restart" ELSE "download"]
  /\ UNCHANGED <<files, tasks, item, hearing, unread, call, at, then, locals, noticed>>

\* An operation takes the storage.
Enter(who, what, start) ==
  /\ holder = NoOne
  /\ holder' = who /\ op' = what /\ at' = start

\* It subscribes, and takes the storage again: things may have changed.
Subscribe(u) ==
  /\ pc[u] \in {"download", "restart"}
  /\ \/ /\ listed /\ Enter(u, pc[u], "ensure")
        /\ pc' = [pc EXCEPT ![u] = "resuming"]
     \/ /\ ~listed /\ holder = NoOne
        /\ pc' = [pc EXCEPT ![u] = "idle"]
        /\ UNCHANGED <<call, at>>
  /\ noticed' = [noticed EXCEPT ![u] = FALSE]
  /\ UNCHANGED <<files, tasks, item, hearing, unread, then, locals>>

Ask(u, what) ==
  /\ pc[u] = "idle" /\ listed /\ Enter(u, what, "ensure")
  /\ pc' = [pc EXCEPT ![u] = "calling"]
  /\ UNCHANGED <<files, tasks, item, hearing, unread, then, locals, noticed>>

\* wait_for_resume_to_be_observable
Observe(u) ==
  /\ pc[u] = "waiting"
  /\ noticed[u] \/ (holder = NoOne /\ listed /\ Observable(state))
  /\ pc' = [pc EXCEPT ![u] = "idle"]
  /\ noticed' = [noticed EXCEPT ![u] = FALSE]
  /\ UNCHANGED <<files, tasks, item, hearing, unread, call, at, then, locals>>

\* The operation lets go of the storage; a resume goes on to wait.
Return(next) ==
  /\ holder' = NoOne /\ op' = "none" /\ at' = "none" /\ then' = "none"
  /\ pc' = IF holder \in User THEN [pc EXCEPT ![holder] = next] ELSE pc

\* It fails, or has nothing to wait for: what the user was told is forgotten.
GiveUp ==
  /\ Return("idle")
  /\ noticed' = IF holder \in User THEN [noticed EXCEPT ![holder] = FALSE] ELSE noticed
Proceed(next) == at' = next /\ UNCHANGED <<call, then, pc, noticed>>
GoOn(next, later) == at' = next /\ then' = later /\ UNCHANGED <<call, pc, noticed>>

----------------------------------------------------------------------------
\* ensure_file_tasks and the listener.

\* What file_download_task makes of the files.
InitialLife(f) == CASE disk[f] = "whole" -> "Downloaded"
                    [] disk[f] = "part"  -> "Paused"
                    [] disk[f] = "none"  -> "NotDownloaded"

\* Tasks for these files: the manager's, or new ones.
MakeTasks(some) ==
  LET new == {f \in some : task[f] = "none"}
  IN  /\ task' = Become(task, new, "live")
      /\ life' = [f \in File |-> IF f \in new THEN InitialLife(f) ELSE life[f]]
      /\ projection' = [f \in File |->
                          IF f \in new /\ lease[f] = "others" /\ disk[f] # "whole"
                          THEN "Locked" ELSE projection[f]]

EnsureFileTasks ==
  /\ at = "ensure"
  /\ \/ /\ held /\ Proceed("look")
        /\ UNCHANGED <<tasks, held>>
     \/ /\ ~held /\ MakeTasks(File) /\ held' = TRUE
        /\ GoOn("stop", "look")
     \/ /\ ~held /\ \E n \in File : MakeTasks(1 .. n - 1)
        /\ GiveUp /\ UNCHANGED held
  /\ UNCHANGED <<files, listed, cache, state, hearing, unread, locals>>

\* Mutant of StopListening: the listener is told to stop, and not waited for.
StopListeningLater ==
  /\ at = "stop"
  /\ listener' = (IF listener = "tell" THEN "tell" ELSE "none")
  /\ told' = (IF listener = "tell" THEN told ELSE "NotDownloaded")
  /\ subscribed' = {} /\ unread' = [f \in File |-> <<>>]
  /\ Proceed(IF then \in {"clear", "gone"} THEN then ELSE "listen")
  /\ UNCHANGED <<files, tasks, item, locals>>

\* Mutant of StopListening: no listener is started after it.
StopListeningOnly ==
  /\ at = "stop"
  /\ listener' = "none" /\ told' = "NotDownloaded" /\ subscribed' = {}
  /\ unread' = [f \in File |-> <<>>]
  /\ Proceed(then)
  /\ UNCHANGED <<files, tasks, item, locals>>

\* stop_listening: abort_and_join.
StopListening ==
  /\ at = "stop"
  /\ listener' = "none" /\ told' = "NotDownloaded" /\ subscribed' = {}
  /\ unread' = [f \in File |-> <<>>]
  /\ Proceed(IF then \in {"clear", "gone"} THEN then ELSE "listen")
  /\ UNCHANGED <<files, tasks, item, locals>>

\* start_listening: for one task after the other subscribe, then read its state.
SubscribeToNext ==
  /\ at = "listen"
  /\ subscribed' = subscribed \cup {Len(fresh) + 1}
  /\ Proceed("read")
  /\ UNCHANGED <<files, tasks, item, listener, told, unread, locals>>

\* Mutant of ReadState: the cache is only set when there is none.
ReadStateOnce ==
  /\ at = "read"
  /\ LET read == Append(fresh, Public(Len(fresh) + 1))
     IN  IF Len(read) < Files
         THEN fresh' = read /\ Proceed("listen") /\ UNCHANGED <<cache, listener>>
         ELSE /\ cache' = (IF cache = <<>> THEN read ELSE cache)
              /\ listener' = "wait" /\ fresh' = <<>>
              /\ GoOn(then, "none")
  /\ UNCHANGED <<files, tasks, listed, held, state, told, subscribed, unread, found>>

\* With the last one the cache is set and the listener spawned.
ReadState ==
  /\ at = "read"
  /\ LET read == Append(fresh, Public(Len(fresh) + 1))
     IN  IF Len(read) < Files
         THEN fresh' = read /\ Proceed("listen") /\ UNCHANGED <<cache, listener>>
         ELSE /\ cache' = read /\ listener' = "wait" /\ fresh' = <<>>
              /\ GoOn(then, "none")
  /\ UNCHANGED <<files, tasks, listed, held, state, told, subscribed, unread, found>>

\* What the operation accepts: phases, and for a deletion no lock of another
\* application, whatever the tasks know of it.
Barred == \E f \in File : lease[f] = "others"
Accepts(phase) ==
  CASE op = "download" -> phase \in {"NotDownloaded", "Downloading", "Paused", "Error"}
    [] op = "pause"    -> phase = "Downloading"
    [] OTHER           -> phase # "Locked"

Look ==
  /\ at = "look"
  /\ IF Accepts(Reduce(States)) /\ (op \in {"delete", "restart"} => ~Barred) THEN Proceed("begin") ELSE GiveUp
  /\ UNCHANGED <<files, tasks, item, hearing, unread, locals>>

----------------------------------------------------------------------------
\* download() and pause().  A command acts on its task when it is sent.

\* Mutant of EnsureDownloading: the listener is left as it is.
EnsureDownloadingOnly ==
  /\ at = "begin" /\ op = "download"
  /\ folder' = TRUE
  /\ LET barred == {f \in Startable : lease[f] = "others"}
     IN  /\ life' = Become(life, Startable \ barred, "Downloading")
         /\ projection' = [f \in File |-> CASE f \in barred    -> "Locked"
                                            [] f \in Startable -> "None"
                                            [] OTHER           -> projection[f]]
         /\ lease' = Become(lease, Startable \ barred, "ours")
         /\ IF barred = {} /\ Live = File THEN Proceed("report") ELSE GiveUp
  /\ UNCHANGED <<task, disk, item, hearing, locals>>
  /\ Publish(Live)

\* ensure_downloading: every task is asked; some are barred by another's lock,
\* some fail to begin, and of those some lose what they had when they resume.  The
\* part file of a download counts as there from the start.
EnsureDownloading ==
  /\ at = "begin" /\ op = "download"
  /\ folder' = TRUE
  /\ LET barred == {f \in Startable : lease[f] = "others"}
     IN  \E failing \in SUBSET (Startable \ barred) :
         \E lost \in SUBSET {f \in failing : life[f] = "Paused"} :
           LET started == Startable \ (barred \cup failing)
           IN  /\ life' = [f \in File |-> CASE f \in started -> "Downloading"
                                            [] f \in lost    -> "NotDownloaded"
                                            [] OTHER         -> life[f]]
               /\ projection' = [f \in File |-> CASE f \in started -> "None"
                                                  [] f \in barred  -> "Locked"
                                                  [] f \in lost    -> "Error"
                                                  [] OTHER         -> projection[f]]
               /\ lease' = Become(lease, started, "ours")
               /\ disk' = [f \in File |-> CASE f \in started -> "part"
                                            [] f \in lost    -> "none"
                                            [] OTHER         -> disk[f]]
               /\ IF barred \cup failing = {} /\ Live = File
                  THEN GoOn("stop", "report")
                  ELSE GiveUp
  /\ UNCHANGED <<task, item, hearing, locals>>
  /\ Publish(Live)

\* ensure_paused, for those that are downloading; some may fail to pause.
EnsurePaused ==
  /\ at = "begin" /\ op = "pause"
  /\ \E failing \in SUBSET Downloading :
       /\ life' = [f \in File |-> IF f \in failing THEN "NotDownloaded"
                                  ELSE IF f \in Downloading THEN "Paused" ELSE life[f]]
       /\ projection' = Become(projection, failing, "Error")
       /\ IF failing = {} THEN Proceed("store") ELSE GiveUp
  /\ lease' = Become(lease, Downloading, "free")
  /\ disk' = Become(disk, Downloading, "part")
  /\ UNCHANGED <<task, folder, item, hearing, locals>>
  /\ Publish(Downloading)

\* Mutant of StoreStates: of the paused tasks only.
StoreStatesPaused ==
  /\ at = "store"
  /\ cache' = SelectSeq([f \in File |-> Public(f)], LAMBDA phase : phase = "Paused")
  /\ Proceed("report")
  /\ UNCHANGED <<files, tasks, listed, held, state, hearing, unread, locals>>

\* pause() asks the tasks for their states: none of them moves by itself now.
StoreStates ==
  /\ at = "store"
  /\ cache' = [f \in File |-> Public(f)]
  /\ Proceed("report")
  /\ UNCHANGED <<files, tasks, listed, held, state, hearing, unread, locals>>

Report ==
  /\ at = "report"
  /\ found' = Reduce(States)
  /\ Proceed("write")
  /\ UNCHANGED <<files, tasks, item, hearing, unread, fresh>>

\* update_state_and_broadcast, the end of every operation that succeeds; after
\* a failed download the storage is kept for a new one.
WriteState ==
  /\ at = "write"
  /\ Tell(found) /\ found' = "NotDownloaded"
  /\ CASE op = "restart"  -> op' = "download" /\ at' = "ensure" /\ UNCHANGED <<holder, then, pc>>
       [] op = "refresh"  -> at' = "tidy" /\ UNCHANGED <<call, then, pc>>
       [] op = "download" -> Return("waiting")
       [] OTHER           -> Return("idle")
  /\ UNCHANGED <<files, tasks, listed, held, cache, hearing, unread, fresh>>

----------------------------------------------------------------------------
\* cancel(), and the detaching of an item that is no longer listed.

\* handle_cancel_or_remove of these tasks.
Cancel(some) ==
  LET begun == {f \in some : life[f] \in {"Downloading", "Paused"}}
      failed == {f \in some : projection[f] = "Error"}
  IN  /\ life' = Become(life, begun, "NotDownloaded")
      /\ projection' = Become(projection, begun \cup failed, "None")
      /\ disk' = Become(disk, begun, "none")
      /\ lease' = Become(lease, {f \in some : lease[f] = "ours"}, "free")
      /\ Publish(some)

\* The tasks of the item, unless they have been removed already.
Mine == IF held THEN Live ELSE {}

\* cancel_and_remove_active_file_tasks.  A task that has been stopped does not
\* cancel: the call fails, with the others removed.
CancelAndRemove ==
  /\ at = "begin" /\ op \in {"delete", "restart", "refresh"}
  /\ Cancel(Mine)
  /\ task' = Become(task, Mine, "dead")
  /\ LET answered == held => Mine = File
     IN  CASE op = "refresh" /\ answered  -> Proceed("clear")
           [] op = "refresh" /\ ~answered -> GoOn("stop", "gone")
           [] op # "refresh" /\ answered  -> GoOn("stop", "clear")
           [] op # "refresh" /\ ~answered -> GiveUp
  /\ UNCHANGED <<folder, item, hearing, locals>>

DropTasks ==
  /\ held' = FALSE
  /\ IF held THEN /\ life' = [f \in File |-> "NotDownloaded"]
                  /\ projection' = [f \in File |-> "None"]
                  /\ task' = [f \in File |-> "none"]
     ELSE UNCHANGED tasks

\* Mutant of Clear: the cache goes, the tasks stay.
ClearCacheOnly ==
  /\ at = "clear"
  /\ cache' = <<>> /\ UNCHANGED <<tasks, held>>
  /\ IF op = "refresh" THEN GoOn("stop", "gone")
     ELSE Proceed("erase")
  /\ UNCHANGED <<files, listed, state, hearing, unread, locals>>

\* The listener of a detached item goes on until it is stopped, over no cache.
Clear ==
  /\ at = "clear"
  /\ DropTasks /\ cache' = <<>>
  /\ IF op = "refresh" THEN GoOn("stop", "gone")
     ELSE Proceed("erase")
  /\ UNCHANGED <<files, listed, state, hearing, unread, locals>>

\* remove_dir_all, whatever is there by now.
EraseFolder ==
  /\ at = "erase"
  /\ folder' = FALSE
  /\ disk' = [f \in File |-> "none"] /\ lease' = [f \in File |-> "free"]
  /\ found' = "NotDownloaded"
  /\ Proceed("write")
  /\ UNCHANGED <<tasks, item, hearing, unread, fresh>>

----------------------------------------------------------------------------
\* Storage::refresh.

Failed == {f \in Live : Public(f) = "Error"}

\* Failed tasks are cancelled and removed from the manager, whoever has them; then
\* the item is detached, added, or kept as it is.
Refresh ==
  /\ \/ listed /\ Enter(Engine, "refresh", "begin")
     \/ ~listed /\ Enter(Engine, "refresh", "add")
     \/ holder = NoOne /\ UNCHANGED <<call, at>>
  /\ Cancel(Failed)
  /\ task' = Become(task, Failed, IF held THEN "culled" ELSE "none")
  /\ UNCHANGED <<folder, item, hearing, then, locals, users>>

\* A detached item is gone, with its state.
Forget ==
  /\ at = "gone"
  /\ listed' = FALSE /\ cache' = <<>> /\ state' = "NotDownloaded"
  /\ DropTasks
  /\ GiveUp
  /\ UNCHANGED <<files, hearing, unread, locals>>

\* An item with files or tasks gets its tasks at once.
AddItem ==
  /\ at = "add"
  /\ \/ /\ ~folder /\ Live = {}
        /\ listed' = TRUE /\ GiveUp
        /\ UNCHANGED <<tasks, held>>
     \/ /\ folder \/ Live # {}
        /\ MakeTasks(File) /\ held' = TRUE
        /\ GoOn("listen", "report") /\ UNCHANGED listed
     \/ /\ folder \/ Live # {}
        /\ \E n \in File : MakeTasks(1 .. n - 1)
        /\ GiveUp /\ UNCHANGED <<listed, held>>
  /\ UNCHANGED <<files, cache, state, hearing, unread, locals>>

\* A directory with nothing in it goes.
Tidy ==
  /\ at = "tidy"
  /\ folder' = (folder /\ (\/ state # "NotDownloaded"
                           \/ \E f \in File : disk[f] # "none" \/ lease[f] # "free"))
  /\ listed' = TRUE
  /\ GiveUp
  /\ UNCHANGED <<lease, disk, tasks, held, cache, state, hearing, unread, locals>>

----------------------------------------------------------------------------
\* The engine starts with what is in the directory.
Init ==
  /\ life = [f \in File |-> "NotDownloaded"] /\ projection = [f \in File |-> "None"]
  /\ task = [f \in File |-> "none"]
  /\ \E locked \in SUBSET Shared : lease = [f \in File |-> IF f \in locked THEN "others" ELSE "free"]
  /\ disk \in [File -> {"none", "part", "whole"}]
  /\ folder = (\E f \in File : lease[f] = "others" \/ disk[f] # "none")
  /\ listed = FALSE /\ held = FALSE /\ cache = <<>> /\ state = "NotDownloaded"
  /\ listener = "none" /\ told = "NotDownloaded"
  /\ subscribed = {} /\ unread = [f \in File |-> <<>>]
  /\ holder = NoOne /\ op = "none" /\ at = "none" /\ then = "none"
  /\ fresh = <<>> /\ found = "NotDownloaded"
  /\ pc = [u \in User |-> "idle"] /\ noticed = [u \in User |-> FALSE]

TaskStep(f) == Complete(f) \/ Break(f)
Others(f) == OthersAcquire(f) \/ OthersRelease(f)
Listen == Hear \/ TellState
UserStep(u) == Resume(u) \/ Subscribe(u) \/ Ask(u, "pause") \/ Ask(u, "delete") \/ Observe(u)
Operate ==
  \/ EnsureFileTasks \/ StopListening \/ Look \/ EnsureDownloading \/ EnsurePaused
  \/ StoreStates \/ Report \/ WriteState
  \/ CancelAndRemove \/ Clear \/ EraseFolder
  \/ Forget \/ AddItem \/ Tidy
  \/ SubscribeToNext \/ ReadState

Next == \/ \E f \in File : TaskStep(f) \/ Others(f)
        \/ Listen \/ Operate \/ Refresh
        \/ \E u \in User : UserStep(u)

Spec == Init /\ [][Next]_vars

----------------------------------------------------------------------------
\* Properties.

\* Every variable has its type, and a message between two tasks is a phase.
TypeOK ==
  /\ life \in [File -> {"NotDownloaded", "Downloading", "Paused", "Downloaded"}]
  /\ projection \in [File -> {"None", "Locked", "Error"}]
  /\ task \in [File -> {"none", "live", "dead", "culled"}]
  /\ lease \in [File -> {"free", "ours", "others"}]
  /\ disk \in [File -> {"none", "part", "whole"}]
  /\ {folder, listed, held} \subseteq BOOLEAN
  /\ cache \in [File -> Phase] \cup {<<>>} /\ {state, told, found} \subseteq Phase
  /\ listener \in {"none", "wait", "tell"} /\ subscribed \subseteq File
  /\ unread \in [File -> Seq(Phase)] /\ \A f \in File : Len(unread[f]) <= Capacity
  /\ holder \in User \cup {Engine, NoOne}
  /\ op \in {"none", "download", "restart", "pause", "delete", "refresh"}
  /\ fresh \in Seq(Phase) /\ Len(fresh) < Files
  /\ pc \in [User -> {"idle", "download", "restart", "resuming", "waiting", "calling"}]
  /\ noticed \in [User -> BOOLEAN]

\* A listener that has read everything knows the tasks as they are: start_listening
\* loses nothing between its subscriptions and its reads, nor does a pause.
CacheFollows ==
  held /\ listener = "wait" /\ cache # <<>>
    /\ (\A f \in File : unread[f] = <<>>)
    => cache = [f \in File |-> Public(f)]

\* An item hears of its downloads, whatever was restarted or has failed.
DownloadsAreHeard ==
  at \notin {"stop", "listen", "read"} =>
    \A f \in Downloading : listener # "none" /\ f \in subscribed

\* Once deleted an item stays so: no late update brings back an older state.
DeletedStaysDeleted ==
  listed /\ ~held /\ holder = NoOne => listener = "none" /\ cache = <<>> /\ state = "NotDownloaded"

\* The item works with tasks that answer, except while it is being deleted, and
\* except after a refresh that came upon a task of its own that had failed: that
\* removes the task from the manager and leaves it in the item, where a deletion
\* that follows takes the others down with it and fails.
TasksAnswer ==
  held /\ at \notin {"stop", "clear", "gone"} =>
    Live = File \/ \E f \in File : task[f] = "culled"

\* A resume that has succeeded does not wait in vain: it has been told of a state
\* to go on with, though others may have paused or deleted the item since.
ResumeIsAnswered ==
  \A u \in User : pc[u] = "waiting" => noticed[u]
===============================================================================
