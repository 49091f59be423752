# Models and proofs of uzu

TLA+ modules for the stateful core of uzu, the configurations that
model-check them with TLC, and theorems proved with TLAPS.  Paths below are
relative to `src/`; `crates/` holds the Rust workspace.

## 1. The system

uzu runs language models on the local machine.  It downloads model files,
keeps track of them, loads them, and streams tokens through chat sessions.

| Part | State | Operations | Interacts with |
| --- | --- | --- | --- |
| Destination lock (`crates/download-manager/src/lock_manager.rs`) | `<dest>.lock`, quarantine files | acquire, reclaim, release, restore | every manager of every process, through the file system |
| Startup reduction (`.../reducer/`, `backends/common/startup.rs`) | none (files in, plan out) | observe, validate, decide, apply | the manager, on opening a task |
| Download task actor (`.../file_download_task_actor/`) | lifecycle state, generation, counters, projection, terminal outcome | download, pause, cancel, remove, events, progress, stop | its handle (bounded command channel), its stream (bounded event channel and a progress slot), the lock |
| Universal backend (`.../backends/universal/`) | one HTTP stream, `<dest>.part`, retries | measure, request, open, receive, rename, report | server, file system, actor |
| Apple backend (`.../backends/apple/`) | NSURLSession tasks | the same interface | the system's download daemon |
| Manager (`.../backends/common/manager*.rs`) | cache of tasks, construction locks | get or make a task, remove | actors, lock, reducer |
| Storage (`crates/uzu/src/storage/`) | an item per model: its tasks, a listener, a cache of their states, the state shown | download, pause, delete, refresh | manager, registry, the engine's mutex |
| Downloader (`crates/uzu/src/engine/downloader.rs`) | a broadcast receiver while a resume waits | resume, pause, delete, progress | storage |
| Engine, registry, player, settings (`crates/uzu/src/`) | configuration, known models | load, list, refresh | storage, backends |
| Chat sessions (`crates/nagare/src/chat/`) | session state, history, registered tools, the encoding and the model's context | reply, cancel, reset, add tools | language model or remote backend, templates, parser |
| Token stream parser (`crates/token-stream-parser/`) | reduction stack | push token, finish | chat sessions |
| Language model stream (`crates/backend-uzu/src/engine/language_model/stream/`) | tokens, KV cache, the pass in flight and its trie, penalty ring, grammar | open, next, drop | kernels, speculators, grammar |
| Speculators (`crates/backend-uzu/src/speculators/`) | history lookup and its schedule; a draft model's own cache | propose, observe | the stream |
| Allocator (`crates/backend-uzu/src/backends/common/allocator/`) | pools of buffer ranges | allocate, free, reuse | command buffers |
| Kernels, encodable blocks (`crates/backend-uzu/`) | tensors | numerical | the GPU or CPU |
| Templates, JSON transforms, shared types, CLI, bindings, Python tools | little or none | formatting, glue | |

### What is hard, and what makes each part correct

* **Destination lock.**  No kernel lock is used: mutual exclusion rests on
  `hard_link` and `rename`.  Between any two calls another process may act,
  crash or be restarted, and 30 minutes may pass.  Correct means: one lease at a
  time; a live lock is never destroyed; only dead owners' locks are reclaimed; a
  dead owner's lock does not block its own application.
* **Download task.**  Commands, terminal events, progress, the end of the last
  handle and the stream itself interleave.  Pausing waits for the stream;
  cancelling aborts it, but not the file system call a blocking thread already
  has.  Correct means: the part file is written only under the lease; a download
  ends only by its own event; a file called downloaded is whole; every call
  returns; nobody waits on the other with a full channel between them; a stopped
  task leaves nothing behind.
* **Startup.**  Crashes leave part files, complete files and locks in every
  combination.  Correct means: only a valid file is Downloaded; nothing is cleaned
  up under another owner's lock.
* **Manager.**  Concurrent requests, removal while constructing, files that change
  while they are looked at, failures once the lease is taken.  Correct means: at most
  one live actor for a destination; those who wait share one construction lock; the
  clean-up deletes what it was decided for; every path gives back the lease.
* **Storage item.**  Its state is reduced from tasks that move by themselves, by a
  listener that hears of them over lossy channels and is replaced while they move, and
  by operations that reduce first and write later.  A deletion removes the tasks under
  the feet of users that wait.  Correct means: what the listener has read is what the
  tasks are; no download goes on unheard; nothing revives a deleted item; a resume that
  succeeded does not wait for ever.
* **Chat session.**  A turn is a task; it may be cancelled, lose its reader, fail to
  encode or to decode, and be joined by a reset or new tools at any await.  Its replies
  are stored by position.  Correct means: one turn at a time, and the session always
  comes back to Idle; nobody overwrites another's message; every tool result stands
  behind its call; the model generates over exactly the history, though its context is
  reused from turn to turn.
* **Language model stream.**  Passes are submitted before the previous output is
  read, drafts are verified in a trie and accepted in part, and the owner may drop the
  stream half-way through an accepted path and open another one over the same state.
  Correct means: no row beyond the context; host, caches, penalty ring and grammar agree;
  whatever is speculated, the tokens are those of plain decoding.
* **Allocator.**  Reuse of memory that is still in flight.

`PROJECT.json` lists every hazard with its line and the properties that cover it.

## 2. Modules

| Module | Models |
| --- | --- |
| `DestinationLock` | the lock protocol, one step per file system call |
| `DestinationLockProofs` | its theorems |
| `StartupReducer` | validation and the reduction of files to a task's first state (operators only) |
| `DownloadTask` | one task: actor, stream, callers, crashes, other applications; extends `StartupReducer` |
| `DownloadLifecycle` | the abstract promise `DownloadTask` implements |
| `DownloadTaskProofs` | theorems about `DownloadTask`, with the refinement |
| `TaskManager` | one destination of a manager: callers, cache, construction locks, startup; extends `StartupReducer` |
| `TaskManagerProofs` | its theorems |
| `StorageItem` | one item of the storage over its files' tasks, the Downloader's calls and the refresh |
| `StorageItemProofs` | its theorems |
| `ChatSession` | one chat session: turns, tools, cancellation, resets, reuse of the context |
| `ChatSessionProofs` | its theorems |
| `TokenModel` | what a language model computes, as a parameter, and plain decoding (operators only) |
| `LanguageModelStream` | a stream of tokens with its speculators; extends `TokenModel` |
| `PlainDecoding` | the abstract promise `LanguageModelStream` implements |
| `LanguageModelStreamProofs` | theorems about `LanguageModelStream`, with the refinement |
| `MCDestinationLock`, `MCDownloadTask`, `MCTaskManager`, `MCStorageItem`, `MCChatSession`, `MCLanguageModelStream` | sets, small models and symmetry for TLC |

The layers meet in abstractions that are checked: `DownloadTask` uses a lease, which
`DestinationLock` is about; `TaskManager` and `StorageItem` use tasks in the states of
`DownloadLifecycle`, which `DownloadTask` implements.

### DestinationLock

A manager instance is an element of `Manager`; `ProcessOf` and `AppOf` give its
process and its `manager_id`.  `lock` is the file at the lock path: a `LockInfo`
(owner, incarnation of its process, time), `Garbled` or `NoFile`.  A lock file is
published by `hard_link` of a finished temporary file, hence always whole.  A rename to a
unique quarantine name moves the value to `quarantine[m]`.  `pc` is the await
`acquire_lock` or `release_lock_if_owned` stands at, `observed` what it read last.

| Action | Code |
| --- | --- |
| `Acquire`, `InstallLock` | `acquire_lock`, `write_new_lock_file` |
| `ReadLock`, `ClassifyLock` | `check_lock_file`; the probe of the owner's process is a later step than the read |
| `RenameStale`, `ConfirmReclaim` | `reclaim_stale_lock` |
| `Release`, `RenameOwn`, `ConfirmRelease` | `release_lock_if_owned` |
| `Restore` | `try_restore_quarantine` |
| `Restart`, `Tick` | a process dies and starts again; the clock |

Simplifications: the clock is read in the step of the link, where the code reads
it at the start of `acquire_lock`, which only makes a lock look younger; the
fallbacks for file systems without `hard_link` and for wasm (no process probe) are
left out, and so is the extra check of `try_acquire_lock`; process ids are not
reused; the read and the conditional decision of `Release` are one step.

### StartupReducer

A file is its length and whether its bytes are the server's.  `Validate` is
`validate`/`validate_completed_file`: the declared length, the declared checksum.
A CRC receipt names the size and modification time of the file it was made for, so
a receipt that matches gives the checksum's answer and is not modelled apart.
`DestAfterStartup` and `PartAfterStartup` are the clean-up `decide_actions` asks
for and `apply_actions` does.

### DownloadTask

`actor` says where the actor's loop is; `phase`, `generation`, `bytes`,
`projection`, `terminal` are its fields.  `stream` is the active task: `at` is the
await it stands at.  `events` and `pending` are the two ways it reports.  `part`,
`dest`, `late` are the disk: `late` holds the calls of aborted streams that a
blocking thread still has.  `lock` is the lease, in the abstraction
`DestinationLock` is about.  `call` is what each user of the handle waits for.

| Actions | Code |
| --- | --- |
| `Measure` ... `Retry`, `Report` | `backends/universal/context.rs`, one step per await of `download_once` and `download_streaming` |
| `LateCall` | `spawn_blocking` work that outlives `abort_and_join` |
| `HandleDownload`, `HandlePause`/`FinishPause`, `HandleCancel`, `HandleRemove` | the handlers of `download_task_actor.rs` |
| `HandleCompleted`, `HandleError`, `HandleProgress` | the handlers of events |
| `DropHandle`/`FinishStop` | the end of the loop and `stop_preserving_artifacts` |
| `Ask`, `SendCommand`, `AwaitStopped` | `generic_file_download_task.rs` |
| `Start` | `file_download_task` of the manager: observe, reduce, clean up, spawn |
| `Crash`, `Foreign` | the process dies; another application uses the lock |

Abstractions, and why they keep what matters:

* A handler is one step, except pause and stop, whose wait for the stream is what
  makes them interesting.  In the other handlers nothing else touches the actor's
  state, and the stream has been aborted or not started.
* The command channel is first in, first out; the model lets the actor take any
  caller's waiting command.  A caller has one command at a time, so only fairness
  can tell, and the fairness assumed is the channel's.
* A write is done when `write_all` returns; a crash keeps what was written.
  Loss of pages on a power failure is not modelled.
* Two late calls of one kind collapse into one.  Late are the opening of the part file (which
  truncates or creates it) and its renaming.  The removal of the part file after a 416
  (`context.rs:222`), which may outlive an abort too, takes effect at once or not at all.
* `create_dir_all` failing and a backend failing to start are the same error path
  (`FailFresh`, `FailResume`); a failure to write the lock is `NotBegun`.
* The universal backend's pause never fails, so the error branch of `handle_pause`
  is unreachable and left out.
* `Start` is one step: that files may change between observation and lease is
  what `TaskManager` is about.
* The event listener, `wait()` and the attachment of running downloads (the
  Apple backend only) are left out.

### TaskManager

The other half of the same story: many callers, many tasks one after the other,
each task reduced to the states of `DownloadLifecycle`.  `pc[c]` is the await a call
of `file_download_task` or `remove_file_task` stands at; `handle[c]` its reference to
a construction lock, `look[c]` what it has observed, `task[c]` the task it made or took.
`registered` and `cache` are the two maps at this destination.  `phase` and `stopping`
are the tasks, `lock`, `part`, `dest` the disk, with `lock` as in `DownloadTask`.
`seen` is a history variable: the states the files stood for since the look under way
began.

| Actions | Code |
| --- | --- |
| `Open`, `LookUp`, `Recheck`, `Spawn`, `Insert`, `Fail` | `file_download_task` |
| `Remove`, `Take`, `Shutdown`, `AwaitStopped`, `FinishRemove`, `Leave` | `remove_file_task`, `shutdown_for_removal` |
| `Queue`, `Enter`, `Unregister` | `construction_lock`, its tokio mutex, `remove_construction_lock_if_unshared` |
| `ReadPart`, `ReadDest`, `ReadLock`, `Decide` | `Startup::observe`, `validate`, `decide`, and what `prepare_startup` makes of it |
| `Acquire`, `Apply`, `Release` | the lease of `prepare_startup`, `apply_actions`, and its error paths |
| `BeginDownload` ... `StopTask` | what an actor does to the lease and the files |
| `OthersAcquire` ... `OthersWrite` | another application, under the lock |

Abstractions, and why they keep what matters:

* The files may be observed up to twice: without the lease, and again under it
  or after it was refused.  A plan asks for the lease; so may a CRC receipt that has to
  be written or deleted, and as receipts are left out `Decide` may ask for the
  lease without a plan.  The destination's presence and its validity are two awaits
  (`startup.rs:48` and `:51`) and one step here, `ReadDest`.  A lease that was refused and is free on the second look
  is an error of the call, as in the code.
* The lock's name is the manager's, not the task's, so `MayLease` admits a second
  lease of the same manager.  Nothing in the lock keeps two tasks of one
  manager apart; that `OneLiveTask` holds nevertheless is the point.
* The guard and the reference of a call are dropped in the step in which it returns;
  reference counts are the callers whose `handle` is the lock.
* Another application keeps to the lock and does not remove or overwrite a file that
  is valid for it, as this one does not.
* A call is driven to its end.  Dropping the future of `remove_file_task` while the
  actor is still stopping would free the construction lock too early; this is
  listed as a hazard and not modelled.
* Calls that name another URL or checksum than the cached task's are refused in the
  steps where the cached task is returned; they change nothing and are left out.  An I/O
  error of `release` at the end of `prepare_startup` is left out too.

### StorageItem

Files are numbered; each has a task in the abstraction of `DownloadLifecycle`:
`life` and `projection` give its public state, `task` says whether the manager has it, has
never made it, has removed it for a deletion (`"dead"`), or for a refresh that found it
failed while the item still has it (`"culled"`).  `lease`, `disk` and `folder` are the
destination's lock and files and the item's directory.  `held` is
`file_download_tasks.is_some()`, `cache` and `state` are the two values behind the
item's locks, `listener`, `told` and `subscribed` its listener task.  `unread[f]` is the
broadcast channel of a task as the item's forwarder sees it: a full channel loses its oldest
state.  `holder` is who holds the engine's storage mutex, `at` the await its operation
stands at, `then` where it goes after the listener has been replaced; `found` and
`fresh` are locals.

| Actions | Code |
| --- | --- |
| `Complete`, `Break` | a task by itself, as `DownloadTask` lets it |
| `OthersAcquire`, `OthersRelease` | another application fetches a `Shared` file |
| `Hear`, `TellState` | the aggregator and `handle_file_task_update`, up to the reduction and after it |
| `Resume`, `Subscribe`, `Ask`, `Observe` | the Downloader: reading the state, subscribing, the calls, `wait_for_resume_to_be_observable` |
| `EnsureFileTasks`, `StopListening`, `SubscribeToNext`, `ReadState` | `ensure_file_tasks`, `stop_listening`, `start_listening`, one step per task and await |
| `Look` | the checks of `download`, `pause` and `cancel` |
| `EnsureDownloading`, `EnsurePaused`, `StoreStates`, `Report`, `WriteState` | the rest of `download` and `pause`, with tasks that fail or are barred |
| `CancelAndRemove`, `Clear`, `EraseFolder` | the rest of `cancel`; a restart goes on with a download |
| `Refresh`, `AddItem`, `Tidy`, `Forget` | `Storage::refresh` for this item: failed tasks, a new item, one that is kept, one that is detached |

Abstractions, and why they keep what matters:

* The storage mutex lets one operation at a time work on the item, so they
  interleave with the tasks, the listener, other applications and the Downloader's steps outside
  the mutex, never with each other.
* A command acts on its task when it is sent: `DownloadTask` shows that it returns.
  The loops over the tasks (start, pause, cancel with remove) are one step each; tasks
  that move in between are those whose steps come before or after.  The two checks for
  foreign locks that a deletion makes are one step with the reduction of its state.
* The forwarders and the listener's channel are one queue per task.  `Hear` may
  take any of the tasks that have something to tell, so the order across tasks is free.  Of
  each it takes the newest state, where the code may apply an older one first; the two differ
  in what is shown in between.
* Resuming a paused task may fail with the loss of its part file and a sticky error
  (`download_task_actor.rs:478`); a task that fails to begin otherwise stays as it was.
  The part file of a download counts as there from its start: until the task ends nothing can
  tell, as the lock file is there too.
* Byte counts, empty file lists and the progress stream are left out; an item has at
  least one file.  The ignored error of `remove_dir_all` is left out.

A refresh removes failed tasks from the manager, also those that an item keeps
(`storage/mod.rs:85`).  From then on everything that uses such a task fails, and a deletion
removes the item's other tasks before it meets it.  `TasksAnswer` therefore says: outside a
deletion the item's tasks are all the manager's, or one of them is culled; no other order
of steps takes a task from under its item.  The other properties need no such exception.

### ChatSession

`state` is `ChatSessionState`.  A message is a record of its role, its turn, its round of
tools, the size of what it says and whether it calls tools; it renders to two tokens,
what it says and its end.  `encoded` and `model` are the tokens of the encoding and of
the language model's state; `instance` is the lock of the token session.  `pc[t]` is the await
the task of a turn stands at; `snap`, `reply` and `toolTurns` are its locals, forgotten
when it ends.

| Actions | Code |
| --- | --- |
| `Begin`, `ExtendMessages` | the start of a turn's task, `send_input` |
| `OpenStream`, `RefuseHistory`, `RefusePrompt` | `token::Session::stream`: encode, keep or reset the context, feed the rest |
| `Generate`, `Stop`, `FailDecode`, `EndStream` | a chunk of the stream, with `Output` for the stored reply and its sending |
| `StartTools`, `FinishTools`, `AbandonTools`, `EndTurn` | the loop over rounds of tools |
| `TrimMessages`, `FinishTurn` | the end of the task |
| `BeginReset`, `ResetSession`, `ClearMessages`, `FinishReset` | `reset` |
| `AddTools`, `StripTools` | `add_tools` |
| `Cancel` | the cancellation token, noticed at the stream or later |

Abstractions, and why they keep what matters:

* A template either keeps an old reply as it was generated or rewrites it (as those do
  that drop reasoning): that decides whether the context can be reused.  `orderly`
  encodings validate the order of roles as hanashi's configurations do.
* A receiver that is gone ends the turn at its next output: each `Output` may go there.
* A reply calls tools or not: how many, and their cutting down to one for models that
  support no more, is left out, and a round has one result.
* Creating a fresh model state never fails; message backends (remote services) have no
  context to reuse and are not modelled.

`reset` takes the session from a turn whose tools run (`mod.rs:551`), and the state does not
say whose it is.  Such a turn is `overtaken`: when its tools return it finds another state and
leaves (`mod.rs:408`), which is what the code means to happen and what the properties say with
every reset in place.  It goes wrong when the turn has been cancelled, or when another
turn has come to its own tools meanwhile: then the overtaken turn goes on (`crossed`), and
from there `OneTurn`, `PromptIsWhole`, `ToolResultsAnswer` and `HistoryIsKept` promise nothing.
Without that exception TLC violates all four: `OneTurn` in 11 steps (a cancelled turn writes Idle
under a reset), `HistoryIsKept` in 15 (the reset then clears what a new turn has said),
`ToolResultsAnswer` in 20 (a result joins another turn's history), and, with a third
turn, `PromptIsWhole` in 28.  `BecomesIdle` has no exception.  Both history variables are
read by nothing but the properties.

### LanguageModelStream

The model is a function `Sample` of the context, of the tokens a repetition penalty looks
at and of the position's seed (`TokenModel`).  `kv` and `draftKv` hold, for each cached row,
the token it was computed from, so that a row of the wrong token or position shows
up in what is sampled.  `pass` is the pass in flight: its root, its trie (nodes named by their
paths), what it samples at each node, and whether it is chained (`full`).

| Actions | Code |
| --- | --- |
| `Open`, `Continue` | `new` with input (prefill) and without |
| `GenerateSeeded`, `GenerateChained`, `GenerateVerified`, `GenerateAccepted` | `next`, by the state it finds |
| `PlainPass`, `TreePass`, `ChainPass`, `Halt`, `Submit` (parts of these) | the rest of `generate`: the batch, the trie, the bitmasks, the submission, the halt |
| `Drop` | `Drop`: what was returned is accepted, the next token is kept |

`Propose`, `HindsightHits`, `Requested` and `Observed` are the prompt lookup and its
`DraftingSchedule`, with their lengths and bars as constants.  A draft model is any tree
within its budget.

Abstractions, and why they keep what matters:

* A submitted pass has its result at once; what the host does not know yet, it
  does not use before the code reads it.
* A grammar is a set `Legal` of token sequences; its matcher (xgrammar, external) takes a
  sequence token by token (`Admitted`).  It has terminated when it takes nothing more (`Ended`):
  a mask with nothing in it masks nothing, `FlatTrie::accept` no longer asks it, and one
  that is asked is an error.  In the code `is_terminated` is a flag of the matcher, which
  knows stop tokens; here a matcher that takes nothing more is one that has
  terminated.  It is engaged from the first token on (trigger tokens are left out).
* `Broken` are the streams that ended with an error or a panic: the matcher rejected a
  sampled token (`"Invalid"`), a mask met a rejected draft (`"Panicked"`), or the walk down a trie
  went on with a terminated matcher (`"Overrun"`).  Dropping one leaves its state
  `"Spoiled"`, over which no stream is opened here.  In the code one can be: see the observations
  on the stream below.
* Errors of the backend, capture spans and contexts without limit are left out.  A stream that
  halts survives a token its grammar rejects, as the code sets `Halted` before it reads the token.
* `LookupWithGrammar` is FALSE in `stream_plain` because of the finding below.

A stream opened without input (`Continue`) takes options of its own: the penalty ring is
filled for its window, and its grammar begins.  The token it goes on from was sampled by the stream
before, under the options of that one (the TODO at `stream.rs:375`), and a grammar
that rejects it is not asked again (`stream.rs:403`, `Hearing`).  `PlainDecoding` has this as its
one exception: the first token of such a stream is the one that was kept (`kept`), and a
grammar that rejects it begins after it.  Every other token is plain under the options of
its own stream.

## 3. Runs

| Run | Instance | Checks |
| --- | --- | --- |
| `lock_pair` | 2 managers, 2 applications, 2 processes, 3 incarnations, timeout 1, clock to 3 | `TypeOK`, `AtMostOneLease`, `HolderKeepsItsLock`, `ReclaimIsLawful`, `DeadLockIsCleared` |
| `lock_race` | 3 managers, no crash | `AtMostOneLease` is violated |
| `task_shared` | 2 callers, 1 piece, no retry, 3 downloads, 2 starts, late opens and renames, other applications | `TypeOK`, `StreamUnderLease`, `StoppedIsQuiet`, `ReportNeverBlocks`, `TroubleMeansIdle` |
| `task_integrity` | 2 callers, 2 pieces, 1 retry, 3 generations, 2 starts, late renames | `DownloadedIsComplete`, `ProgressIsCurrent`, `CompletionIsGenuine`, `LifecycleSpec` |
| `task_live` | 2 callers, 1 piece, 1 retry, 1 start | `CallsReturn`, `EndIsNoticed` |
| `task_paused_complete` | as above | `ValidIsNotPaused` is violated |
| `manager_startup` | 2 callers, 2 tasks, files absent, damaged or whole, other applications | `TypeOK`, `OneQueue`, `OneLiveTask`, `LeaseIsUsed`, `OpensAsItWas`, `CleanUpIsLawful`, `CallsReturn` |
| `item_calls` | 2 files, 2 users, channels of 1, one file that others fetch too | `TypeOK`, `CacheFollows`, `DownloadsAreHeard`, `DeletedStaysDeleted`, `TasksAnswer`, `ResumeIsAnswered` |
| `chat_session` | 2 turns, 1 reset, 1 call of `add_tools`, every fault and template | `TypeOK`, `OneTurn`, `PromptIsWhole`, `ToolResultsAnswer`, `HistoryIsKept`, `BecomesIdle` |
| `chat_cancel` | the same, ordered encodings, no fault | `HistoryIsEncodable` is violated |
| `stream_plain` | 2 tokens, 3 small models, every speculator, context of 8 | `TypeOK`, `ContextFits`, `CachesInStep`, `TrieMatchesGrammar`, `PlainSpec` |
| `stream_grammar` | lookup of 3 tokens under a grammar, context of 12 | `TrieMatchesGrammar` is violated |

`manager_startup` has 413,246 distinct states, `item_calls` 2,402,117, `chat_session`
643,434 and `stream_plain` 195,650.

Bounds.  `MaxNow` = 3 with `LockTimeout` = 1 lets a lock be fresh, at the boundary
and over it.  Three incarnations let a process die while it reclaims a lock of
its own first life.  Generation 1 belongs to the attachment, so `MaxGeneration` = 3
is two downloads of one task: an event of the first may meet the second, which
is what every property about stale events needs.  `EventCapacity` = 2 (the code's
channel is larger) is as many events as two downloads can send: `ReportNeverBlocks` shows
that a channel never fills before its task has begun more downloads than it holds, and a reporter
that waits for room is never met, here or in `task_live`.  Two starts give a restart
over whatever the first life left.  Two pieces and one retry let a retry resume a
half-written file.  Deadlock is checked for the lock; a task whose bounds are used up
and that has been closed may stop, so it is not checked there.
Two tasks of the manager are one and its successor, which is all that `OneLiveTask` tells
apart; a construction lock is reused only when nobody refers to it, so as many as callers
are enough.

Two files give an item that is partly done, partly failed or partly locked; with one
receiver started and the other not, every order of subscription, publication and read
occurs.  A capacity of 1 makes every second message a loss.  Two users are one that
waits and one that pauses or deletes under it.
In `chat_session` two turns, a reset and an adder meet at every await; one piece of
reply and one round of tools tell a reply that is begun, called or ended, and a second
turn reuses or rewrites the context of the first.  A reset at the tools of the one lets the
other reach its own.
In `stream_plain` a context of 8 holds two prompts and several drafted passes: with a
lookup of 2 tokens, drafts of 2, windows of 2 passes and trees of 3 nodes the schedule enters
and leaves drafting, paths are accepted in full and in part, and the limit cuts a
batch.  The three models repeat their context (so that drafts are right), depend on all of
it and the seed, and depend on the penalty's tokens.  The grammar begins with a zero, forbids two ones in a row and
ends with two zeros, so masks force tokens and matchers terminate in the middle of a
stream, and a kept one is rejected by the stream that goes on from it.  `stream_grammar` needs 12 for a lookup
of 3 whose drafts the grammar rejects at a second look.

Deadlock is checked for the manager and the item.  It is not for `stream_plain`, where a full
context is never opened again, nor for `chat_session`, where all calls may be done.

### Findings

* **Three managers and one stale lock** (`lock_race`).  `reclaim_stale_lock` renames
  whatever is at the path.  A, slow, has classified the stale lock; B reclaims it
  and installs its own; A renames B's lock away, sees that it is another and is
  about to put it back; C installs its lock on the free path.  `hard_link` fails,
  A drops B's file, and B and C both hold the lease.  With two managers there is
  no C: `lock_pair` and the theorem `TwoManagersExclude`.
* **Pause racing completion** (`task_paused_complete`).  The stream may rename the
  file and report while the actor waits in pause.  The task becomes Paused with 0
  bytes and a complete file at the destination; only `download` again or a restart finds it.
* **Lookup under a grammar** (`stream_grammar`).  `generate` advances the grammar's
  matcher over the drafts of the prompt lookup and does not take it back, as the builder of
  the draft model's tree does.  Building the bitmasks then walks the same drafts again
  from there: it panics where the grammar rejects one, and otherwise the masks are those of a
  later position.
* **A cancelled tool call** (`chat_cancel`).  The unanswered call is taken out of the
  history, but the user's message before it stays.  An encoding that validates the order
  of roles refuses the next user's message, which stays in the history too, and all
  turns after it until a reset.
* Read, not run: `docs/STATE_REDUCTION_DECISION_MATRIX.md:258` allows
  Any to NotDownloaded by cancel, where `handle_cancel` leaves Downloaded alone; its case 11
  (lines 130-134) keeps the part file beside an invalid destination, where
  `decide_actions` always deletes the destination and `decide` starts in Paused.

Limits of `DownloadedIsComplete`, found while choosing its assumptions: it fails if no checksum
is declared and late opens are possible; if another application leaves a part file that a late
rename picks up; and if a late truncation and a late rename of two cancelled
downloads both fall after a third completed.  The run and the theorem state the
assumptions under which it holds.

Observations on the storage, without a run since nothing in the repository promises the
contrary (each is listed as a hazard):

* A task that was refused a lease shows Locked until a download is asked of it again,
  and `download` refuses a Locked item: once Locked, the item stays so although
  the other application is done (`download_task_actor.rs:503`).
* A deletion looks for foreign locks first and removes the directory several awaits
  later, with the lock and the files of whoever came in between (`item.rs:385`).
* An operation and the listener each reduce first and write later, so the older of two
  states may be written last and stay (`item.rs:309`).
* A refresh that meets failed tasks removes them from the manager but leaves them with
  their item: every later call of the item fails (the exception of `TasksAnswer`).

Observations on the chat session: what an overtaken turn does that goes on (section 2).

Observations on the stream, likewise:

* A stream without input first returns a token that was sampled under the options of another
  stream, also where its own grammar rejects it; the grammar then runs beside a text it has
  not seen from the start (`stream.rs:375`, `stream.rs:403`).
* A stream that ends with an error leaves more than it should.  `resolve` pushes the token to
  the state's `tokens` before the grammar rejects it, so the state is one token ahead of its
  cache, and `drop` keeps no token to go on from (`stream.rs:71`, and the TODO at
  `stream.rs:986`).  Another stream over that state would prefill at the wrong positions.  In the
  model this takes a `next()` after the grammar has terminated; nagare stops at a stop token.
* A drafted token on which the grammar terminates stays in the trie, as the speculators filter
  drafts by what the matcher accepts.  If it is also the one that is sampled, the walk of
  `FlatTrie::accept` goes down to it with a terminated matcher and meets the assertion "Grammar
  has terminated but llm continued generation" (`trie.rs:250`).  This is the phase
  `"Overrun"`; it is reached in `stream_plain` with a draft model under the grammar.

### Fairness

`DestinationLock`: each manager's steps are weakly fair, as the runtime drives a
call that has begun; acquiring and releasing are the user's choice and are not fair.
`DownloadTask`: the stream's own steps (`StreamStep`), the actor's steps and the steps of a call
are weakly fair; steps that need the server (`ServerStep`) are not, a server may be
silent for ever.  Commands and terminal events are strongly fair: the actor's
`select!` picks among ready branches at random and channels are first in,
first out, so neither is passed over for ever by the others.  Late calls, crashes
and other applications are not fair.
`TaskManager`: the steps of a call and the end of a task that is being stopped are
weakly fair, as the runtime drives them; getting the construction lock is strongly
fair, since a tokio mutex serves its waiters in the order they came.  Beginning
calls, downloads and other applications are not fair.
`ChatSession`: the tasks of turns, the rest of a reset and of `add_tools` are weakly fair: the
runtime drives them, tools return, and a model stops (`MaxReply`).  Beginning turns and resets
and cancelling are the caller's choice.

## 4. Proofs

`DestinationLockProofs` (any managers, processes, timeout, clock and restarts):

* `TypeCorrect`; `ReclaimsAreLawful`, from the invariant that what a reclaim has
  observed belongs to a dead process and the dead stay dead.
* `TwoManagersExclude` and `TwoManagersKeepTheirLocks`, for two managers and
  `~CrashInQuarantine`.  `AtMostOneLease` is not inductive: the invariant says
  where a holder's file is (`OnDisk`), that nobody has one from the future, that
  what a reclaim observed is nobody's lock, and that the path
  stays free while the other manager has a live file in quarantine.
* `ManyManagersExclude`, for any number of managers and any crash, in behaviours
  where a reclaim renames the file it had observed (`NoLateReclaim`): the late
  reclaim of `lock_race` is the only way to lose exclusion.

`DownloadTaskProofs` (any callers, sizes, capacities, retries and bounds):

* `Common` is the shared inductive invariant: types, that an open file's length
  fits what the stream has counted (without which the part file would outgrow `Size`),
  that a reporting stream has an outcome, and the ownership of stream, generation
  and lease.
* From it: `StreamsStayUnderLease`, `TroubleIsTakenDown`, `StoppedTasksAreQuiet`
  (with `CallsInOrder`), `ReportsFindRoom` (with `EventsAreFew`: queued events and
  the running stream are no more than the generations used), `CompletionsAreGenuine`
  (`EventsAreDated`: an event of the current generation exists only if the stream is
  done with that outcome), `ProgressStaysCurrent` (`ProgressIsDated`).
* The safety halves of two liveness properties.  `AnswersAreDue`: a command in the channel has
  an actor that takes it, and who waits for the end of the task waits for one that has ended or
  for a removal on its way (`RemovalsInOrder`: the handle is shut down only by a removal that
  will reach the actor or has).  `NoEndIsLost`: a stream that has ended has its event in the
  channel, or a handler that waits for it; taking a stale event before it loses nothing.
* `TasksFollowTheLifecycle`: the refinement of `DownloadLifecycle`.
* `DownloadedFilesAreComplete`, assuming `Reliable`: a checksum is declared, no
  other application uses the destination, and only renames outlive an abort.  The
  invariant `DownloadedForGood` adds that once Downloaded there is no part file a late
  rename could find.

`TaskManagerProofs` (any callers, mutexes, tasks and files):

* `Invariants` is the inductive invariant.  `OneLiveTask` alone is not inductive: a task
  could be made while an old one runs that nobody remembers.  So `Queued` says who
  refers to the registered construction lock, `OneInside` that one caller holds a lock at a
  time, and `KnownTasks` that a running task is in the cache or in the hands of the
  one caller at work, and that there is none while a new one is prepared.  Even the types
  need `KnownTasks`: a call that shuts a task down has one.
* `OneConstructionQueue`, `OneLiveTaskAlways` and `LeaseHasUser` follow (the last with
  `Unlooked`: what an earlier call observed is forgotten).
* `CleanUpAlwaysLawful` rests on `LookIsFresh`: under the lease nobody else changes the
  files (`FilesHeld`), so what the plan was made for is what it is applied to.
* `OpensAlwaysAsItWas` rests on `LookIsSeen`, which says what each read adds: with the part
  file looked at, either the state it stands for has been seen or the destination passes its
  checks now, and nobody takes such a destination away (`FilesWatched`).
* `RemovalsAreHeard`, the safety half of `CallsReturn`: the removal that waits inside the
  construction lock waits for a task that exists and has been told (`Told`), and `KnownTasks`
  gives the converse, that a task told to stop has the removal that waits for it.

`ChatSessionProofs` (any turns, resets, adders and bounds):

* Four layers, each inductive over the ones before: `Exclusive` (who is at work, and that the
  state says so), `Narrative` (what the end of the history is
  at each place of a turn, and that tool results answer calls), `Chronicle` (what a turn has
  cloned and said, and who holds the session) and `Synchronous` (what the model and the
  encoding hold).  `PromptIsWhole` needs the last because an encoding may stay behind that
  the model was never fed: it must end with the opening of a reply no later prompt has, or
  belong to a history that no longer encodes.
* The layers are inductive until an overtaken turn goes on: the invariant is `crossed \/
  ...`.  `BeginReset` keeps `Exclusive` because it takes the turn it overtakes out of those that
  count and leaves it no place but its tools; `Narrative` says nothing of such a turn.
* `TypeCorrect`, `OneTurnAlways`, `ToolResultsAlwaysAnswer`, `HistoryAlwaysKept` and
  `PromptAlwaysWhole` follow, with no assumption on when callers reset.
* `SessionAlwaysStreamed` needs none of the layers and has no exception: the lock
  of the token session is held exactly while one turn streams, so who waits for it waits for a turn that runs.

`StorageItemProofs` (any number of files and users, any capacity, any shared files):

* `Inv` is the inductive invariant, in layers.  `Route`: where an operation may be.
  `Holds`, `Hears`, `Receives`: at which of these places the item has its tasks, has a
  listener, and whom it receives from, down to the half-made subscription of a
  listener that is being started.  `Lifecycles`, `Answers`: which tasks may download or be
  dead.  `Following`: for each file the channel ends with what the task shows, or is empty
  and the cache (or the local of a listener that is being started) has it.  `Answering`,
  `Answered`: that a download in progress finds nothing but states worth waiting for.
* `CacheIsCurrent`, `EveryDownloadIsHeard`, `DeletionLasts`, `ItemsTasksAnswer` and
  `EveryResumeIsAnswered` follow, with refreshes that meet failed tasks at any time.

`LanguageModelStreamProofs` (any model `Sample`, vocabulary, grammar, options, context, prompts,
trees of drafts, lookup and schedule):

* `IInv` is the inductive invariant.  `PassShape`: the pass in flight is a trie that is closed
  under prefixes and finds room behind the cache, and a chained one is a single node.  `Rows`: the
  cache holds what was said, but for the root of a drafted pass, the ring its end, a
  draft model's cache the same.  `Heard`: the matcher was given what was said (while a path
  is being accepted, also what is about to be), up to where it terminated.  `PassIsPlain`:
  at every node a pass samples what plain decoding says after the tokens on the way to it.
  Of the token kept for the next stream nothing is said but which states keep one: under the
  next stream's options it need not be plain.  `ContextFits` and `CachesInStep`
  alone are not inductive: an accepted path adds as many rows as it is long, and that there is
  room for them is only known from the size of its trie (`PathLength`).
* The ways into the second half of `generate()` all reach the predicate `Ready` (rows that are
  `Formed`, and a matcher that has heard what was said), and
  `AdvanceKeeps` shows that a halt or a pass of any kind from there keeps the invariant.  Then
  there is a lemma for each call of `next()`, for `new` and for `drop`, and one for the drop of a
  stream that broke.
* The path accepted down a trie exists and fits in it (`AcceptedPathFacts`: a longest path
  that follows the sampled tokens, by a greatest element and not by induction), so the
  refinement needs only that each node on it samples plainly (`PathSays`).  A stream in
  `"Seeded"` maps its seed to `kept`, so that it says what `PlainDecoding` has kept.
* `TypeCorrect` and `FitsContext` hold of all streams.  `CleanStreamsStayInStep` holds of every
  stream that has not both a prompt lookup and a grammar.  `CachesStayInStep`, `MasksNeverPanic` and
  `ImplementsPlainDecoding` (the refinement of `PlainDecoding`) assume
  `LookupWithGrammar = FALSE`, without which `stream_grammar` shows them false.  Nothing is
  assumed of the grammar, not even that what it admits can be extended.

Only model-checked: the liveness properties `DeadLockIsCleared`, `CallsReturn`,
`EndIsNoticed` and `BecomesIdle` (fairness is beyond the prover), and the violations.  What a
proof can say of the last three is in `AnswersAreDue`, `RemovalsAreHeard` and `NoEndIsLost`
above, and in `OneTurnAlways` for `BecomesIdle`: that what the one who waits waits for is under way.

## 5. Plan

Done, in this order: `DestinationLock`; `StartupReducer`, `DownloadTask`,
`DownloadLifecycle`; the proofs of both; `TaskManager` and its proofs; `LanguageModelStream`
with `TokenModel` and `PlainDecoding`; `ChatSession` and its proofs; `StorageItem` and its
proofs; the proofs of `LanguageModelStream`.  Every safety property of a passing run is now a
theorem.

What could come next, in order of importance:

1. The global listener and `wait()` of a download task, with the stale outcome of an earlier
   download.
2. The engine over several items and registries: a refresh that adds one and drops another.
3. The parser's reduction stack against a reference over bounded inputs.
4. The allocator: reuse of buffers across command buffers.

### Not modelled

The larger part of the repository's lines is no state machine, and a model of it would be a
transliteration: kernels and encodable blocks (arithmetic on tensors), their Metal and
CPU back ends and build code, parameters and their loading, templates and JSON
transforms (text), bindings and procedural macros (generated or generating glue), the
command line, its server and user interface, measurement and test tools, registries,
remote services and settings (HTTP requests and configuration with little state of their own).
The Apple backend of the download manager leaves its transfers to a process of the system that
the repository does not describe; telemetry may lose events by design.  The map therefore
names a small share of all lines, and most of the lines that hold state which
several actors share.
