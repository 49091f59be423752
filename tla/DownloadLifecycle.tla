-------------------------- MODULE DownloadLifecycle --------------------------
(***************************************************************************)
(* What a download task promises its user (download_task_actor.rs): the    *)
(* states it goes through between being opened and closed, and the lease   *)
(* it holds exactly while it downloads.  Downloaded is final: only closing *)
(* the task, after which its files are looked at afresh, ends it.          *)
(***************************************************************************)

VARIABLES
  open,    \* does the task run?
  phase,   \* the state it is in, or was closed in
  leased   \* does it hold the destination?

vars == <<open, phase, leased>>

Init == ~open /\ phase = "NotDownloaded" /\ ~leased

\* A task starts in the state its files stand for, never Downloading.
Open ==
  /\ ~open /\ open'
  /\ phase' \in {"NotDownloaded", "Paused", "Downloaded"}
  /\ ~leased'

Begin ==
  /\ open /\ open' /\ phase \in {"NotDownloaded", "Paused"}
  /\ phase' = "Downloading" /\ leased'

Suspend == phase = "Downloading" /\ phase' = "Paused"
Finish == phase = "Downloading" /\ phase' = "Downloaded"
Abandon == phase \in {"Downloading", "Paused"} /\ phase' = "NotDownloaded"

End ==
  /\ open /\ open'
  /\ Suspend \/ Finish \/ Abandon
  /\ ~leased'

\* A task is closed in the state it is in, or it is suspended or abandoned; a
\* crash forgets its state.
Close ==
  /\ open /\ ~open'
  /\ \/ phase' = phase /\ phase # "Downloading"
     \/ Suspend
     \/ phase' = "NotDownloaded"
  /\ ~leased'

\* A crash after the task was closed forgets its state as well.
Forget == ~open /\ ~open' /\ phase' = "NotDownloaded" /\ ~leased'

Next == Open \/ Begin \/ End \/ Close \/ Forget

Spec == Init /\ [][Next]_vars
===============================================================================
