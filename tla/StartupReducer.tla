---------------------------- MODULE StartupReducer ----------------------------
(***************************************************************************)
(* What a download manager makes of the files it finds at a destination    *)
(* (crates/download-manager/src/reducer): pure functions from the files to *)
(* the state a new task starts in and to the clean-up it asks for.         *)
(*                                                                         *)
(* A file is its length and whether its bytes are those of the server's    *)
(* file; a CRC is checked by asking for the latter.  A CRC receipt names   *)
(* the size and modification time of the file it was written for, so a     *)
(* receipt that matches answers as the checksum would: it is left out.     *)
(***************************************************************************)
EXTENDS Naturals

CONSTANTS
  Size,          \* length of the file the server offers
  ChecksLength,  \* does the registry declare the length (expected_bytes)?
  ChecksCrc,     \* does the registry declare a checksum (FileCheck::CRC)?
  NoFile         \* no file at a path

File == [length : 0 .. Size, sound : BOOLEAN]
FileOrNone == File \cup {NoFile}

ASSUME ReducerAssumption ==
  /\ Size \in Nat \ {0}
  /\ ChecksLength \in BOOLEAN /\ ChecksCrc \in BOOLEAN
  /\ NoFile \notin File

\* Mutant of Validate: the backend's word is taken for it.
ValidateExists(file) == file # NoFile

\* validate and validate_completed_file: the checks a destination has to pass.
Validate(file) ==
  /\ file # NoFile
  /\ ChecksLength => file.length = Size
  /\ ChecksCrc => file.sound /\ file.length = Size

\* The file is the one the server offers.
Complete(file) == file # NoFile /\ file.length = Size /\ file.sound

\* decide: the lifecycle state a task starts in.
InitialLifecycleState(dest, part) ==
  IF Validate(dest) THEN "Downloaded"
  ELSE IF part # NoFile THEN "Paused"
  ELSE "NotDownloaded"

\* decide and apply_actions: what the clean-up leaves of the two files.  With
\* another application's lock in place nothing is touched.
DestAfterStartup(dest, conflict) ==
  IF conflict \/ Validate(dest) THEN dest ELSE NoFile

PartAfterStartup(dest, part, conflict) ==
  IF ~conflict /\ Validate(dest) THEN NoFile ELSE part

InitialProjection(dest, conflict) ==
  IF conflict /\ ~Validate(dest) THEN "LockedByOther" ELSE "None"

\* The bytes a task shows before its first download.
InitialProgress(dest, part) ==
  CASE InitialLifecycleState(dest, part) = "Downloaded" -> dest.length
    [] InitialLifecycleState(dest, part) = "Paused" -> part.length
    [] OTHER -> 0
===============================================================================
