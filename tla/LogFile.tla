------------------------------- MODULE LogFile -------------------------------
(***************************************************************************)
(* The daemon's log: `start` rotates and opens it, the daemon writes       *)
(* through the descriptor it was given, the watchdog rotates every fifteen *)
(* minutes by renaming the path.  A file is its inode; sizes are counted   *)
(* in units of which Cap are the two megabytes.                            *)
(***************************************************************************)
EXTENDS Naturals

CONSTANTS
  File,     \* inodes
  NoFile,   \* no file of that name
  Cap,      \* 2 MB
  Burst,    \* bound: what the daemon writes between two watchdog ticks
  MaxSize   \* bound: size of a file

ASSUME NoFileAssumption == NoFile \notin File

VARIABLES
  size,   \* per inode: its size, 0 if it is not in use
  log,    \* the file named .rust-android-optimizer.log
  old,    \* the file named .rust-android-optimizer.log.old
  out,    \* the file the daemon's stdout and stderr go to
  burst   \* history: written since the last tick

vars == <<size, log, old, out, burst>>

Init ==
  /\ size = [f \in File |-> 0]
  /\ log = NoFile /\ old = NoFile /\ out = NoFile
  /\ burst = 0

Full == log # NoFile /\ size[log] > Cap

Renamed == IF Full THEN log ELSE old

\* `start`, when no daemon runs: rotate_log_if_needed, then open or create.
\* A new file takes an inode no name and no descriptor refers to.
Start ==
  /\ out = NoFile
  /\ old' = Renamed
  /\ IF Full \/ log = NoFile
     THEN \E f \in File \ {log, old} : log' = f /\ size' = [size EXCEPT ![f] = 0]
     ELSE UNCHANGED <<log, size>>
  /\ out' = log'
  /\ burst' = 0

\* The daemon prints a line.
Write ==
  /\ out # NoFile
  /\ size[out] < MaxSize /\ burst < Burst
  /\ size' = [size EXCEPT ![out] = @ + 1]
  /\ burst' = burst + 1
  /\ UNCHANGED <<log, old, out>>

RotateTo(target) ==
  /\ out # NoFile
  /\ old' = target
  /\ log' = IF Full THEN NoFile ELSE log
  /\ burst' = 0
  /\ UNCHANGED <<size, out>>

RotateDeletes == RotateTo(old)   \* mutant: removed instead of renamed

\* The watchdog ticks: rotate_log_if_needed; the daemon's descriptor stays.
Rotate == RotateTo(Renamed)

Stop ==
  /\ out # NoFile
  /\ out' = NoFile
  /\ UNCHANGED <<size, log, old, burst>>

Next == Start \/ Write \/ Rotate \/ Stop

Spec == Init /\ [][Next]_vars

\* What the running daemon prints ends up in one of the two files a user can
\* find, however rotations, stops and starts follow each other.
OutputFindable == out # NoFile => out \in {log, old}

\* README: "caps log file size at 2MB": neither file outgrows the cap by more
\* than what is written between two ticks of the watchdog.
LogCapped ==
  \A f \in {log, old} \ {NoFile} : size[f] <= Cap + Burst
=============================================================================
