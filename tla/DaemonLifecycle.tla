--------------------------- MODULE DaemonLifecycle ---------------------------
(***************************************************************************)
(* The life of the daemon as the commands see it: `start`, `stop` and      *)
(* `status` read, probe, write and remove the pid file without a lock; the *)
(* daemon writes it at its start and removes it at its end.  A write is    *)
(* two steps, an empty file and then its content, and goes to the file     *)
(* opened, removed by now or not.  A signal begins the shutdown once the   *)
(* handlers are registered and simply kills before that.  The shutdown     *)
(* spawns one restore script whose fate nobody looks at, and stops none of *)
(* the daemon's tasks.  A process is its pid.                              *)
(***************************************************************************)
EXTENDS Naturals, FiniteSets

CONSTANTS
  Pid,         \* pids of the daemons ever started
  NoPid,       \* no pid file, or an empty one
  Command,     \* terminals in which commands are entered
  Mode,        \* "Adaptive" or "Performance"
  Foreground,  \* whether the user also runs `daemon` by hand
  MaxFaults    \* bound: crashes and reuses of a pid

ASSUME NoPidAssumption == NoPid \notin Pid
ASSUME WritersAssumption == Command \cap Pid = {}
ASSUME ModeAssumption == Mode \in {"Adaptive", "Performance"}
ASSUME ForegroundAssumption == Foreground \in BOOLEAN

VARIABLES
  pidFile,   \* content of the pid file
  writers,   \* terminals and daemons that have emptied the present pid file
  proc,      \* per pid: its process
  tweaks,    \* daemons with tweaks on the device when all scripts have ended
  cpc,       \* per terminal: where its command is
  seen,      \* per terminal: the pid the command works on
  killed,    \* history: daemons that crashed or were killed
  vain,      \* history: daemons whose restore script was not the last word
  orderly,   \* history: one command at a time, each daemon in time, by `start`
  faults     \* history: faults so far

vars == <<pidFile, writers, proc, tweaks, cpc, seen, killed, vain, orderly,
          faults>>
fileVars == <<pidFile, writers>>
commandVars == <<cpc, seen>>
deviceVars == <<tweaks, vain>>

Starting == {"startProbe", "startUnlink", "startSpawn", "startOpen",
             "startWrite", "startSleep"}
Stopping == {"stopProbe", "stopUnlink", "stopSignal", "stopWait", "stopRemove"}
Asking == {"statusProbe", "statusUnlink"}
\* Past its probe or its spawn a command works on the pid it has found.
Holding == {"startUnlink", "startOpen", "startWrite", "startSleep",
            "stopSignal", "stopWait", "stopRemove", "statusUnlink", "refused",
            "stopped"}
\* A daemon that has begun to shut down ...
Leaving == {"stopping", "restored", "unlinked"}
\* ... is still a process, and its tasks still run.
Live == {"spawned", "writing", "booting", "running"} \cup Leaving

TypeOK ==
  /\ pidFile \in Pid \cup {NoPid}
  /\ writers \subseteq Command \cup Pid
  /\ proc \in [Pid -> Live \cup {"unborn", "dead", "foreign"}]
  /\ tweaks \subseteq Pid
  /\ cpc \in [Command -> Starting \cup Stopping \cup Asking \cup
                         {"idle", "refused", "stopped"}]
  /\ seen \in [Command -> Pid \cup {NoPid}]
  /\ \A c \in Command : cpc[c] \in Holding => seen[c] \in Pid
  /\ killed \subseteq Pid
  /\ vain \subseteq Pid
  /\ orderly \in BOOLEAN
  /\ faults \in Nat

Init ==
  /\ pidFile = NoPid
  /\ writers = {}
  /\ proc = [p \in Pid |-> "unborn"]
  /\ tweaks = {}
  /\ cpc = [c \in Command |-> "idle"]
  /\ seen = [c \in Command |-> NoPid]
  /\ killed = {}
  /\ vain = {}
  /\ orderly = TRUE
  /\ faults = 0

\* kill(pid, 0) succeeds: some process of the user has the pid.
Exists(p) == p \in Pid /\ proc[p] \in Live \cup {"foreign"}

Step(c, from, to) == cpc[c] = from /\ cpc' = [cpc EXCEPT ![c] = to]
Becomes(p, state) == proc' = [proc EXCEPT ![p] = state]

\* fs::write creates or empties the file ...
OpenPidFile(w) == pidFile' = NoPid /\ writers' = writers \cup {w}

\* ... and then writes to it, in vain if it has been removed since.
FillPidFile(w, pid) ==
  /\ pidFile' = IF w \in writers THEN pid ELSE pidFile
  /\ writers' = writers \ {w}

RemovePidFile == pidFile' = NoPid /\ writers' = {}

\* No command is in progress.
NoCommand == \A c \in Command : cpc[c] \in {"idle", "refused", "stopped"}

-----------------------------------------------------------------------------
(* read_running_pid, first half: `start`, `stop` or `status` reads the file *)

Enter(c) ==
  /\ \E probe \in {"startProbe", "stopProbe", "statusProbe"} :
       Step(c, "idle", probe)
  /\ seen' = [seen EXCEPT ![c] = pidFile]
  /\ orderly' = (orderly /\ NoCommand /\ \A p \in Pid : proc[p] \notin Leaving)
  /\ UNCHANGED <<fileVars, proc, deviceVars, killed, faults>>

\* A stale pid file is removed, whatever it holds by now.
Unlink(c, from, to) ==
  /\ Step(c, from, to)
  /\ RemovePidFile
  /\ UNCHANGED <<proc, deviceVars, seen, killed, orderly, faults>>

-----------------------------------------------------------------------------
(* start *)

\* Second half: is there such a process?  "Already running" if so.
StartProbe(c) ==
  /\ Step(c, "startProbe", IF Exists(seen[c]) THEN "refused"
                           ELSE IF seen[c] = NoPid THEN "startSpawn"
                           ELSE "startUnlink")
  /\ UNCHANGED <<fileVars, proc, deviceVars, seen, killed, orderly, faults>>

StartUnlink(c) == Unlink(c, "startUnlink", "startSpawn")

StartSpawn(c) ==
  /\ Step(c, "startSpawn", "startOpen")
  /\ \E p \in Pid : /\ proc[p] = "unborn"
                    /\ Becomes(p, "spawned")
                    /\ seen' = [seen EXCEPT ![c] = p]
  /\ UNCHANGED <<fileVars, deviceVars, killed, orderly, faults>>

\* The command writes the pid of its child; so does the child.
StartOpen(c) ==
  /\ Step(c, "startOpen", "startWrite")
  /\ OpenPidFile(c)
  /\ UNCHANGED <<proc, deviceVars, seen, killed, orderly, faults>>

StartWrite(c) ==
  /\ Step(c, "startWrite", "startSleep")
  /\ FillPidFile(c, seen[c])
  /\ UNCHANGED <<proc, deviceVars, seen, killed, orderly, faults>>

Sleep(c, inTime) ==
  /\ Step(c, "startSleep", "idle")
  /\ orderly' = (orderly /\ inTime)
  /\ UNCHANGED <<fileVars, proc, deviceVars, seen, killed, faults>>

StartSleepless(c) == Sleep(c, TRUE)   \* mutant: `start` does not wait

\* 500 ms later the daemon has written it too, if it is in time.
StartSleep(c) == Sleep(c, proc[seen[c]] \notin {"spawned", "writing"})

-----------------------------------------------------------------------------
(* stop *)

Probe(c, found) ==
  /\ Step(c, "stopProbe", IF found THEN "stopSignal" ELSE "stopUnlink")
  /\ UNCHANGED <<fileVars, proc, deviceVars, seen, killed, orderly, faults>>

StopProbeBlind(c) == Probe(c, TRUE)   \* mutant: the probe is missing

\* Nothing to stop: the pid file is removed all the same.
StopProbe(c) == Probe(c, Exists(seen[c]))

StopUnlink(c) == Unlink(c, "stopUnlink", "idle")

\* A signal: a daemon that listens shuts down, one that already does goes on,
\* any other process ends.
Terminate(p) ==
  CASE proc[p] = "running" -> Becomes(p, "stopping") /\ UNCHANGED killed
    [] proc[p] \in {"spawned", "writing", "booting"} ->
         Becomes(p, "dead") /\ killed' = killed \cup {p}
    [] proc[p] = "foreign" -> Becomes(p, "dead") /\ UNCHANGED killed
    [] OTHER -> UNCHANGED <<proc, killed>>

StopSignal(c) ==
  /\ Step(c, "stopSignal", "stopWait")
  /\ Terminate(seen[c])
  /\ UNCHANGED <<fileVars, deviceVars, seen, orderly, faults>>

Wait(c, gone) ==
  /\ Step(c, "stopWait", "stopRemove")
  /\ orderly' = (orderly /\ gone)
  /\ UNCHANGED <<fileVars, proc, deviceVars, seen, killed, faults>>

StopWaitless(c) == Wait(c, TRUE)   \* mutant: `stop` does not wait

\* Thirty probes, 100 ms apart, or fewer if the process is gone.
StopWait(c) == Wait(c, ~Exists(seen[c]))

\* "Daemon stopped successfully. System settings restored."
StopRemove(c) == Unlink(c, "stopRemove", "stopped")

-----------------------------------------------------------------------------
(* status *)

StatusProbe(c) ==
  /\ Step(c, "statusProbe", IF Exists(seen[c]) \/ seen[c] = NoPid THEN "idle"
                            ELSE "statusUnlink")
  /\ UNCHANGED <<fileVars, proc, deviceVars, seen, killed, orderly, faults>>

StatusUnlink(c) == Unlink(c, "statusUnlink", "idle")

\* The user has read the outcome.
Return(c) ==
  /\ \E outcome \in {"refused", "stopped"} : Step(c, outcome, "idle")
  /\ UNCHANGED <<fileVars, proc, deviceVars, seen, killed, orderly, faults>>

-----------------------------------------------------------------------------
(* The daemon *)

\* `daemon` by hand: nothing asks whether one is running.
RunForeground(p) ==
  /\ Foreground /\ proc[p] = "unborn"
  /\ Becomes(p, "spawned")
  /\ orderly' = FALSE
  /\ UNCHANGED <<fileVars, deviceVars, commandVars, killed, faults>>

DaemonOpen(p) ==
  /\ proc[p] = "spawned"
  /\ Becomes(p, "writing")
  /\ OpenPidFile(p)
  /\ UNCHANGED <<deviceVars, commandVars, killed, orderly, faults>>

DaemonWrite(p) ==
  /\ proc[p] = "writing"
  /\ Becomes(p, "booting")
  /\ FillPidFile(p, p)
  /\ UNCHANGED <<deviceVars, commandVars, killed, orderly, faults>>

\* An apply spawned by one of the daemon's tasks: in Performance mode already
\* before main listens to signals, and until main returns.
Tweak(p) ==
  /\ \/ proc[p] \in {"running"} \cup Leaving
     \/ proc[p] = "booting" /\ Mode = "Performance"
  /\ tweaks' = tweaks \cup {p}
  /\ vain' = IF proc[p] \in {"restored", "unlinked"} THEN vain \cup {p} ELSE vain
  /\ UNCHANGED <<fileVars, proc, commandVars, killed, orderly, faults>>

Listen(p) ==
  /\ proc[p] = "booting"
  /\ Becomes(p, "running")
  /\ UNCHANGED <<fileVars, deviceVars, commandVars, killed, orderly, faults>>

\* SIGINT, or the event task ends: no `stop` waits for this shutdown.
Interrupted(p) ==
  /\ proc[p] \in Live \ Leaving
  /\ Terminate(p)
  /\ orderly' = (orderly /\ NoCommand)
  /\ UNCHANGED <<fileVars, deviceVars, commandVars, faults>>

\* full_restore_on_shutdown.  The script is detached and the result of its
\* spawn discarded: rish may refuse it, or a script that was spawned before it
\* may end after it.
DaemonRestore(p) ==
  /\ proc[p] = "stopping"
  /\ Becomes(p, "restored")
  /\ \/ tweaks' = tweaks \ {p} /\ UNCHANGED vain
     \/ p \in tweaks /\ vain' = vain \cup {p} /\ UNCHANGED tweaks
  /\ UNCHANGED <<fileVars, commandVars, killed, orderly, faults>>

UnlinkFrom(p, state) ==
  /\ proc[p] = state
  /\ Becomes(p, "unlinked")
  /\ RemovePidFile
  /\ UNCHANGED <<deviceVars, commandVars, killed, orderly, faults>>

\* mutant: main goes on without full_restore_on_shutdown
UnlinkUnrestored(p) == UnlinkFrom(p, "stopping")

\* The pid file is removed, whatever it holds ...
DaemonUnlink(p) == UnlinkFrom(p, "restored")

\* ... then main returns, and the process ends with all its tasks.
DaemonExit(p) ==
  /\ proc[p] = "unlinked"
  /\ Becomes(p, "dead")
  /\ UNCHANGED <<fileVars, deviceVars, commandVars, killed, orderly, faults>>

-----------------------------------------------------------------------------
(* Android *)

Fault == faults < MaxFaults /\ faults' = faults + 1

\* The low-memory killer, or a reboot.
Crash(p) ==
  /\ proc[p] \in Live
  /\ Fault
  /\ Becomes(p, "dead")
  /\ killed' = killed \cup {p}
  /\ UNCHANGED <<fileVars, deviceVars, commandVars, orderly>>

\* Another process of the user gets the pid of a daemon that is gone.
Reuse(p) ==
  /\ proc[p] = "dead"
  /\ Fault
  /\ Becomes(p, "foreign")
  /\ UNCHANGED <<fileVars, deviceVars, commandVars, killed, orderly>>

-----------------------------------------------------------------------------
Start(c) == \/ StartProbe(c) \/ StartUnlink(c) \/ StartSpawn(c)
            \/ StartOpen(c) \/ StartWrite(c) \/ StartSleep(c)
Stop(c) == \/ StopProbe(c) \/ StopUnlink(c) \/ StopSignal(c)
           \/ StopWait(c) \/ StopRemove(c)
Daemon(p) == \/ DaemonOpen(p) \/ DaemonWrite(p) \/ Listen(p) \/ Interrupted(p)
             \/ DaemonRestore(p) \/ DaemonUnlink(p) \/ DaemonExit(p)

Status(c) == StatusProbe(c) \/ StatusUnlink(c)

Next ==
  \/ \E c \in Command : \/ Enter(c) \/ Return(c)
                        \/ Start(c) \/ Stop(c) \/ Status(c)
  \/ \E p \in Pid : \/ RunForeground(p) \/ Daemon(p) \/ Tweak(p)
                    \/ Crash(p) \/ Reuse(p)

Spec == Init /\ [][Next]_vars

-----------------------------------------------------------------------------
(* Properties *)

Alive == {p \in Pid : proc[p] \in Live}

\* `start` prints "Optimizer daemon is already running" rather than start a
\* second daemon.
OneDaemon == Cardinality(Alive) <= 1

\* README: `status` displays the state and the pid of the daemon: when no
\* command is in progress a daemon that has written its pid and not begun to
\* stop is the one the pid file names.
RunningIsTracked ==
  NoCommand =>
    \A p \in Pid : proc[p] \in {"booting", "running"} => pidFile = p

\* As long as commands are entered one after the other, daemons are started
\* by `start` and end while `stop` waits for them, there are never two
\* daemons, in spite of crashes, stale or empty pid files, reused pids and
\* signals that come at any time of a daemon's life ...
OneIfOrderly == orderly => OneDaemon

\* ... and the pid file names the daemon, in spite of its three writers.
TrackedIfOrderly == orderly => RunningIsTracked

\* A daemon that has ended leaves its tweaks on the device only in three ways:
\* it crashed or was killed before it listened; its restore script was refused
\* or overtaken; or a task of its tweaked once more before main returned.  No
\* order of commands, signals and daemons is a fourth, in either mode.
TweaksLeftBehind ==
  \A p \in tweaks : proc[p] \in {"dead", "foreign"} => p \in killed \cup vain

\* The slot of an orderly session, as the processes and the terminals show it.
TheDaemon == IF Alive = {} THEN NoPid ELSE CHOOSE p \in Alive : TRUE
PhaseOf(state) ==
  IF state \in {"spawned", "writing", "booting"} THEN "starting"
  ELSE IF state = "running" THEN "up"
  ELSE IF state = "unlinked" THEN "restored" ELSE state
Answer(c) == IF orderly /\ cpc[c] \in {"refused", "stopped"} THEN cpc[c]
             ELSE "none"
Slot == INSTANCE DaemonSlot WITH
  daemon <- IF orderly THEN TheDaemon ELSE NoPid,
  phase <- IF ~orderly THEN "given up"
           ELSE IF Alive = {} THEN "down" ELSE PhaseOf(proc[TheDaemon]),
  tweaks <- IF orderly THEN tweaks ELSE {},
  ghosts <- IF orderly THEN {p \in Pid : proc[p] = "foreign"} ELSE {},
  answer <- [c \in Command |-> Answer(c)]

\* `start`, `stop`, signals, crashes and the daemon's own steps together are
\* a slot: no daemon is started before the last one has gone, only the one
\* in the slot tweaks or restores the device, `start` says "already running"
\* only when it is taken or its pid was reused, and `stop` says "stopped" only
\* when it is free.
SlotImplemented == Slot!Spec

-----------------------------------------------------------------------------
(* What the documents promise and the code does not keep *)

\* "Daemon stopped successfully. System settings restored.": when `stop` says
\* so, no tweak of that daemon is left.
StopMeansRestored ==
  \A c \in Command : cpc[c] = "stopped" => seen[c] \notin tweaks

\* "Optimizer daemon is already running": so it is.
RefusedMeansRunning ==
  \A c \in Command : cpc[c] = "refused" => proc[seen[c]] # "foreign"
=============================================================================
