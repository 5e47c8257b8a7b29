----------------------------- MODULE DaemonSlot -----------------------------
(***************************************************************************)
(* What `start` and `stop` promise as long as the session is orderly (one  *)
(* command at a time and none while a daemon shuts down by itself, each    *)
(* daemon in time, by `start`): one slot, in which a daemon is started     *)
(* when no other lives, and commands that answer the truth about it.       *)
(* Nothing is promised of the device but who touches it: a daemon may      *)
(* leave it restored or not.  Once the session is not orderly nothing is   *)
(* promised any more.  DaemonLifecycle is shown to implement this          *)
(* specification.                                                          *)
(***************************************************************************)
CONSTANTS Pid, NoPid, Command, Mode

VARIABLES
  daemon,   \* the daemon in the slot, NoPid if there is none
  phase,    \* how far its life is
  tweaks,   \* daemons whose tweaks are on the device
  ghosts,   \* pids of former daemons that other processes have now
  answer    \* per terminal: what its last command has printed

slotVars == <<daemon, phase, tweaks, ghosts, answer>>

Phase == {"down", "starting", "up", "stopping", "restored", "given up"}

Init ==
  /\ daemon = NoPid /\ phase = "down"
  /\ tweaks = {} /\ ghosts = {}
  /\ answer = [c \in Command |-> "none"]

Moves(from, to) == phase = from /\ phase' = to

-----------------------------------------------------------------------------
(* The daemon in the slot *)

\* The slot is taken only when it is free.
Start ==
  /\ Moves("down", "starting")
  /\ daemon' \in Pid
  /\ UNCHANGED <<tweaks, ghosts, answer>>

Listen ==
  /\ Moves("starting", "up")
  /\ UNCHANGED <<daemon, tweaks, ghosts, answer>>

\* Only the daemon in the slot tweaks the device, up to its end ...
Tweak ==
  /\ phase \in {"up", "stopping", "restored"}
       \/ (phase = "starting" /\ Mode = "Performance")
  /\ tweaks' = tweaks \cup {daemon}
  /\ UNCHANGED <<daemon, phase, ghosts, answer>>

Stop ==
  /\ Moves("up", "stopping")
  /\ UNCHANGED <<daemon, tweaks, ghosts, answer>>

\* ... and undoes its own tweaks once, or in vain.
Restore ==
  /\ Moves("stopping", "restored")
  /\ tweaks' \in {tweaks \ {daemon}, tweaks}
  /\ UNCHANGED <<daemon, ghosts, answer>>

\* The slot is left by a daemon that has been through its shutdown ...
Leave ==
  /\ Moves("restored", "down")
  /\ daemon' = NoPid
  /\ UNCHANGED <<tweaks, ghosts, answer>>

\* ... or by one that is killed, at any time.
Die ==
  /\ phase \notin {"down", "given up"}
  /\ phase' = "down" /\ daemon' = NoPid
  /\ UNCHANGED <<tweaks, ghosts, answer>>

\* The pid of a daemon that has gone is given to another process, or that
\* process ends.
Haunt ==
  /\ phase # "given up"
  /\ \E p \in Pid \ {daemon} : ghosts' \in {ghosts \cup {p}, ghosts \ {p}}
  /\ UNCHANGED <<daemon, phase, tweaks, answer>>

-----------------------------------------------------------------------------
(* The commands *)

Says(c, text) == answer' = [answer EXCEPT ![c] = text]

\* "already running": so is the daemon, or a process that has its pid.
Refuse(c) ==
  /\ phase \in {"starting", "up"} \/ ghosts # {}
  /\ Says(c, "refused")
  /\ UNCHANGED <<daemon, phase, tweaks, ghosts>>

\* "stopped successfully": so it is.
Stopped(c) ==
  /\ phase = "down"
  /\ Says(c, "stopped")
  /\ UNCHANGED <<daemon, phase, tweaks, ghosts>>

Return(c) ==
  /\ answer[c] # "none"
  /\ Says(c, "none")
  /\ UNCHANGED <<daemon, phase, tweaks, ghosts>>

-----------------------------------------------------------------------------
Disorder ==
  /\ phase # "given up" /\ phase' = "given up"
  /\ daemon' = NoPid /\ tweaks' = {} /\ ghosts' = {}
  /\ answer' = [c \in Command |-> "none"]

Next ==
  \/ Start \/ Listen \/ Tweak \/ Stop \/ Restore \/ Leave \/ Die \/ Haunt
  \/ \E c \in Command : Refuse(c) \/ Stopped(c) \/ Return(c)
  \/ Disorder

Spec == Init /\ [][Next]_slotVars
=============================================================================
