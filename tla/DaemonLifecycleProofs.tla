------------------------ MODULE DaemonLifecycleProofs ------------------------
(***************************************************************************)
(* DaemonLifecycle for every number of terminals, daemons, crashes and     *)
(* reused pids, in both modes and with or without daemons run by hand:     *)
(* type correctness; the three ways in which a daemon leaves its tweaks    *)
(* behind; and in an orderly session there is one daemon, which the pid    *)
(* file names, in a slot about which `start` and `stop` tell the truth.    *)
(***************************************************************************)
EXTENDS DaemonLifecycle, FiniteSetTheorems, TLAPS

Place == Starting \cup Stopping \cup Asking \cup {"idle", "refused", "stopped"}

\* A command that moves on keeps the types of its place and its pid, provided
\* it holds a pid wherever it arrives at a place that works on one.
LEMMA StepTyping ==
  ASSUME TypeOK, NEW c \in Command, NEW from, NEW to \in Place,
         Step(c, from, to), UNCHANGED seen,
         to \in Holding => seen[c] \in Pid
  PROVE  /\ cpc' \in [Command -> Place]
         /\ seen' \in [Command -> Pid \cup {NoPid}]
         /\ \A d \in Command : cpc'[d] \in Holding => seen'[d] \in Pid
<1> cpc \in [Command -> Place]
  BY DEF TypeOK, Place
<1> QED
  BY DEF TypeOK, Step

\* The same when the step also sets the pid the command works on.
LEMMA StepSeenTyping ==
  ASSUME TypeOK, NEW c \in Command, NEW from, NEW to \in Place,
         NEW p \in Pid \cup {NoPid},
         Step(c, from, to), seen' = [seen EXCEPT ![c] = p],
         to \in Holding => p \in Pid
  PROVE  /\ cpc' \in [Command -> Place]
         /\ seen' \in [Command -> Pid \cup {NoPid}]
         /\ \A d \in Command : cpc'[d] \in Holding => seen'[d] \in Pid
<1> cpc \in [Command -> Place]
  BY DEF TypeOK, Place
<1> QED
  BY DEF TypeOK, Step

\* Each of the three operations on the pid file keeps its type.
LEMMA FileTyping ==
  ASSUME TypeOK, NEW w \in Command \cup Pid, NEW p \in Pid,
         \/ OpenPidFile(w) \/ FillPidFile(w, p) \/ RemovePidFile
         \/ UNCHANGED fileVars
  PROVE  pidFile' \in Pid \cup {NoPid} /\ writers' \subseteq Command \cup Pid
  BY DEF TypeOK, OpenPidFile, FillPidFile, RemovePidFile, fileVars

\* The parts of TypeOK that commands change, apart from the rest.
LEMMA TypeParts ==
  ASSUME pidFile' \in Pid \cup {NoPid}, writers' \subseteq Command \cup Pid,
         proc' \in [Pid -> Live \cup {"unborn", "dead", "foreign"}],
         tweaks' \subseteq Pid, killed' \subseteq Pid, vain' \subseteq Pid,
         orderly' \in BOOLEAN, faults' \in Nat,
         cpc' \in [Command -> Place],
         seen' \in [Command -> Pid \cup {NoPid}],
         \A d \in Command : cpc'[d] \in Holding => seen'[d] \in Pid
  PROVE  TypeOK'
  BY DEF TypeOK, Place

\* A process changes its state, no command moves.
LEMMA BecomesTyping ==
  ASSUME TypeOK, NEW p \in Pid,
         NEW state \in Live \cup {"unborn", "dead", "foreign"},
         Becomes(p, state), UNCHANGED commandVars,
         pidFile' \in Pid \cup {NoPid}, writers' \subseteq Command \cup Pid,
         tweaks' \subseteq Pid, vain' \subseteq Pid,
         killed' \subseteq Pid, orderly' \in BOOLEAN, faults' \in Nat
  PROVE  TypeOK'
<1>1. proc' \in [Pid -> Live \cup {"unborn", "dead", "foreign"}]
  BY DEF TypeOK, Becomes
<1> QED
  BY <1>1 DEF TypeOK, commandVars

\* A signal changes the process it is sent to and the record of those killed.
LEMMA TerminateTyping ==
  ASSUME TypeOK, NEW p \in Pid, Terminate(p)
  PROVE  /\ proc' \in [Pid -> Live \cup {"unborn", "dead", "foreign"}]
         /\ killed' \subseteq Pid
<1>1. CASE proc[p] = "running"
  BY <1>1 DEF Terminate, Becomes, TypeOK, Live, Leaving
<1>2. CASE proc[p] \in {"spawned", "writing", "booting"}
  BY <1>2 DEF Terminate, Becomes, TypeOK, Live, Leaving
<1>3. CASE proc[p] = "foreign"
  BY <1>3 DEF Terminate, Becomes, TypeOK, Live, Leaving
<1>4. CASE proc[p] \notin {"running", "spawned", "writing", "booting", "foreign"}
  BY <1>4 DEF Terminate, TypeOK
<1> QED
  BY <1>1, <1>2, <1>3, <1>4

-----------------------------------------------------------------------------
(* Type correctness *)

\* A step of `start` keeps the types.
LEMMA StartTyping ==
  ASSUME TypeOK, NEW c \in Command, Start(c)
  PROVE  TypeOK'
<1>1. CASE StartProbe(c)
  <2>1. (seen[c] \in Pid \/ seen[c] = NoPid) /\ (Exists(seen[c]) => seen[c] \in Pid)
    BY DEF TypeOK, Exists
  <2>2. PICK to \in {"refused", "startSpawn", "startUnlink"} :
          Step(c, "startProbe", to) /\ (to \in Holding => seen[c] \in Pid)
    BY <1>1, <2>1 DEF StartProbe, Holding
  <2>3. to \in Place /\ UNCHANGED seen
    BY <1>1 DEF StartProbe, Place, Starting
  <2> QED
    BY <1>1, <2>2, <2>3, StepTyping, TypeParts
    DEF StartProbe, deviceVars, TypeOK, fileVars
<1>2. CASE StartUnlink(c)
  <2>1. "startSpawn" \in Place /\ "startSpawn" \notin Holding
    BY DEF Place, Starting, Holding
  <2> QED
    BY <1>2, <2>1, StepTyping, TypeParts
    DEF StartUnlink, Unlink, RemovePidFile, deviceVars, TypeOK
<1>3. CASE StartSpawn(c)
  <2>1. PICK p \in Pid : /\ Becomes(p, "spawned")
                         /\ seen' = [seen EXCEPT ![c] = p]
    BY <1>3 DEF StartSpawn
  <2>2. proc' \in [Pid -> Live \cup {"unborn", "dead", "foreign"}]
    BY <2>1 DEF Becomes, TypeOK, Live
  <2>3. "startOpen" \in Place
    BY DEF Place, Starting
  <2> QED
    BY <1>3, <2>1, <2>2, <2>3, StepSeenTyping, TypeParts
    DEF StartSpawn, deviceVars, TypeOK, fileVars
<1>4. CASE StartOpen(c)
  <2>1. seen[c] \in Pid /\ "startWrite" \in Place
    BY <1>4 DEF StartOpen, Step, TypeOK, Holding, Place, Starting
  <2> QED
    BY <1>4, <2>1, StepTyping, TypeParts
    DEF StartOpen, OpenPidFile, deviceVars, TypeOK
<1>5. CASE StartWrite(c)
  <2>1. seen[c] \in Pid /\ "startSleep" \in Place
    BY <1>5 DEF StartWrite, Step, TypeOK, Holding, Place, Starting
  <2>2. pidFile' \in Pid \cup {NoPid} /\ writers' \subseteq Command \cup Pid
    BY <1>5, <2>1, FileTyping DEF StartWrite
  <2> QED
    BY <1>5, <2>1, <2>2, StepTyping, TypeParts
    DEF StartWrite, deviceVars, TypeOK
<1>6. CASE StartSleep(c)
  <2>1. "idle" \in Place /\ "idle" \notin Holding
    BY DEF Place, Holding
  <2>2. orderly' \in BOOLEAN
    BY <1>6 DEF StartSleep, Sleep
  <2> QED
    BY <1>6, <2>1, <2>2, StepTyping, TypeParts
    DEF StartSleep, Sleep, deviceVars, TypeOK, fileVars
<1> QED
  BY <1>1, <1>2, <1>3, <1>4, <1>5, <1>6 DEF Start

\* A step of `stop` keeps the types.
LEMMA StopTyping ==
  ASSUME TypeOK, NEW c \in Command, Stop(c)
  PROVE  TypeOK'
<1>1. CASE StopProbe(c)
  <2>1. PICK to \in {"stopSignal", "stopUnlink"} :
          Step(c, "stopProbe", to) /\ (to \in Holding => seen[c] \in Pid)
    BY <1>1 DEF StopProbe, Probe, Exists, Holding
  <2>2. to \in Place
    BY DEF Place, Stopping
  <2> QED
    BY <1>1, <2>1, <2>2, StepTyping, TypeParts
    DEF StopProbe, Probe, deviceVars, TypeOK, fileVars
<1>2. CASE StopUnlink(c)
  <2>1. "idle" \in Place /\ "idle" \notin Holding
    BY DEF Place, Holding
  <2> QED
    BY <1>2, <2>1, StepTyping, TypeParts
    DEF StopUnlink, Unlink, RemovePidFile, deviceVars, TypeOK
<1>3. CASE StopSignal(c)
  <2>1. seen[c] \in Pid /\ "stopWait" \in Place
    BY <1>3 DEF StopSignal, Step, TypeOK, Holding, Place, Stopping
  <2>2. /\ proc' \in [Pid -> Live \cup {"unborn", "dead", "foreign"}]
        /\ killed' \subseteq Pid
    BY <1>3, <2>1, TerminateTyping DEF StopSignal
  <2> QED
    BY <1>3, <2>1, <2>2, StepTyping, TypeParts
    DEF StopSignal, deviceVars, TypeOK, fileVars
<1>4. CASE StopWait(c)
  <2>1. seen[c] \in Pid /\ "stopRemove" \in Place
    BY <1>4 DEF StopWait, Wait, Step, TypeOK, Holding, Place, Stopping
  <2>2. orderly' \in BOOLEAN
    BY <1>4 DEF StopWait, Wait
  <2> QED
    BY <1>4, <2>1, <2>2, StepTyping, TypeParts
    DEF StopWait, Wait, deviceVars, TypeOK, fileVars
<1>5. CASE StopRemove(c)
  <2>1. seen[c] \in Pid /\ "stopped" \in Place
    BY <1>5 DEF StopRemove, Unlink, Step, TypeOK, Holding, Place
  <2> QED
    BY <1>5, <2>1, StepTyping, TypeParts
    DEF StopRemove, Unlink, RemovePidFile, deviceVars, TypeOK
<1> QED
  BY <1>1, <1>2, <1>3, <1>4, <1>5 DEF Stop

\* A step of `status`, and a command entered or returned from, keep the types.
LEMMA TerminalTyping ==
  ASSUME TypeOK, NEW c \in Command, Enter(c) \/ Return(c) \/ Status(c)
  PROVE  TypeOK'
<1>1. CASE Enter(c)
  <2>1. PICK to \in {"startProbe", "stopProbe", "statusProbe"} :
          Step(c, "idle", to)
    BY <1>1 DEF Enter
  <2>2. to \in Place /\ to \notin Holding /\ pidFile \in Pid \cup {NoPid}
    BY DEF Place, Starting, Stopping, Asking, Holding, TypeOK
  <2>3. orderly' \in BOOLEAN
    BY <1>1 DEF Enter
  <2> QED
    BY <1>1, <2>1, <2>2, <2>3, StepSeenTyping, TypeParts
    DEF Enter, deviceVars, TypeOK, fileVars
<1>2. CASE Return(c)
  <2>1. "idle" \in Place /\ "idle" \notin Holding
    BY DEF Place, Holding
  <2> QED
    BY <1>2, <2>1, StepTyping, TypeParts
    DEF Return, deviceVars, TypeOK, fileVars
<1>3. CASE StatusProbe(c)
  <2>1. PICK to \in {"idle", "statusUnlink"} :
          Step(c, "statusProbe", to) /\ (to \in Holding => seen[c] \in Pid)
    BY <1>3 DEF StatusProbe, Holding, TypeOK
  <2>2. to \in Place
    BY DEF Place, Asking
  <2> QED
    BY <1>3, <2>1, <2>2, StepTyping, TypeParts
    DEF StatusProbe, deviceVars, TypeOK, fileVars
<1>4. CASE StatusUnlink(c)
  <2>1. "idle" \in Place /\ "idle" \notin Holding
    BY DEF Place, Holding
  <2> QED
    BY <1>4, <2>1, StepTyping, TypeParts
    DEF StatusUnlink, Unlink, RemovePidFile, deviceVars, TypeOK
<1> QED
  BY <1>1, <1>2, <1>3, <1>4 DEF Status

\* A step of a daemon, or of Android, keeps the types.
LEMMA ProcessTyping ==
  ASSUME TypeOK, NEW p \in Pid,
         RunForeground(p) \/ Daemon(p) \/ Tweak(p) \/ Crash(p) \/ Reuse(p)
  PROVE  TypeOK'
<1> USE DEF TypeOK, Live, Leaving, fileVars, deviceVars
<1>1. CASE RunForeground(p)
  BY <1>1, BecomesTyping DEF RunForeground
<1>2. CASE DaemonWrite(p)
  <2>1. pidFile' \in Pid \cup {NoPid} /\ writers' \subseteq Command \cup Pid
    BY <1>2, FileTyping DEF DaemonWrite
  <2> QED
    BY <1>2, <2>1, BecomesTyping DEF DaemonWrite
<1>3. CASE Listen(p)
  BY <1>3, BecomesTyping DEF Listen
<1>4. CASE DaemonRestore(p)
  BY <1>4, BecomesTyping DEF DaemonRestore
<1>5. CASE DaemonUnlink(p)
  BY <1>5, BecomesTyping DEF DaemonUnlink, UnlinkFrom, RemovePidFile
<1>6. CASE DaemonExit(p)
  BY <1>6, BecomesTyping DEF DaemonExit
<1>7. CASE Tweak(p)
  BY <1>7 DEF Tweak, commandVars
<1>8. CASE Crash(p)
  BY <1>8, BecomesTyping DEF Crash, Fault
<1>9. CASE Reuse(p)
  BY <1>9, BecomesTyping DEF Reuse, Fault
<1>10. CASE DaemonOpen(p)
  BY <1>10, BecomesTyping DEF DaemonOpen, OpenPidFile
<1>11. CASE Interrupted(p)
  <2>1. /\ proc' \in [Pid -> Live \cup {"unborn", "dead", "foreign"}]
        /\ killed' \subseteq Pid
    BY <1>11, TerminateTyping DEF Interrupted
  <2> QED
    BY <1>11, <2>1 DEF Interrupted, commandVars
<1> QED
  BY <1>1, <1>2, <1>3, <1>4, <1>5, <1>6, <1>7, <1>8, <1>9, <1>10, <1>11
  DEF Daemon

\* The variables of DaemonLifecycle have their types, and a command past its
\* probe works on a pid, for every number of terminals, daemons and faults.
THEOREM DaemonTypeCorrect == Spec => []TypeOK
<1>1. Init => TypeOK
  BY DEF Init, TypeOK, Holding
<1>2. TypeOK /\ [Next]_vars => TypeOK'
  <2> SUFFICES ASSUME TypeOK, [Next]_vars PROVE TypeOK'
    OBVIOUS
  <2>1. ASSUME NEW c \in Command,
               Enter(c) \/ Return(c) \/ Start(c) \/ Stop(c) \/ Status(c)
        PROVE  TypeOK'
    BY <2>1, TerminalTyping, StartTyping, StopTyping
  <2>2. ASSUME NEW p \in Pid,
               RunForeground(p) \/ Daemon(p) \/ Tweak(p) \/ Crash(p) \/ Reuse(p)
        PROVE  TypeOK'
    BY <2>2, ProcessTyping
  <2>3. CASE UNCHANGED vars
    BY <2>3 DEF vars, TypeOK
  <2> QED
    BY <2>1, <2>2, <2>3 DEF Next
<1> QED
  BY <1>1, <1>2, PTL DEF Spec

-----------------------------------------------------------------------------
(* Three ways to leave tweaks *)

Excused == killed \cup vain

\* A daemon whose tweaks are on the device has not spawned its restore script
\* yet, or was killed, or its script was not the last word.
TweakInv ==
  \A p \in tweaks : proc[p] \in {"booting", "running", "stopping"} \/ p \in Excused

\* A process moves to a state in which its restore script is still to come, or
\* is excused, or had no tweaks.
LEMMA BecomesKeepsTweaks ==
  ASSUME TypeOK, TweakInv, NEW p \in Pid, NEW state, Becomes(p, state),
         tweaks' \subseteq tweaks, Excused \subseteq Excused',
         p \in tweaks' => \/ state \in {"booting", "running", "stopping"}
                         \/ p \in Excused'
  PROVE  TweakInv'
  BY DEF TypeOK, TweakInv, Becomes

\* A signal makes a daemon that listens restore the device; any other process
\* with tweaks it kills.
LEMMA TerminateKeepsTweaks ==
  ASSUME TypeOK, TweakInv, NEW p \in Pid, Terminate(p), UNCHANGED deviceVars
  PROVE  TweakInv'
<1> USE DEF Terminate, deviceVars, Excused
<1>1. CASE proc[p] = "running"
  BY <1>1, BecomesKeepsTweaks
<1>2. CASE proc[p] \in {"spawned", "writing", "booting"}
  BY <1>2, BecomesKeepsTweaks
<1>3. CASE proc[p] = "foreign"
  <2>1. p \in tweaks => p \in Excused
    BY <1>3 DEF TweakInv
  <2> QED
    BY <1>3, <2>1, BecomesKeepsTweaks
<1>4. CASE proc[p] \notin {"running", "spawned", "writing", "booting", "foreign"}
  BY <1>4 DEF TweakInv
<1> QED
  BY <1>1, <1>2, <1>3, <1>4

\* A step of a daemon, or of Android.
LEMMA ProcessKeepsTweaks ==
  ASSUME TypeOK, TweakInv, NEW p \in Pid,
         RunForeground(p) \/ Daemon(p) \/ Tweak(p) \/ Crash(p) \/ Reuse(p)
  PROVE  TweakInv'
<1> USE DEF deviceVars, Excused
\* The steps of a process that has no tweaks, or is excused already.
<1>1. ASSUME proc[p] \notin {"booting", "running", "stopping"}, NEW state,
             Becomes(p, state), UNCHANGED <<deviceVars, killed>>
      PROVE  TweakInv'
  <2>1. p \in tweaks => p \in Excused
    BY <1>1 DEF TweakInv
  <2> QED
    BY <1>1, <2>1, BecomesKeepsTweaks
<1>2. CASE RunForeground(p) \/ DaemonOpen(p) \/ DaemonWrite(p)
  BY <1>2, <1>1 DEF RunForeground, DaemonOpen, DaemonWrite
<1>3. CASE DaemonUnlink(p) \/ DaemonExit(p) \/ Reuse(p)
  BY <1>3, <1>1 DEF DaemonUnlink, UnlinkFrom, DaemonExit, Reuse
<1>4. CASE Listen(p)
  BY <1>4, BecomesKeepsTweaks DEF Listen
<1>5. CASE Interrupted(p)
  BY <1>5, TerminateKeepsTweaks DEF Interrupted
<1>6. CASE DaemonRestore(p)
  BY <1>6, BecomesKeepsTweaks DEF DaemonRestore
<1>7. CASE Crash(p)
  BY <1>7, BecomesKeepsTweaks DEF Crash
\* A late tweak excuses its daemon; of an early one the script is to come.
<1>8. CASE Tweak(p)
  <2>1. proc[p] \in {"booting", "running", "stopping"} \/ p \in vain'
    BY <1>8 DEF Tweak, Leaving
  <2> QED
    BY <1>8, <2>1 DEF Tweak, TweakInv
<1> QED
  BY <1>2, <1>3, <1>4, <1>5, <1>6, <1>7, <1>8 DEF Daemon

\* A daemon ends with its tweaks on the device only if it crashed or a signal
\* found it before it listened, its restore script was refused or overtaken, or
\* a task of its tweaked after that script: whatever commands are entered, in
\* whatever order, on whatever number of terminals.
THEOREM OnlyThreeWaysLeaveTweaks == Spec => []TweaksLeftBehind
<1>1. Init => TweakInv
  BY DEF Init, TweakInv
<1>2. TypeOK /\ TweakInv /\ [Next]_vars => TweakInv'
  <2> SUFFICES ASSUME TypeOK, TweakInv, [Next]_vars PROVE TweakInv'
    OBVIOUS
  <2>1. ASSUME NEW c \in Command, StopSignal(c) PROVE TweakInv'
    <3>1. seen[c] \in Pid
      BY <2>1 DEF StopSignal, Step, TypeOK, Holding
    <3> QED
      BY <2>1, <3>1, TerminateKeepsTweaks DEF StopSignal
  <2>2. ASSUME NEW c \in Command, StartSpawn(c) PROVE TweakInv'
    <3>1. PICK p \in Pid : proc[p] = "unborn" /\ Becomes(p, "spawned")
      BY <2>2 DEF StartSpawn
    <3>2. p \in tweaks => p \in Excused
      BY <3>1 DEF TweakInv
    <3> QED
      BY <2>2, <3>1, <3>2, BecomesKeepsTweaks
      DEF StartSpawn, deviceVars, Excused
  <2>3. ASSUME NEW c \in Command,
               \/ Enter(c) \/ Return(c) \/ Status(c)
               \/ StartProbe(c) \/ StartUnlink(c)
               \/ StartOpen(c) \/ StartWrite(c) \/ StartSleep(c)
               \/ StopProbe(c) \/ StopUnlink(c) \/ StopWait(c) \/ StopRemove(c)
        PROVE  TweakInv'
    <3>1. UNCHANGED <<proc, deviceVars, killed>>
      BY <2>3
      DEF Enter, Return, Status, StatusProbe, StatusUnlink, StartProbe,
          StartUnlink, StartOpen, StartWrite, StartSleep, Sleep, StopProbe,
          Probe, StopUnlink, StopWait, Wait, StopRemove, Unlink
    <3> QED
      BY <3>1 DEF TweakInv, deviceVars, Excused
  <2>4. CASE UNCHANGED vars
    BY <2>4 DEF vars, TweakInv, Excused
  <2> QED
    BY <2>1, <2>2, <2>3, <2>4, ProcessKeepsTweaks DEF Next, Start, Stop
<1>3. TweakInv => TweaksLeftBehind
  BY DEF TweakInv, TweaksLeftBehind, Excused
<1> QED
  BY <1>1, <1>2, <1>3, DaemonTypeCorrect, PTL DEF Spec

-----------------------------------------------------------------------------
(* One daemon, and the one the pid file names *)

Busy(c) == cpc[c] \notin {"idle", "refused", "stopped"}
Running(p) == proc[p] \in {"booting", "running"}

\* What a command that nobody disturbs knows at each of its places.
Probed(c) ==
  cpc[c] \in {"startProbe", "stopProbe", "statusProbe"} =>
    \A p \in Pid : proc[p] \in Live => Running(p) /\ pidFile = p /\ seen[c] = p
Vacated(c) ==
  cpc[c] \in {"startUnlink", "startSpawn", "stopUnlink", "stopRemove",
             "statusUnlink"} =>
    \A p \in Pid : proc[p] \notin Live
\* The child and its parent both write the file: whichever comes last, the
\* child's pid is in it, or its writer is still at it.
Spawned(c) ==
  /\ cpc[c] \in {"startOpen", "startWrite", "startSleep"} =>
       \A p \in Pid : proc[p] \in Live =>
         /\ p = seen[c] /\ (Running(p) \/ proc[p] \in {"spawned", "writing"})
         /\ proc[p] = "writing" => p \in writers
  /\ cpc[c] = "startWrite" => c \in writers
  /\ cpc[c] = "startSleep" => \A p \in Pid : Running(p) => pidFile = p
Signalled(c) ==
  /\ cpc[c] = "stopSignal" =>
       \A p \in Pid : proc[p] \in Live => p = seen[c] /\ Running(p)
  /\ cpc[c] = "stopWait" =>
       \A p \in Pid : proc[p] \in Live =>
         p = seen[c] /\ proc[p] \in Leaving

Undisturbed(c) == Probed(c) /\ Vacated(c) /\ Spawned(c) /\ Signalled(c)
\* Between commands: a daemon that lives is alone, and has begun to shut down
\* by itself, or is past its start and named by the file.
Tracked ==
  \A p \in Pid : proc[p] \in Live =>
    /\ \A q \in Pid : proc[q] \in Live => q = p
    /\ proc[p] \in Leaving \/ (Running(p) /\ pidFile = p)

\* In an orderly session there is one command at a time, which nobody disturbs.
OrderInv ==
  orderly =>
    /\ \A c, d \in Command : Busy(c) /\ Busy(d) => c = d
    /\ NoCommand => Tracked
    /\ \A c \in Command : Undisturbed(c)

\* A step of the command in progress: nobody else is at a place where
\* anything has to be known.
LEMMA CommandKeepsOrder ==
  ASSUME TypeOK, OrderInv, NEW c \in Command, NEW from, NEW to,
         Step(c, from, to),
         from \notin {"idle", "refused", "stopped"}, orderly' => orderly,
         orderly' => Undisturbed(c)',
         orderly' /\ to \in {"idle", "refused", "stopped"} => Tracked'
  PROVE  OrderInv'
<1> SUFFICES ASSUME orderly' PROVE OrderInv'
  BY DEF OrderInv
<1>1. \A d \in Command : cpc'[d] = IF d = c THEN to ELSE cpc[d]
  BY DEF Step, TypeOK
<1>2. \A d \in Command \ {c} : cpc[d] \in {"idle", "refused", "stopped"}
  BY DEF Step, OrderInv, Busy
<1>3. \A d, e \in Command : Busy(d)' /\ Busy(e)' => d = e
  BY <1>1, <1>2 DEF Busy
<1>4. \A d \in Command \ {c} : Undisturbed(d)'
  BY <1>1, <1>2 DEF Undisturbed, Probed, Vacated, Spawned, Signalled
<1>5. NoCommand' => Tracked'
  BY <1>1 DEF NoCommand
<1> QED
  BY <1>3, <1>4, <1>5 DEF OrderInv

\* start: the child and its parent write the same pid, in either order, and
\* the command is over when the daemon is past its start.
LEMMA StartKeepsOrder ==
  ASSUME TypeOK, OrderInv, NEW c \in Command, Start(c)
  PROVE  OrderInv'
<1> USE DEF Undisturbed, Probed, Vacated, Spawned, Signalled, Tracked, Running
<1>a. orderly => Undisturbed(c)
  BY DEF OrderInv
<1>b. cpc \in [Command -> Place] /\ NoPid \notin Pid
  BY NoPidAssumption DEF TypeOK, Place
<1>1. CASE StartProbe(c)
  <2> DEFINE to == IF Exists(seen[c]) THEN "refused"
                   ELSE IF seen[c] = NoPid THEN "startSpawn" ELSE "startUnlink"
  <2>1. Step(c, "startProbe", to) /\ UNCHANGED <<fileVars, proc, seen, orderly>>
    BY <1>1 DEF StartProbe
  <2>2. cpc[c] = "startProbe" /\ cpc'[c] = to
    BY <2>1, <1>b DEF Step
  <2>3. orderly => Undisturbed(c)' /\ (to = "refused" => Tracked')
    BY <2>1, <2>2, <1>a, <1>b DEF Exists, fileVars
  <2> HIDE DEF Undisturbed, Tracked
  <2> QED
    BY <2>1, <2>3, CommandKeepsOrder
<1>2. CASE StartUnlink(c)
  <2>1. /\ Step(c, "startUnlink", "startSpawn") /\ RemovePidFile
        /\ UNCHANGED <<proc, seen, orderly>>
    BY <1>2 DEF StartUnlink, Unlink
  <2>2. cpc[c] = "startUnlink" /\ cpc'[c] = "startSpawn"
    BY <2>1, <1>b DEF Step
  <2>3. orderly => Undisturbed(c)'
    BY <2>1, <2>2, <1>a
  <2> HIDE DEF Undisturbed
  <2> QED
    BY <2>1, <2>3, CommandKeepsOrder
<1>3. CASE StartSpawn(c)
  <2>1. PICK p \in Pid : Becomes(p, "spawned") /\ seen' = [seen EXCEPT ![c] = p]
    BY <1>3 DEF StartSpawn
  <2>2. Step(c, "startSpawn", "startOpen") /\ UNCHANGED <<fileVars, orderly>>
    BY <1>3 DEF StartSpawn
  <2>3. cpc[c] = "startSpawn" /\ cpc'[c] = "startOpen" /\ seen'[c] = p
    BY <2>1, <2>2, <1>b DEF Step, TypeOK
  <2>4. \A q \in Pid : proc'[q] = IF q = p THEN "spawned" ELSE proc[q]
    BY <2>1 DEF Becomes, TypeOK
  <2>5. orderly => Undisturbed(c)'
    BY <2>3, <2>4, <1>a
  <2> HIDE DEF Undisturbed
  <2> QED
    BY <2>2, <2>5, CommandKeepsOrder
<1>4. CASE StartOpen(c)
  <2>1. /\ Step(c, "startOpen", "startWrite") /\ OpenPidFile(c)
        /\ UNCHANGED <<proc, seen, orderly>>
    BY <1>4 DEF StartOpen
  <2>2. cpc[c] = "startOpen" /\ cpc'[c] = "startWrite"
    BY <2>1, <1>b DEF Step
  <2>3. orderly => Undisturbed(c)'
    BY <2>1, <2>2, <1>a DEF OpenPidFile
  <2> HIDE DEF Undisturbed
  <2> QED
    BY <2>1, <2>3, CommandKeepsOrder
<1>5. CASE StartWrite(c)
  <2>1. /\ Step(c, "startWrite", "startSleep") /\ FillPidFile(c, seen[c])
        /\ UNCHANGED <<proc, seen, orderly>>
    BY <1>5 DEF StartWrite
  <2>2. cpc[c] = "startWrite" /\ cpc'[c] = "startSleep"
    BY <2>1, <1>b DEF Step
  <2>3. \A p \in Pid : p # c
    BY WritersAssumption
  <2>4. orderly => Undisturbed(c)'
    BY <2>1, <2>2, <2>3, <1>a DEF FillPidFile, Live
  <2> HIDE DEF Undisturbed
  <2> QED
    BY <2>1, <2>4, CommandKeepsOrder
<1>6. CASE StartSleep(c)
  <2>1. /\ Step(c, "startSleep", "idle") /\ UNCHANGED <<fileVars, proc, seen>>
        /\ orderly' = (orderly /\ proc[seen[c]] \notin {"spawned", "writing"})
    BY <1>6 DEF StartSleep, Sleep
  <2>2. cpc[c] = "startSleep" /\ cpc'[c] = "idle"
    BY <2>1, <1>b DEF Step
  <2>3. orderly' => Undisturbed(c)' /\ Tracked' /\ orderly
    BY <2>1, <2>2, <1>a DEF fileVars
  <2> HIDE DEF Undisturbed, Tracked
  <2> QED
    BY <2>1, <2>3, CommandKeepsOrder
<1> QED
  BY <1>1, <1>2, <1>3, <1>4, <1>5, <1>6 DEF Start

\* stop and status: what is signalled, or removed, is the daemon that the
\* probe has found.
LEMMA StopKeepsOrder ==
  ASSUME TypeOK, OrderInv, NEW c \in Command, Stop(c) \/ Status(c)
  PROVE  OrderInv'
<1> USE DEF Undisturbed, Probed, Vacated, Spawned, Signalled, Tracked, Running
<1>a. orderly => Undisturbed(c)
  BY DEF OrderInv
<1>b. cpc \in [Command -> Place] /\ NoPid \notin Pid
  BY NoPidAssumption DEF TypeOK, Place
<1>1. CASE StopProbe(c)
  <2> DEFINE to == IF Exists(seen[c]) THEN "stopSignal" ELSE "stopUnlink"
  <2>1. Step(c, "stopProbe", to) /\ UNCHANGED <<fileVars, proc, seen, orderly>>
    BY <1>1 DEF StopProbe, Probe
  <2>2. cpc[c] = "stopProbe" /\ cpc'[c] = to
    BY <2>1, <1>b DEF Step
  <2>3. orderly => Undisturbed(c)'
    BY <2>1, <2>2, <1>a DEF Exists, fileVars
  <2> HIDE DEF Undisturbed, Tracked
  <2> QED
    BY <2>1, <2>3, CommandKeepsOrder
\* The three steps that end with the removal of the file: there is no daemon.
<1>2. ASSUME NEW from \in {"stopUnlink", "stopRemove", "statusUnlink"}, NEW to,
             Unlink(c, from, to), to \in {"idle", "stopped"}
      PROVE  OrderInv'
  <2>1. Step(c, from, to) /\ UNCHANGED <<proc, seen, orderly>>
    BY <1>2 DEF Unlink
  <2>2. cpc[c] = from /\ cpc'[c] = to
    BY <2>1, <1>b DEF Step
  <2>3. orderly => Undisturbed(c)' /\ Tracked'
    BY <1>2, <2>1, <2>2, <1>a
  <2> HIDE DEF Undisturbed, Tracked
  <2> QED
    BY <2>1, <2>3, CommandKeepsOrder
<1>3. CASE StopSignal(c)
  <2>1. /\ Step(c, "stopSignal", "stopWait") /\ Terminate(seen[c])
        /\ UNCHANGED <<fileVars, seen, orderly>>
    BY <1>3 DEF StopSignal
  <2>2. cpc[c] = "stopSignal" /\ cpc'[c] = "stopWait" /\ seen[c] \in Pid
    BY <2>1, <1>b DEF Step, TypeOK, Holding
  <2>3. \A q \in Pid \ {seen[c]} : proc'[q] = proc[q]
    BY <2>1, <2>2 DEF Terminate, Becomes, TypeOK
  <2>4. /\ proc[seen[c]] = "running" => proc'[seen[c]] = "stopping"
        /\ proc[seen[c]] \in {"spawned", "writing", "booting", "foreign"} =>
             proc'[seen[c]] = "dead"
        /\ proc[seen[c]] \in {"unborn", "dead"} =>
             proc'[seen[c]] = proc[seen[c]]
    BY <2>1, <2>2 DEF Terminate, Becomes, TypeOK
  <2>5. orderly => Undisturbed(c)'
    <3> SUFFICES ASSUME orderly
                 PROVE  \A p \in Pid : proc'[p] \in Live =>
                          p = seen[c] /\ proc'[p] \in Leaving
      BY <2>1, <2>2
    <3>1. \A p \in Pid : proc[p] \in Live => p = seen[c] /\ Running(p)
      BY <2>2, <1>a
    <3>2. proc[seen[c]] \in Live \cup {"unborn", "dead", "foreign"}
      BY <2>2 DEF TypeOK
    <3> QED
      BY <2>2, <2>3, <2>4, <3>1, <3>2 DEF Live, Leaving
  <2> HIDE DEF Undisturbed
  <2> QED
    BY <2>1, <2>5, CommandKeepsOrder
<1>4. CASE StopWait(c)
  <2>1. /\ Step(c, "stopWait", "stopRemove") /\ UNCHANGED <<proc, seen>>
        /\ orderly' = (orderly /\ ~Exists(seen[c]))
    BY <1>4 DEF StopWait, Wait
  <2>2. cpc[c] = "stopWait" /\ cpc'[c] = "stopRemove"
    BY <2>1, <1>b DEF Step
  <2>3. orderly' => Undisturbed(c)' /\ orderly
    BY <2>1, <2>2, <1>a DEF Exists
  <2> HIDE DEF Undisturbed
  <2> QED
    BY <2>1, <2>3, CommandKeepsOrder
<1>5. CASE StatusProbe(c)
  <2> DEFINE to == IF Exists(seen[c]) \/ seen[c] = NoPid THEN "idle"
                   ELSE "statusUnlink"
  <2>1. /\ Step(c, "statusProbe", to)
        /\ UNCHANGED <<fileVars, proc, seen, orderly>>
    BY <1>5 DEF StatusProbe
  <2>2. cpc[c] = "statusProbe" /\ cpc'[c] = to
    BY <2>1, <1>b DEF Step
  <2>3. orderly => Undisturbed(c)' /\ Tracked'
    BY <2>1, <2>2, <1>a, <1>b DEF Exists, fileVars
  <2> HIDE DEF Undisturbed, Tracked
  <2> QED
    BY <2>1, <2>3, CommandKeepsOrder
<1> HIDE DEF Undisturbed, Tracked
<1> QED
  BY <1>1, <1>2, <1>3, <1>4, <1>5
  DEF Stop, Status, StopUnlink, StopRemove, StatusUnlink

\* A command is entered, and knows what its probe has read; or is over.
LEMMA EntryKeepsOrder ==
  ASSUME TypeOK, OrderInv, NEW c \in Command, Enter(c) \/ Return(c)
  PROVE  OrderInv'
<1> USE DEF Undisturbed, Probed, Vacated, Spawned, Signalled, Tracked, Running
<1>1. CASE Enter(c)
  <2>1. PICK to \in {"startProbe", "stopProbe", "statusProbe"} :
          Step(c, "idle", to)
    BY <1>1 DEF Enter
  <2>2. /\ seen' = [seen EXCEPT ![c] = pidFile]
        /\ orderly' = /\ orderly /\ NoCommand
                      /\ \A p \in Pid : proc[p] \notin Leaving
        /\ UNCHANGED <<fileVars, proc>>
    BY <1>1 DEF Enter
  <2> SUFFICES ASSUME orderly' PROVE OrderInv'
    BY DEF OrderInv
  <2>3. /\ orderly /\ NoCommand /\ Tracked
        /\ \A p \in Pid : proc[p] \notin Leaving
    BY <2>2 DEF OrderInv
  <2>4. \A d \in Command : cpc'[d] = IF d = c THEN to ELSE cpc[d]
    BY <2>1 DEF Step, TypeOK
  <2>5. \A d \in Command \ {c} : cpc'[d] \in {"idle", "refused", "stopped"}
    BY <2>3, <2>4 DEF NoCommand
  <2>6. \A d, e \in Command : Busy(d)' /\ Busy(e)' => d = e
    BY <2>5 DEF Busy
  <2>7. cpc'[c] = to /\ seen'[c] = pidFile
    BY <2>2, <2>4 DEF TypeOK
  <2>8. Undisturbed(c)'
    BY <2>2, <2>3, <2>7 DEF fileVars
  <2>9. \A d \in Command \ {c} : Undisturbed(d)'
    BY <2>5
  <2>10. ~NoCommand'
    BY <2>7 DEF NoCommand
  <2> HIDE DEF Undisturbed, Tracked
  <2> QED
    BY <2>6, <2>8, <2>9, <2>10 DEF OrderInv
<1>2. CASE Return(c)
  <2>1. PICK from \in {"refused", "stopped"} : Step(c, from, "idle")
    BY <1>2 DEF Return
  <2>2. UNCHANGED <<fileVars, proc, seen, orderly>>
    BY <1>2 DEF Return
  <2>3. \A d \in Command : cpc'[d] = cpc[d] \/ (d = c /\ cpc'[d] = "idle")
    BY <2>1 DEF Step, TypeOK
  <2>4. \A d \in Command : Busy(d)' => Busy(d)
    BY <2>3 DEF Busy
  <2>5. NoCommand' => NoCommand
    BY <2>1, <2>3 DEF NoCommand, Step
  <2>6. Tracked => Tracked'
    BY <2>2 DEF fileVars
  <2>7. \A d \in Command : Undisturbed(d) => Undisturbed(d)'
    BY <2>2, <2>3 DEF fileVars
  <2> HIDE DEF Undisturbed, Tracked
  <2> QED
    BY <2>2, <2>4, <2>5, <2>6, <2>7 DEF OrderInv
<1> QED
  BY <1>1, <1>2

\* A step of a process moves no command.
LEMMA ProcessKeepsOrder ==
  ASSUME TypeOK, OrderInv, NEW p \in Pid,
         RunForeground(p) \/ Daemon(p) \/ Tweak(p) \/ Crash(p) \/ Reuse(p)
  PROVE  OrderInv'
<1>1. CASE RunForeground(p)
  BY <1>1 DEF RunForeground, OrderInv
<1>2. ASSUME UNCHANGED <<cpc, orderly>>, Tracked => Tracked',
             \A c \in Command : Undisturbed(c) => Undisturbed(c)'
      PROVE  OrderInv'
  BY <1>2 DEF OrderInv, NoCommand, Busy
<1>3. CASE Tweak(p)
  <2>1. UNCHANGED <<fileVars, proc, cpc, seen, orderly>>
    BY <1>3 DEF Tweak, commandVars
  <2> QED
    BY <2>1, <1>2 DEF Undisturbed, Probed, Vacated, Spawned, Signalled, Tracked,
                      Running, fileVars
\* A signal, or the end of the event task, keeps order between two commands.
<1>4. CASE Interrupted(p)
  <2>1. /\ UNCHANGED <<fileVars, cpc, seen>> /\ Terminate(p)
        /\ orderly' = (orderly /\ NoCommand) /\ proc[p] \in Live \ Leaving
    BY <1>4 DEF Interrupted, commandVars
  <2> SUFFICES ASSUME orderly, NoCommand PROVE OrderInv'
    BY <2>1 DEF OrderInv
  <2>2. PICK state \in {"stopping", "dead"} : Becomes(p, state)
    BY <2>1 DEF Terminate, Live, Leaving
  <2>3. \A q \in Pid : proc'[q] = IF q = p THEN state ELSE proc[q]
    BY <2>2 DEF Becomes, TypeOK
  <2>4. Tracked'
    BY <2>1, <2>2, <2>3 DEF OrderInv, Tracked, Running, Live, Leaving, fileVars
  <2>5. \A c \in Command : Undisturbed(c)' /\ ~Busy(c)'
    BY <2>1 DEF NoCommand, Busy, Undisturbed, Probed, Vacated, Spawned,
                Signalled
  <2> QED
    BY <2>4, <2>5 DEF OrderInv
<1>5. CASE (Daemon(p) /\ ~Interrupted(p)) \/ Crash(p) \/ Reuse(p)
  <2>1. UNCHANGED <<cpc, seen, orderly>>
    BY <1>5 DEF Daemon, DaemonOpen, DaemonWrite, Listen, DaemonRestore,
                DaemonUnlink, UnlinkFrom, DaemonExit, Crash, Reuse, commandVars
  <2>2. PICK state : Becomes(p, state) /\
          \/ proc[p] = "spawned" /\ state = "writing" /\ OpenPidFile(p)
          \/ proc[p] = "writing" /\ state = "booting" /\ FillPidFile(p, p)
          \/ proc[p] = "booting" /\ state = "running" /\ UNCHANGED fileVars
          \/ proc[p] = "stopping" /\ state = "restored" /\ UNCHANGED fileVars
          \/ proc[p] = "restored" /\ state = "unlinked" /\ RemovePidFile
          \/ proc[p] \in Live /\ state = "dead" /\ UNCHANGED fileVars
          \/ proc[p] = "dead" /\ state = "foreign" /\ UNCHANGED fileVars
    BY <1>5 DEF Daemon, DaemonOpen, DaemonWrite, Listen, DaemonRestore,
                DaemonUnlink, UnlinkFrom, DaemonExit, Crash, Reuse, Live, Leaving
  <2>3. \A q \in Pid : proc'[q] = IF q = p THEN state ELSE proc[q]
    BY <2>2 DEF Becomes, TypeOK
  <2>4. p \notin Command
    BY WritersAssumption
  <2>5. Tracked => Tracked'
    BY <2>2, <2>3 DEF Tracked, Running, Live, Leaving, RemovePidFile, fileVars
  <2>6. ASSUME NEW c \in Command, Undisturbed(c) PROVE Undisturbed(c)'
    <3> USE <2>6 DEF Undisturbed, Live, Leaving
    <3>1. Probed(c)'
      BY <2>1, <2>2, <2>3 DEF Probed, Running, fileVars
    <3>2. Vacated(c)'
      BY <2>1, <2>2, <2>3 DEF Vacated
    <3>3. Signalled(c)'
      BY <2>1, <2>2, <2>3 DEF Signalled, Running
    <3>4. Spawned(c)'
      BY <2>1, <2>2, <2>3, <2>4
      DEF Spawned, Running, OpenPidFile, FillPidFile, fileVars
    <3> QED
      BY <3>1, <3>2, <3>3, <3>4
  <2> QED
    BY <2>1, <2>5, <2>6, <1>2
<1> QED
  BY <1>1, <1>3, <1>4, <1>5

\* An orderly session has an orderly past, so one step at a time suffices.
LEMMA OrderInvariant == Spec => []OrderInv
<1>1. Init => OrderInv
  BY DEF Init, OrderInv, Busy, Tracked, Undisturbed, Probed, Vacated, Spawned,
         Signalled, Live, Leaving
<1>2. TypeOK /\ OrderInv /\ [Next]_vars => OrderInv'
  <2> SUFFICES ASSUME TypeOK, OrderInv, [Next]_vars PROVE OrderInv'
    OBVIOUS
  <2>1. CASE UNCHANGED vars
    BY <2>1 DEF vars, OrderInv, NoCommand, Busy, Tracked, Undisturbed, Probed,
                Vacated, Spawned, Signalled, Running
  <2> QED
    BY <2>1, StartKeepsOrder, StopKeepsOrder, EntryKeepsOrder, ProcessKeepsOrder
    DEF Next
<1> QED
  BY <1>1, <1>2, DaemonTypeCorrect, PTL DEF Spec

\* A session is orderly only if whatever lives is what the command in progress,
\* or the last one, has left.
LEMMA OneAlive ==
  ASSUME TypeOK, OrderInv, orderly
  PROVE  \A p, q \in Alive : p = q
<1>1. CASE NoCommand
  BY <1>1 DEF OrderInv, Tracked, Alive
<1>2. CASE ~NoCommand
  <2>1. PICK c \in Command : Busy(c) /\ Undisturbed(c)
    BY <1>2 DEF NoCommand, OrderInv, Busy
  <2>2. cpc[c] \in Starting \cup Stopping \cup Asking
    BY <2>1 DEF TypeOK, Busy
  <2> QED
    BY <2>1, <2>2 DEF Starting, Stopping, Asking, Undisturbed, Probed, Vacated,
                      Spawned, Signalled, Alive
<1> QED
  BY <1>1, <1>2

\* In an orderly session there are never two daemons, on whatever number of
\* terminals, in spite of crashes, stale or empty pid files and reused pids.
THEOREM OrderlyHasOne == Spec => []OneIfOrderly
<1>1. TypeOK /\ OrderInv => OneIfOrderly
  <2> SUFFICES ASSUME TypeOK, OrderInv, orderly PROVE OneDaemon
    BY DEF OneIfOrderly
  <2>1. \A p, q \in Alive : p = q
    BY OneAlive
  <2>2. CASE Alive = {}
    BY <2>2, FS_EmptySet DEF OneDaemon
  <2>3. CASE Alive # {}
    <3>1. PICK p : Alive = {p}
      BY <2>1, <2>3
    <3> QED
      BY <3>1, FS_Singleton DEF OneDaemon
  <2> QED
    BY <2>2, <2>3
<1> QED
  BY <1>1, DaemonTypeCorrect, OrderInvariant, PTL

\* In an orderly session the pid file names the daemon whenever no command is
\* in progress, although three processes write and remove that file.
THEOREM OrderlyIsTracked == Spec => []TrackedIfOrderly
<1>1. OrderInv => TrackedIfOrderly
  BY DEF OrderInv, Tracked, TrackedIfOrderly, RunningIsTracked, Live, Leaving
<1> QED
  BY <1>1, OrderInvariant, PTL

-----------------------------------------------------------------------------
(* The slot *)

Foreign == {p \in Pid : proc[p] = "foreign"}
Answers == [c \in Command |-> Answer(c)]

\* The mapping names the one process that lives.
LEMMA SlotTaken ==
  ASSUME NEW p
  PROVE  /\ Alive = {p} => TheDaemon = p
         /\ (Alive = {p})' => (TheDaemon = p)'
  BY DEF TheDaemon

\* In an orderly session the daemon in the slot is the process that lives.
LEMMA InSlot ==
  ASSUME TypeOK, OrderInv, orderly, NEW p \in Pid, proc[p] \in Live
  PROVE  Alive = {p} /\ TheDaemon = p
<1>1. p \in Alive
  BY DEF Alive
<1> QED
  BY <1>1, OneAlive, SlotTaken

\* The slot is in a phase as long as the session is orderly.
LEMMA NotGivenUp ==
  ASSUME orderly
  PROVE  /\ Alive # {} => TheDaemon \in Alive
         /\ Alive # {} => PhaseOf(proc[TheDaemon]) \notin {"down", "given up"}
<1>1. Alive # {} => TheDaemon \in Alive
  BY DEF TheDaemon
<1> QED
  BY <1>1 DEF Alive, PhaseOf, Live, Leaving

\* A step of one process that lives, or is spawned into an empty slot, is a
\* step of the slot.
LEMMA ProcessSteps ==
  ASSUME TypeOK, OrderInv, orderly, UNCHANGED <<orderly, Answers>>,
         NEW p \in Pid, NEW state, Becomes(p, state),
         \/ /\ proc[p] = "unborn" /\ state = "spawned" /\ Alive = {}
            /\ UNCHANGED tweaks
         \/ /\ \/ proc[p] = "spawned" /\ state = "writing"
               \/ proc[p] = "writing" /\ state = "booting"
               \/ proc[p] = "booting" /\ state = "running"
               \/ proc[p] = "running" /\ state = "stopping"
               \/ proc[p] = "restored" /\ state = "unlinked"
               \/ proc[p] \in Live /\ state = "dead"
            /\ UNCHANGED tweaks
         \/ /\ proc[p] = "stopping" /\ state = "restored"
            /\ tweaks' \in {tweaks \ {p}, tweaks}
  PROVE  [Slot!Next]_Slot!slotVars
<1> USE DEF Slot!Next, Slot!slotVars, Slot!Moves, PhaseOf
<1>1. \A q \in Pid : proc'[q] = IF q = p THEN state ELSE proc[q]
  BY DEF Becomes, TypeOK
<1>2. UNCHANGED Foreign
  BY <1>1 DEF Foreign, Live, Leaving
<1>3. ASSUME Alive \subseteq {p}
      PROVE  /\ state \in Live => (Alive = {p})' /\ (TheDaemon = p)'
             /\ state \notin Live => (Alive = {})' /\ (TheDaemon = NoPid)'
  <2>1. \A q \in Pid : q \in Alive' <=> q = p /\ state \in Live
    BY <1>1, <1>3 DEF Alive
  <2>2. Alive' \subseteq Pid
    BY DEF Alive
  <2> QED
    BY <2>1, <2>2, SlotTaken DEF TheDaemon
<1>4. CASE proc[p] = "unborn"
  BY <1>1, <1>2, <1>3, <1>4 DEF Slot!Start, Live, Leaving, Foreign, Answers
<1>5. CASE proc[p] \in Live
  <2>1. Alive = {p} /\ TheDaemon = p
    BY <1>5, InSlot
  <2> QED
    BY <1>1, <1>2, <1>3, <1>5, <2>1
    DEF Slot!Listen, Slot!Stop, Slot!Restore, Slot!Leave, Slot!Die, Live,
        Leaving, Foreign, Answers
<1> QED
  BY <1>4, <1>5 DEF Live, Leaving

\* The pid of a daemon that has gone is reused, or its new process is killed.
LEMMA GhostSteps ==
  ASSUME TypeOK, OrderInv, orderly, UNCHANGED <<orderly, tweaks, Answers>>,
         NEW p \in Pid, NEW state, Becomes(p, state),
         \/ proc[p] = "dead" /\ state = "foreign"
         \/ proc[p] = "foreign" /\ state = "dead"
  PROVE  Slot!Haunt
<1>1. \A q \in Pid : proc'[q] = IF q = p THEN state ELSE proc[q]
  BY DEF Becomes, TypeOK
<1>2. p \notin Alive /\ UNCHANGED Alive
  BY <1>1 DEF Alive, Live, Leaving
<1>3. UNCHANGED TheDaemon
  BY <1>2 DEF TheDaemon
<1>4. TheDaemon # p
  BY <1>2, NotGivenUp, NoPidAssumption DEF TheDaemon
<1>5. Alive # {} => UNCHANGED PhaseOf(proc[TheDaemon])
  BY <1>1, <1>3, <1>4, NotGivenUp DEF Alive, PhaseOf
<1>6. Foreign' \in {Foreign \cup {p}, Foreign \ {p}}
  BY <1>1 DEF Foreign
<1>7. Alive # {} => PhaseOf(proc[TheDaemon]) # "given up"
  BY NotGivenUp
<1>8. p \in Pid \ {TheDaemon}
  BY <1>4
<1> QED
  BY <1>2, <1>3, <1>5, <1>6, <1>7, <1>8 DEF Slot!Haunt, Foreign, Answers

\* What no process shows is no step of the slot, but for the answers.
LEMMA QuietSteps ==
  ASSUME UNCHANGED <<proc, tweaks, orderly>>
  PROVE  /\ UNCHANGED <<Alive, TheDaemon, Foreign>>
         /\ UNCHANGED Answers => UNCHANGED Slot!slotVars
<1>1. UNCHANGED <<Alive, Foreign>>
  BY DEF Alive, Foreign
<1>2. UNCHANGED TheDaemon
  BY <1>1 DEF TheDaemon
<1> QED
  BY <1>1, <1>2 DEF Slot!slotVars, PhaseOf, Foreign, Answers

\* The end of order is the one step after which nothing is promised.
LEMMA DisorderSteps ==
  ASSUME TypeOK, orderly, ~orderly'
  PROVE  Slot!Disorder
  BY NotGivenUp DEF Slot!Disorder, Answer

\* Only the daemon in the slot tweaks the device, to its very end.
LEMMA TweakSteps ==
  ASSUME TypeOK, OrderInv, orderly, NEW p \in Pid, Tweak(p)
  PROVE  Slot!Tweak
<1>1. proc[p] \in Live /\ UNCHANGED <<proc, cpc, orderly>>
  BY DEF Tweak, Live, Leaving, commandVars
<1>2. Alive = {p} /\ TheDaemon = p
  BY <1>1, InSlot
<1>3. UNCHANGED <<Alive, TheDaemon, Foreign, Answers>>
  BY <1>1 DEF Alive, TheDaemon, Foreign, Answers, Answer
<1> QED
  BY <1>1, <1>2, <1>3
  DEF Tweak, Slot!Tweak, PhaseOf, Leaving, Foreign, Answers

\* A command changes only what its own terminal shows.
LEMMA OneAnswer ==
  ASSUME TypeOK, orderly, orderly', NEW c \in Command, NEW from, NEW to,
         Step(c, from, to)
  PROVE  /\ {from, to} \cap {"refused", "stopped"} = {} => UNCHANGED Answers
         /\ to = "idle" => Answers' = [Answers EXCEPT ![c] = "none"]
         /\ to \in {"refused", "stopped"} =>
              Answers' = [Answers EXCEPT ![c] = to]
         /\ Answers[c] = IF from \in {"refused", "stopped"} THEN from ELSE "none"
  BY DEF TypeOK, Step, Answers, Answer

\* `start` says that a daemon is running: it is, or another process has its
\* pid.
LEMMA RefusalSteps ==
  ASSUME TypeOK, OrderInv, orderly, NEW c \in Command, StartProbe(c)
  PROVE  [Slot!Next]_Slot!slotVars
<1>1. cpc[c] = "startProbe" /\ UNCHANGED <<proc, tweaks, orderly>>
  BY DEF StartProbe, Step, deviceVars
<1>2. CASE ~Exists(seen[c])
  <2>1. PICK to \in {"startSpawn", "startUnlink"} : Step(c, "startProbe", to)
    BY <1>2 DEF StartProbe
  <2>2. UNCHANGED Answers
    BY <1>1, <2>1, OneAnswer
  <2> QED
    BY <1>1, <2>2, QuietSteps
<1>3. CASE Exists(seen[c])
  <2>1. Answers' = [Answers EXCEPT ![c] = "refused"]
    BY <1>1, <1>3, OneAnswer DEF StartProbe
  <2>2. ASSUME proc[seen[c]] \in Live
        PROVE  Alive # {} /\ PhaseOf(proc[TheDaemon]) \in {"starting", "up"}
    <3>1. TheDaemon = seen[c] /\ Alive # {}
      BY <1>3, <2>2, InSlot DEF Exists
    <3>2. Running(seen[c])
      BY <1>1, <1>3, <2>2 DEF OrderInv, Undisturbed, Probed, Exists
    <3> QED
      BY <3>1, <3>2 DEF PhaseOf, Running
  <2>3. proc[seen[c]] \notin Live => Foreign # {}
    BY <1>3 DEF Exists, Foreign
  <2>4. UNCHANGED <<Alive, TheDaemon, Foreign>>
    BY <1>1, QuietSteps
  <2>5. Slot!Refuse(c)
    BY <1>1, <2>1, <2>2, <2>3, <2>4
    DEF Slot!Refuse, Slot!Says, Foreign, Answers
  <2> QED
    BY <2>5 DEF Slot!Next
<1> QED
  BY <1>2, <1>3

\* A signal stops the daemon in the slot, or ends another process.
LEMMA SignalSteps ==
  ASSUME TypeOK, OrderInv, orderly, UNCHANGED <<orderly, tweaks, Answers>>,
         NEW p \in Pid, Terminate(p)
  PROVE  [Slot!Next]_Slot!slotVars
<1>1. CASE proc[p] = "running"
  BY <1>1, ProcessSteps DEF Terminate
<1>2. CASE proc[p] \in {"spawned", "writing", "booting"}
  BY <1>2, ProcessSteps DEF Terminate, Live
<1>3. CASE proc[p] = "foreign"
  BY <1>3, GhostSteps DEF Terminate, Slot!Next
<1>4. CASE proc[p] \notin {"running", "spawned", "writing", "booting", "foreign"}
  BY <1>4, QuietSteps DEF Terminate
<1> QED
  BY <1>1, <1>2, <1>3, <1>4

\* A command changes the slot by the daemon it spawns, by its signal, and by
\* what it says.
LEMMA CommandSteps ==
  ASSUME TypeOK, OrderInv, orderly, orderly', NEW c \in Command,
         Enter(c) \/ Return(c) \/ Start(c) \/ Stop(c) \/ Status(c)
  PROVE  [Slot!Next]_Slot!slotVars
<1>1. CASE StartSpawn(c)
  <2>1. cpc[c] = "startSpawn" /\ UNCHANGED <<tweaks, orderly>>
    BY <1>1 DEF StartSpawn, Step, deviceVars
  <2>2. Alive = {}
    BY <2>1 DEF OrderInv, Undisturbed, Vacated, Alive
  <2>3. PICK p \in Pid : proc[p] = "unborn" /\ Becomes(p, "spawned")
    BY <1>1 DEF StartSpawn
  <2>4. UNCHANGED Answers
    BY <1>1, OneAnswer DEF StartSpawn
  <2> QED
    BY <2>1, <2>2, <2>3, <2>4, ProcessSteps
<1>2. CASE StopSignal(c)
  <2>1. /\ seen[c] \in Pid /\ Terminate(seen[c])
        /\ UNCHANGED <<tweaks, orderly>>
    BY <1>2 DEF StopSignal, Step, TypeOK, Holding, deviceVars
  <2>2. UNCHANGED Answers
    BY <1>2, OneAnswer DEF StopSignal
  <2> QED
    BY <2>1, <2>2, SignalSteps
<1>3. CASE StopRemove(c)
  <2>1. cpc[c] = "stopRemove" /\ UNCHANGED <<proc, tweaks, orderly>>
    BY <1>3 DEF StopRemove, Unlink, Step, deviceVars
  <2>2. Alive = {}
    BY <2>1 DEF OrderInv, Undisturbed, Vacated, Alive
  <2>3. Answers' = [Answers EXCEPT ![c] = "stopped"]
    BY <1>3, OneAnswer DEF StopRemove, Unlink
  <2>4. UNCHANGED <<Alive, TheDaemon, Foreign>>
    BY <2>1, QuietSteps
  <2>5. Slot!Stopped(c)
    BY <2>1, <2>2, <2>3, <2>4 DEF Slot!Stopped, Slot!Says, Foreign, Answers
  <2> QED
    BY <2>5 DEF Slot!Next
<1>4. CASE Return(c)
  <2>1. PICK from \in {"refused", "stopped"} : Step(c, from, "idle")
    BY <1>4 DEF Return
  <2>2. UNCHANGED <<proc, tweaks, orderly>>
    BY <1>4 DEF Return, deviceVars
  <2>3. Answers[c] # "none" /\ Answers' = [Answers EXCEPT ![c] = "none"]
    BY <2>1, OneAnswer
  <2>4. UNCHANGED <<Alive, TheDaemon, Foreign>>
    BY <2>2, QuietSteps
  <2>5. Slot!Return(c)
    BY <2>2, <2>3, <2>4 DEF Slot!Return, Slot!Says, PhaseOf, Foreign, Answers
  <2> QED
    BY <2>5 DEF Slot!Next
\* The other steps of a command show nothing.
<1>5. ASSUME NEW from \in Starting \cup Stopping \cup Asking \cup {"idle"},
             NEW to \in Starting \cup Stopping \cup Asking \cup {"idle"},
             Step(c, from, to), UNCHANGED <<proc, tweaks>>
      PROVE  [Slot!Next]_Slot!slotVars
  <2>1. {from, to} \cap {"refused", "stopped"} = {}
    BY DEF Starting, Stopping, Asking
  <2>2. UNCHANGED <<orderly, Answers>>
    BY <1>5, <2>1, OneAnswer DEF TypeOK
  <2> QED
    BY <1>5, <2>2, QuietSteps
<1>6. CASE Enter(c)
  BY <1>5, <1>6 DEF Enter, Starting, Stopping, Asking, deviceVars
<1>7. CASE StartUnlink(c) \/ StartOpen(c) \/ StartWrite(c) \/ StartSleep(c)
  BY <1>5, <1>7 DEF StartUnlink, Unlink, StartOpen, StartWrite, StartSleep,
                    Sleep, Starting, deviceVars
<1>8. CASE StopProbe(c) \/ StopUnlink(c) \/ StopWait(c)
  BY <1>5, <1>8 DEF StopProbe, Probe, StopUnlink, Unlink, StopWait, Wait,
                    Stopping, deviceVars
<1>9. CASE Status(c)
  BY <1>5, <1>9 DEF Status, StatusProbe, StatusUnlink, Unlink, Asking,
                    deviceVars
<1> QED
  BY <1>1, <1>2, <1>3, <1>4, <1>6, <1>7, <1>8, <1>9, RefusalSteps
  DEF Start, Stop

\* Commands, signals, crashes and the daemon's own steps implement the slot, on
\* whatever number of terminals and processes: in an orderly session `start`
\* spawns only when every earlier daemon has gone, only the daemon in the slot
\* touches the device, "already running" is said only of a daemon or of a pid
\* that was reused, and "stopped" only when no daemon is left.
THEOREM DaemonImplementsSlot == Spec => SlotImplemented
<1>1. Init => Slot!Init
  <2> SUFFICES ASSUME Init PROVE Slot!Init
    OBVIOUS
  <2>1. Alive = {}
    BY DEF Init, Alive, Live, Leaving
  <2> QED
    BY <2>1 DEF Init, Slot!Init, TheDaemon, Answer
<1>2. TypeOK /\ OrderInv /\ [Next]_vars => [Slot!Next]_Slot!slotVars
  <2> SUFFICES ASSUME TypeOK, OrderInv, [Next]_vars
               PROVE  [Slot!Next]_Slot!slotVars
    OBVIOUS
  <2>1. orderly' => orderly
    BY DEF Next, vars, Enter, Return, Start, StartProbe, StartUnlink,
           StartSpawn, StartOpen, StartWrite, StartSleep, Sleep, Stop,
           StopProbe, Probe, StopUnlink, StopSignal, StopWait, Wait,
           StopRemove, Status, StatusProbe, StatusUnlink, Unlink,
           RunForeground, Daemon, DaemonOpen, DaemonWrite, Listen, Interrupted,
           DaemonRestore, DaemonUnlink, UnlinkFrom, DaemonExit, Tweak, Crash,
           Reuse, TypeOK
  <2>2. CASE ~orderly
    BY <2>1, <2>2 DEF Slot!slotVars, Answer
  <2>3. CASE orderly /\ ~orderly'
    BY <2>3, DisorderSteps DEF Slot!Next
  <2>4. CASE orderly /\ orderly'
    <3>1. CASE UNCHANGED vars
      <4>1. UNCHANGED <<proc, tweaks, orderly, Answers>>
        BY <3>1 DEF vars, Answers, Answer
      <4> QED
        BY <4>1, QuietSteps
    <3>2. ASSUME NEW p \in Pid, Tweak(p) PROVE [Slot!Next]_Slot!slotVars
      BY <2>4, <3>2, TweakSteps DEF Slot!Next
    <3>3. ASSUME NEW p \in Pid, Daemon(p) \/ Crash(p) \/ Reuse(p)
          PROVE  [Slot!Next]_Slot!slotVars
      <4>1. UNCHANGED <<orderly, cpc>>
        BY <2>4, <3>3
        DEF Daemon, DaemonOpen, DaemonWrite, Listen, Interrupted,
            DaemonRestore, DaemonUnlink, UnlinkFrom, DaemonExit, Crash, Reuse,
            commandVars, TypeOK
      <4>2. UNCHANGED Answers
        BY <4>1 DEF Answers, Answer
      <4>3. CASE Interrupted(p)
        BY <2>4, <4>1, <4>2, <4>3, SignalSteps DEF Interrupted, deviceVars
      <4>4. CASE Reuse(p)
        BY <2>4, <4>1, <4>2, <4>4, GhostSteps DEF Reuse, deviceVars, Slot!Next
      <4>5. CASE (Daemon(p) /\ ~Interrupted(p)) \/ Crash(p)
        <5>1. PICK state : Becomes(p, state) /\
                \/ /\ \/ proc[p] = "spawned" /\ state = "writing"
                      \/ proc[p] = "writing" /\ state = "booting"
                      \/ proc[p] = "booting" /\ state = "running"
                      \/ proc[p] = "restored" /\ state = "unlinked"
                      \/ proc[p] \in Live /\ state = "dead"
                   /\ UNCHANGED tweaks
                \/ /\ proc[p] = "stopping" /\ state = "restored"
                   /\ tweaks' \in {tweaks \ {p}, tweaks}
          BY <4>5 DEF Daemon, DaemonOpen, DaemonWrite, Listen, DaemonRestore,
                      DaemonUnlink, UnlinkFrom, DaemonExit, Crash, deviceVars,
                      Live, Leaving
        <5> QED
          BY <2>4, <4>1, <4>2, <5>1, ProcessSteps
      <4> QED
        BY <3>3, <4>3, <4>4, <4>5
    <3>4. \A p \in Pid : ~RunForeground(p)
      BY <2>4 DEF RunForeground
    <3> QED
      BY <2>4, <3>1, <3>2, <3>3, <3>4, CommandSteps DEF Next
  <2> QED
    BY <2>2, <2>3, <2>4
<1> QED
  BY <1>1, <1>2, DaemonTypeCorrect, OrderInvariant, PTL
  DEF Spec, SlotImplemented, Slot!Spec
=============================================================================
