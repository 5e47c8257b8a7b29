----------------------------- MODULE GameMonitor -----------------------------
(***************************************************************************)
(* The event loop (run_event_loop): two tasks follow two logcat streams,   *)
(* one of activity resumes and one of activity pauses.  A resumed game     *)
(* suspends the compiler and has the tweaks applied; a paused game starts  *)
(* a debounce worker that sleeps five seconds and, unless a later resume   *)
(* or pause superseded it or a game is active, resumes the compiler and    *)
(* restores the system.  The tasks and the workers run on different        *)
(* threads: each lock section, atomic access and await is an action.       *)
(*                                                                         *)
(* Of the compiler only its flag is kept (AotCompiler has the rest), of    *)
(* the optimizer only its active flag and the await inside each call       *)
(* (ExtremeOptimizer has the rest).                                        *)
(***************************************************************************)
EXTENDS Naturals, Sequences, FiniteSets

CONSTANTS
  Packages,     \* what extract_package can return
  Games,        \* packages whose manifest says game
  Named,        \* games recognized by their name alone
  Front,        \* the package in the foreground where the logs begin
  Workers,      \* bound: debounce workers alive at the same time
  MaxSwitches,  \* bound: activity switches of the user
  MaxFaults     \* bound: failed rish calls and logcat deaths

ASSUME PackageAssumption ==
  /\ Named \subseteq Games
  /\ Games \subseteq Packages
  /\ Front \in Packages
ASSUME BoundsAssumption == MaxSwitches \in Nat /\ MaxFaults \in Nat

VARIABLES
  top,         \* package of the activity in the foreground
  log,         \* per stream: the packages Android has logged
  pos,         \* per stream: lines its task has read
  pc,          \* per stream: where its task is
  pkg,         \* per stream: the package it handles
  cache,       \* game_cache
  active,      \* active_games
  foreground,  \* any_game_foreground
  generation,  \* pause_generation
  wpc,         \* per worker: where it is, "idle" if there is none
  wid,         \* per worker: its generation_id
  suspended,   \* the compiler's flag
  tweaked,     \* the optimizer's active flag
  cancelled,   \* history: workers asleep when a game resumed
  faults       \* history: faults so far

envVars == <<top, log>>
readerVars == <<pos, pc, pkg, cache>>
stateVars == <<active, foreground, generation>>
workerVars == <<wpc, wid, cancelled>>
sharedVars == <<suspended, tweaked>>
vars == <<envVars, readerVars, stateVars, workerVars, sharedVars, faults>>

Stream == {"resume", "pause"}
ResumeStep == {"read", "query", "bump", "insert", "flag", "suspend",
               "apply", "applying"}
PauseStep == {"read", "query", "remove", "bump"}
WorkerStep == {"idle", "sleep", "check", "clear", "resume", "restore",
               "restoring"}

TypeOK ==
  /\ top \in Packages
  /\ log \in [Stream -> Seq(Packages)]
  /\ pos \in [Stream -> Nat]
  /\ pc \in [Stream -> ResumeStep \cup PauseStep]
  /\ pc["resume"] \in ResumeStep /\ pc["pause"] \in PauseStep
  /\ pkg \in [Stream -> Packages]
  /\ cache \in [Packages -> {"unknown", "game", "other"}]
  /\ active \subseteq Packages
  /\ foreground \in BOOLEAN
  /\ generation \in Nat
  /\ wpc \in [Workers -> WorkerStep]
  /\ wid \in [Workers -> Nat]
  /\ suspended \in BOOLEAN
  /\ tweaked \in BOOLEAN
  /\ cancelled \subseteq Workers
  /\ faults \in Nat

\* What the user did before the daemon started is in the buffers too, as far
\* back as they reach: those are the behaviours whose first steps are Switch
\* steps.
Init ==
  /\ top = Front
  /\ log = [s \in Stream |-> <<>>]
  /\ pos = [s \in Stream |-> 0]
  /\ pc = [s \in Stream |-> "read"]
  /\ pkg = [s \in Stream |-> Front]
  /\ cache = [p \in Packages |-> "unknown"]
  /\ active = {}
  /\ foreground = FALSE
  /\ generation = 0
  /\ wpc = [w \in Workers |-> "idle"]
  /\ wid = [w \in Workers |-> 0]
  /\ suspended = FALSE
  /\ tweaked = FALSE
  /\ cancelled = {}
  /\ faults = 0

-----------------------------------------------------------------------------
(* Android: the activity manager's log, and logcat *)

\* The user brings p to the front, or another activity of the same app: the
\* old activity pauses, then the new one resumes.
Switch(p) ==
  /\ Len(log["resume"]) < MaxSwitches
  /\ top' = p
  /\ log' = [s \in Stream |->
               Append(log[s], IF s = "resume" THEN p ELSE top)]
  /\ UNCHANGED <<readerVars, stateVars, workerVars, sharedVars, faults>>

Fault == faults < MaxFaults /\ faults' = faults + 1

\* A logcat dies and is started again 1.5 s later.  It prints what the
\* buffer retains from its start: lines may be lost or be read again.
Reconnect(s) ==
  /\ pc[s] = "read"
  /\ Fault
  /\ \E start \in 0..Len(log[s]) : pos' = [pos EXCEPT ![s] = start]
  /\ UNCHANGED <<pc, pkg, cache>>
  /\ UNCHANGED <<envVars, stateVars, workerVars, sharedVars>>

-----------------------------------------------------------------------------
(* Both tasks: read a line, check_if_game *)

\* mutant: the tasks are given each other's handler
HandleSwapped(s) == IF s = "resume" THEN "remove" ELSE "bump"

\* The first step of the task's handler.
Handle(s) == IF s = "resume" THEN "bump" ELSE "remove"

\* The task reads a line; the cache or the package's name settles what it
\* is, or the package manager has to be asked.
Read(s) ==
  /\ pc[s] = "read"
  /\ pos[s] < Len(log[s])
  /\ pos' = [pos EXCEPT ![s] = pos[s] + 1]
  /\ LET p == log[s][pos[s] + 1] IN
     /\ pkg' = [pkg EXCEPT ![s] = p]
     /\ \/ /\ cache[p] = "game" \/ (cache[p] = "unknown" /\ p \in Named)
           /\ cache' = [cache EXCEPT ![p] = "game"]
           /\ pc' = [pc EXCEPT ![s] = Handle(s)]
        \/ /\ cache[p] = "other"
           /\ UNCHANGED <<cache, pc>>
        \/ /\ cache[p] = "unknown" /\ p \notin Named
           /\ pc' = [pc EXCEPT ![s] = "query"]
           /\ UNCHANGED cache
  /\ UNCHANGED <<envVars, stateVars, workerVars, sharedVars, faults>>

Classify(s, verdict) ==
  /\ cache' = [cache EXCEPT ![pkg[s]] = verdict]
  /\ pc' = [pc EXCEPT ![s] = IF verdict = "game" THEN Handle(s) ELSE "read"]

\* The answer is written to the cache.  The other task may have asked, and
\* answered, the same question meanwhile: the later write stands.
Answer(s) ==
  /\ pc[s] = "query"
  /\ \/ Classify(s, IF pkg[s] \in Games THEN "game" ELSE "other")
        /\ UNCHANGED faults
     \/ Classify(s, "other") /\ Fault   \* unwrap_or_default: no output
  /\ UNCHANGED <<pos, pkg>>
  /\ UNCHANGED <<envVars, stateVars, workerVars, sharedVars>>

-----------------------------------------------------------------------------
(* The resume task *)

ResumeTo(step) == pc' = [pc EXCEPT !["resume"] = step]

\* Cancel pending pause debounces.
ResumeBump ==
  /\ pc["resume"] = "bump"
  /\ ResumeTo("insert")
  /\ generation' = generation + 1
  /\ cancelled' = {w \in Workers : wpc[w] = "sleep"}
  /\ UNCHANGED <<active, foreground, wpc, wid, pos, pkg, cache>>
  /\ UNCHANGED <<envVars, sharedVars, faults>>

ResumeInsert ==
  /\ pc["resume"] = "insert"
  /\ ResumeTo("flag")
  /\ active' = active \cup {pkg["resume"]}
  /\ UNCHANGED <<foreground, generation, pos, pkg, cache>>
  /\ UNCHANGED <<envVars, workerVars, sharedVars, faults>>

ResumeFlag ==
  /\ pc["resume"] = "flag"
  /\ ResumeTo("suspend")
  /\ foreground' = TRUE
  /\ UNCHANGED <<active, generation, pos, pkg, cache>>
  /\ UNCHANGED <<envVars, workerVars, sharedVars, faults>>

ResumeSuspend ==
  /\ pc["resume"] = "suspend"
  /\ ResumeTo("apply")
  /\ suspended' = TRUE
  /\ UNCHANGED <<tweaked, pos, pkg, cache>>
  /\ UNCHANGED <<envVars, stateVars, workerVars, faults>>

\* apply_optimizations up to its early return.
ResumeApply ==
  /\ pc["resume"] = "apply"
  /\ ResumeTo(IF tweaked THEN "read" ELSE "applying")
  /\ UNCHANGED <<pos, pkg, cache>>
  /\ UNCHANGED <<envVars, stateVars, workerVars, sharedVars, faults>>

\* The rest of it, after its awaits: the script is spawned, or cannot be.
ResumeApplied ==
  /\ pc["resume"] = "applying"
  /\ ResumeTo("read")
  /\ \/ tweaked' = TRUE /\ UNCHANGED faults
     \/ UNCHANGED tweaked /\ Fault
  /\ UNCHANGED <<suspended, pos, pkg, cache>>
  /\ UNCHANGED <<envVars, stateVars, workerVars>>

-----------------------------------------------------------------------------
(* The pause task *)

PauseRemove ==
  /\ pc["pause"] = "remove"
  /\ pc' = [pc EXCEPT !["pause"] = "bump"]
  /\ active' = active \ {pkg["pause"]}
  /\ UNCHANGED <<foreground, generation, pos, pkg, cache>>
  /\ UNCHANGED <<envVars, workerVars, sharedVars, faults>>

Spawn(w, id) ==
  /\ wpc[w] = "idle"
  /\ wpc' = [wpc EXCEPT ![w] = "sleep"]
  /\ wid' = [wid EXCEPT ![w] = id]
  /\ cancelled' = cancelled \ {w}

PauseSpawn(id) ==
  /\ pc["pause"] = "bump"
  /\ pc' = [pc EXCEPT !["pause"] = "read"]
  /\ generation' = generation + 1
  /\ \E w \in Workers : Spawn(w, id)
  /\ UNCHANGED <<active, foreground, pos, pkg, cache>>
  /\ UNCHANGED <<envVars, sharedVars, faults>>

PauseBumpOld == PauseSpawn(generation)   \* mutant: fetch_add without the + 1

PauseBump == PauseSpawn(generation + 1)

-----------------------------------------------------------------------------
(* The debounce workers *)

WorkerTo(w, step) == wpc' = [wpc EXCEPT ![w] = step]

\* The resume task is not between the insert of a game and its suspend().
HandlerThrough == pc["resume"] \notin {"insert", "flag", "suspend"}

\* A timing assumption: the resume task is through the few instructions of its
\* handler before a five-second sleep that began meanwhile ends.  A sleep that
\* was cancelled at the handler's start may end at any moment.
SleepOutlastsHandler(w) == w \in cancelled \/ HandlerThrough

Wakes(w, current) ==
  /\ wpc[w] = "sleep"
  /\ SleepOutlastsHandler(w)
  /\ WorkerTo(w, IF current THEN "check" ELSE "idle")
  /\ UNCHANGED <<wid, cancelled>>
  /\ UNCHANGED <<envVars, readerVars, stateVars, sharedVars, faults>>

Fires(w) == Wakes(w, TRUE)   \* mutant: the generation is not compared

\* The sleep is over: has anything happened since?
Wakeup(w) == Wakes(w, generation = wid[w])

WorkerCheck(w) ==
  /\ wpc[w] = "check"
  /\ WorkerTo(w, IF active # {} THEN "idle" ELSE "clear")
  /\ UNCHANGED <<wid, cancelled>>
  /\ UNCHANGED <<envVars, readerVars, stateVars, sharedVars, faults>>

WorkerClear(w) ==
  /\ wpc[w] = "clear"
  /\ WorkerTo(w, "resume")
  /\ foreground' = FALSE
  /\ UNCHANGED <<active, generation, wid, cancelled>>
  /\ UNCHANGED <<envVars, readerVars, sharedVars, faults>>

WorkerResume(w) ==
  /\ wpc[w] = "resume"
  /\ WorkerTo(w, "restore")
  /\ suspended' = FALSE
  /\ UNCHANGED <<tweaked, wid, cancelled>>
  /\ UNCHANGED <<envVars, readerVars, stateVars, faults>>

\* restore_system up to its early return.
WorkerRestore(w) ==
  /\ wpc[w] = "restore"
  /\ WorkerTo(w, IF tweaked THEN "restoring" ELSE "idle")
  /\ UNCHANGED <<wid, cancelled>>
  /\ UNCHANGED <<envVars, readerVars, stateVars, sharedVars, faults>>

\* The rest of it, after its awaits.
WorkerRestored(w) ==
  /\ wpc[w] = "restoring"
  /\ WorkerTo(w, "idle")
  /\ \/ tweaked' = FALSE /\ UNCHANGED faults
     \/ UNCHANGED tweaked /\ Fault
  /\ UNCHANGED <<suspended, wid, cancelled>>
  /\ UNCHANGED <<envVars, readerVars, stateVars>>

-----------------------------------------------------------------------------
ResumeTask == \/ ResumeBump \/ ResumeInsert \/ ResumeFlag \/ ResumeSuspend
              \/ ResumeApply \/ ResumeApplied
PauseTask == PauseRemove \/ PauseBump
Worker(w) == \/ Wakeup(w) \/ WorkerCheck(w) \/ WorkerClear(w)
             \/ WorkerResume(w) \/ WorkerRestore(w) \/ WorkerRestored(w)

Next ==
  \/ \E p \in Packages : Switch(p)
  \/ \E s \in Stream : Reconnect(s) \/ Read(s) \/ Answer(s)
  \/ ResumeTask
  \/ PauseTask
  \/ \E w \in Workers : Worker(w)

Spec == Init /\ [][Next]_vars

\* The runtime keeps polling the tasks and the workers, timers expire and
\* rish calls return.  Nothing obliges the user to switch activities.
Fairness ==
  /\ \A s \in Stream : WF_vars(Read(s) \/ Answer(s))
  /\ WF_vars(ResumeTask)
  /\ WF_vars(PauseTask)
  /\ \A w \in Workers : WF_vars(Worker(w))

FairSpec == Spec /\ Fairness

-----------------------------------------------------------------------------
(* Properties *)

\* No handler is between taking a package and its last step, and no worker
\* is left: nothing but a new event will change the shared state.
AtRest ==
  /\ pc["resume"] = "read"
  /\ pc["pause"] \in {"read", "query"}
  /\ \A w \in Workers : wpc[w] = "idle"

\* The resume task has handled every resume, the pause task every pause.
CaughtUp ==
  /\ AtRest
  /\ pc["pause"] = "read"
  /\ \A s \in Stream : pos[s] = Len(log[s])

\* The compiler is never left suspended for nobody, nor the foreground flag
\* raised: whatever the interleaving of resumes, pauses, superseded and
\* expired debounces, when all is at rest and no game is active neither is
\* set.
QuietWhenNoGame == AtRest /\ active = {} => ~suspended /\ ~foreground

\* "Cancel pending pause debounces immediately": a worker that was asleep
\* when a game resumed does nothing when its sleep is over.
CancelledDoNothing ==
  \A w \in cancelled : wpc[w] \in {"idle", "sleep"}

\* When the last game has been paused for good the compiler is resumed for
\* good, even if further games' handlers, cancelled debounces and failing
\* rish calls come in between.
ResumedWhenNoGame == <>[](active = {}) => <>[]~suspended

-----------------------------------------------------------------------------
(* What the documents promise and the code does not keep *)

\* README: compilation is suspended whenever a game enters the foreground.
\* At rest with a game active, it is.
SuspendedWhileGame == AtRest /\ active # {} => suspended

\* README: complete restoration upon exiting the game.  At rest with no game
\* active, no tweaks are applied.
RestoredAfterGame == AtRest /\ active = {} => ~tweaked

\* README: tweaks are applied exclusively while games are in the
\* foreground: with every line read, the active games are the game the user
\* is looking at.
ActiveIsForeground == CaughtUp => active = Games \cap {top}
=============================================================================
