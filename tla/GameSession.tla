----------------------------- MODULE GameSession -----------------------------
(***************************************************************************)
(* The event loop and the compiler together: GameMonitor and AotCompiler   *)
(* share the flag `suspended`, the resume task is the one that calls       *)
(* suspend(), the debounce workers are the ones that call resume().  Both  *)
(* calls are carried out by their caller, which goes on to the optimizer   *)
(* only after them.  Everything else each part does beside the other.      *)
(*                                                                         *)
(* The module extends that of the event loop, whose actions are conjoined  *)
(* with those of the compiler, an instance.                                *)
(***************************************************************************)
EXTENDS GameMonitor

CONSTANTS QueueLen, MaxKills   \* as in AotCompiler

VARIABLES
  \* the compiler, as in AotCompiler
  cpc, idx, outcome, compiled, cmd, strays, wakeup, aborted, suspender,
  resumer, kills, lateStarts,
  \* history
  raced,     \* the flag was last cleared by a worker superseded meanwhile
  spared,    \* a running compile survived the last killall of the suspension
  missed     \* the worker was last notified just before it began to wait

Compiler == INSTANCE AotCompiler WITH pc <- cpc, Resumers <- Workers

\* The event loop's variables but `suspended`, which is the compiler's flag.
monitorVars == <<envVars, readerVars, stateVars, workerVars, tweaked, faults>>
compilerVars == <<cpc, idx, outcome, compiled, cmd, strays, wakeup, aborted,
                  suspender, resumer, kills, lateStarts>>
historyVars == <<raced, spared, missed>>
sessionVars == <<monitorVars, suspended, compilerVars, historyVars>>

SessionInit ==
  /\ Init
  /\ Compiler!Init
  /\ raced = FALSE /\ spared = FALSE /\ missed = FALSE

-----------------------------------------------------------------------------
(* Steps of one part *)

\* A step of the event loop that does not concern the compiler.
Alone(step) == step /\ UNCHANGED <<compilerVars, historyVars>>

User == \E p \in Packages : Alone(Switch(p))

Logcat(s) == Alone(Reconnect(s))

Reader(s) == Alone(Read(s) \/ Answer(s))

PauseHandler == Alone(PauseTask)

\* The compiler's worker; a worker that leaves its wait has missed nothing.
CompileTask ==
  /\ Compiler!Worker
  /\ missed' = (missed /\ cpc # "parked")
  /\ UNCHANGED <<monitorVars, raced, spared>>

Device ==
  /\ \/ /\ \/ Compiler!CompileEnds
           \/ \E p \in Compiler!Package : Compiler!StrayEnds(p)
        /\ spared' = (spared /\ Compiler!Compiling')
     \/ /\ Compiler!KillLands
        /\ spared' = Compiler!Compiling'
  /\ UNCHANGED <<monitorVars, raced, missed>>

-----------------------------------------------------------------------------
(* The resume task: handler, suspend(), apply_optimizations *)

\* suspend() begins.
Suspend ==
  /\ ResumeSuspend
  /\ Compiler!SuspendStore
  /\ raced' = FALSE /\ spared' = FALSE
  /\ UNCHANGED missed

\* suspend() ends.
SuspendReturns ==
  /\ Compiler!SuspendNotify
  /\ UNCHANGED <<monitorVars, historyVars>>

ResumeHandler ==
  \/ Alone(ResumeBump \/ ResumeInsert \/ ResumeFlag)
  \/ Suspend
  \/ SuspendReturns
  \/ /\ suspender = "idle"
     /\ Alone(ResumeApply \/ ResumeApplied)

-----------------------------------------------------------------------------
(* A debounce worker: timer, checks, resume(), restore_system *)

\* resume() begins.
Resume(w) ==
  /\ WorkerResume(w)
  /\ Compiler!EnterResume(w)
  /\ Compiler!ClearFlag
  /\ raced' = (generation # wid[w])
  /\ UNCHANGED <<spared, missed>>

Returns(w, notification) ==
  /\ Compiler!LeaveResume(w)
  /\ notification
  /\ missed' = (missed \/ cpc = "park")
  /\ UNCHANGED <<monitorVars, raced, spared>>

\* mutant: resume() does not notify
ResumeReturnsSilently(w) ==
  Returns(w, UNCHANGED <<cpc, idx, outcome, compiled, cmd, strays, suspended,
                         wakeup, aborted, suspender, kills, lateStarts>>)

\* resume() ends.
ResumeReturns(w) == Returns(w, Compiler!NotifyWorker)

Debounce(w) ==
  \/ Alone(Wakeup(w) \/ WorkerCheck(w) \/ WorkerClear(w))
  \/ Resume(w)
  \/ ResumeReturns(w)
  \/ /\ resumer[w] = "idle"
     /\ Alone(WorkerRestore(w) \/ WorkerRestored(w))

-----------------------------------------------------------------------------
SessionNext ==
  \/ User
  \/ \E s \in Stream : Logcat(s) \/ Reader(s)
  \/ ResumeHandler \/ PauseHandler
  \/ \E w \in Workers : Debounce(w)
  \/ CompileTask
  \/ Device

SessionSpec == SessionInit /\ [][SessionNext]_sessionVars

\* The runtime polls every task, timers expire, rish calls return and the
\* package manager answers.
SessionFairness ==
  /\ \A s \in Stream : WF_sessionVars(Reader(s))
  /\ WF_sessionVars(ResumeHandler) /\ WF_sessionVars(PauseHandler)
  /\ \A w \in Workers : WF_sessionVars(Debounce(w))
  /\ WF_sessionVars(CompileTask)
  /\ WF_sessionVars(Device)

SessionFairSpec == SessionSpec /\ SessionFairness

-----------------------------------------------------------------------------
(* Properties *)

\* Both calls have returned, and so has every handler and debounce worker.
SessionAtRest ==
  /\ AtRest
  /\ suspender = "idle"
  /\ \A w \in Workers : resumer[w] = "idle"

\* README: compilation is suspended when a game enters the foreground.  When
\* all is at rest, a game is active and the killall of its suspend() has been
\* carried out, a compile runs beside the game only through one of three
\* windows: a debounce worker that had compared its generation before the game
\* resumed cleared the flag after it; the compiler's worker had read the flag
\* just before it was set; or that killall failed, or reached the device before
\* dex2oat ran, and so spared a compile whose future was dropped.  There is no
\* fourth, and through the third runs none that the worker still awaits.
CompilesBesideGame ==
  SessionAtRest /\ active # {} /\ kills = 0 =>
    /\ cmd = "running" /\ ~aborted => raced \/ lateStarts = 1
    /\ Compiler!Compiling => raced \/ lateStarts = 1 \/ spared

\* The other way round: when all is at rest and no game is active the
\* compiler waits for nobody, unless the notification came between its look
\* at the flag and its wait.
WaitsForNobody ==
  SessionAtRest /\ active = {} /\ cpc = "parked" => wakeup \/ missed

\* When no game is active any more the rest of the queue is compiled, through
\* the pause task, its debounces, the flag and the notification, unless that
\* notification was missed.
GamesOverQueueDone == <>[](active = {}) => <>(cpc = "done") \/ <>[]missed
=============================================================================
