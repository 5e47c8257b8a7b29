----------------------------- MODULE AotCompiler -----------------------------
(***************************************************************************)
(* The AOT compilation worker (AotCompiler::run) and the handle through    *)
(* which the event loop stops and restarts it (CompilerHandle::suspend and *)
(* ::resume).  The worker runs on one thread of the tokio runtime, every   *)
(* suspend() and resume() on another, so each atomic access and each       *)
(* notification is an action of its own.                                   *)
(*                                                                         *)
(* tokio::sync::Notify::notify_waiters wakes the Notified futures that     *)
(* exist when it is called and stores nothing for later ones: `wakeup` and *)
(* `aborted` are raised only if the worker already holds the future.       *)
(***************************************************************************)
EXTENDS Naturals, Sequences, FiniteSets

CONSTANTS
  QueueLen,   \* packages discovered at start-up (queue.len())
  Resumers,   \* debounce workers of the event loop that may call resume()
  MaxKills    \* bound: killall commands fired and not yet carried out

ASSUME QueueLenAssumption == QueueLen \in Nat
ASSUME MaxKillsAssumption == MaxKills \in Nat

VARIABLES
  pc,          \* where the worker is in run()
  idx,         \* package under way, counted from 1 (run() counts from 0)
  outcome,     \* per package: how its compile command ended, or "pending"
  compiled,    \* compiled_count
  cmd,         \* the awaited `cmd package compile`: what exec() would return
  strays,      \* packages with a compile on the device nobody awaits any more
  suspended,   \* the shared AtomicBool
  wakeup,      \* the Notified future of `notify` has been notified
  aborted,     \* the Notified future of `abort_notify` has been notified
  suspender,   \* the event loop's resume task inside suspend()
  resumer,     \* the debounce workers inside resume()
  kills,       \* detached killall commands not yet carried out
  lateStarts   \* history: commands started since the flag was last set

vars == <<pc, idx, outcome, compiled, cmd, strays, suspended, wakeup, aborted,
          suspender, resumer, kills, lateStarts>>

workerVars == <<pc, idx, outcome, compiled, cmd, strays, wakeup, aborted,
                lateStarts>>
handleVars == <<suspended, suspender, resumer, kills>>

Package == 1..QueueLen

\* How a compile command ends: exec() returns Ok only for "ok".
Ended == {"ok", "err", "killed"}

TypeOK ==
  /\ pc \in {"check", "park", "parked", "begin", "poll", "select", "done"}
  /\ idx \in 1..(QueueLen + 1)
  /\ outcome \in [Package -> Ended \cup {"pending"}]
  /\ compiled \in Nat
  /\ cmd \in Ended \cup {"none", "running"}
  /\ strays \subseteq Package
  /\ suspended \in BOOLEAN
  /\ wakeup \in BOOLEAN
  /\ aborted \in BOOLEAN
  /\ suspender \in {"idle", "stored"}
  /\ resumer \in [Resumers -> {"idle", "stored"}]
  /\ kills \in Nat
  /\ lateStarts \in Nat

Init ==
  /\ pc = "check"
  /\ idx = 1
  /\ outcome = [p \in Package |-> "pending"]
  /\ compiled = 0
  /\ cmd = "none"
  /\ strays = {}
  /\ suspended = FALSE
  /\ wakeup = FALSE
  /\ aborted = FALSE
  /\ suspender = "idle"
  /\ resumer = [r \in Resumers |-> "idle"]
  /\ kills = 0
  /\ lateStarts = 0

-----------------------------------------------------------------------------
(* The worker: run() *)

Check(last) ==
  /\ pc = "check"
  /\ pc' = IF idx > last THEN "done"
           ELSE IF suspended THEN "park" ELSE "begin"
  /\ UNCHANGED <<idx, outcome, compiled, cmd, strays, wakeup, aborted,
                 lateStarts>>
  /\ UNCHANGED handleVars

CheckPastTheEnd == Check(QueueLen + 1)   \* mutant: `idx <= queue.len()`

\* `while idx < queue.len()` and the load of the flag in the inner `while`.
CheckSuspended == Check(QueueLen)

\* notify.notified(): from here on a notification reaches the worker.
Park ==
  /\ pc = "park"
  /\ pc' = "parked"
  /\ wakeup' = FALSE
  /\ UNCHANGED <<idx, outcome, compiled, cmd, strays, aborted, lateStarts>>
  /\ UNCHANGED handleVars

\* The awaited notification arrived: load the flag again.
Wake ==
  /\ pc = "parked"
  /\ wakeup
  /\ pc' = "check"
  /\ wakeup' = FALSE
  /\ UNCHANGED <<idx, outcome, compiled, cmd, strays, aborted, lateStarts>>
  /\ UNCHANGED handleVars

\* select! builds its futures: from here on suspend() can interrupt.
ArmAbort ==
  /\ pc = "begin"
  /\ pc' = "poll"
  /\ aborted' = FALSE
  /\ UNCHANGED <<idx, outcome, compiled, cmd, strays, wakeup, lateStarts>>
  /\ UNCHANGED handleVars

\* The first poll of exec() spawns rish, or fails to.
StartCompile ==
  /\ pc = "poll"
  /\ pc' = "select"
  /\ cmd' \in {"running", "err"}
  /\ lateStarts' = IF suspended THEN lateStarts + 1 ELSE lateStarts
  /\ UNCHANGED <<idx, outcome, compiled, strays, wakeup, aborted>>
  /\ UNCHANGED handleVars

Returned(next) ==
  /\ pc = "select"
  /\ cmd \in Ended
  /\ pc' = "check"
  /\ outcome' = [outcome EXCEPT ![idx] = cmd]
  /\ compiled' = IF cmd = "ok" THEN compiled + 1 ELSE compiled
  /\ idx' = next
  /\ cmd' = "none"
  /\ aborted' = FALSE
  /\ UNCHANGED <<strays, wakeup, lateStarts>>
  /\ UNCHANGED handleVars

\* mutant: a failed package is tried again
ReturnedRetrying == Returned(IF cmd = "ok" THEN idx + 1 ELSE idx)

\* The exec() branch of select!: the package is settled whatever the result.
CompileReturned == Returned(idx + 1)

Interrupt(target, next) ==
  /\ pc \in {"poll", "select"}
  /\ aborted
  /\ pc' = target
  /\ idx' = next
  /\ cmd' = "none"
  /\ strays' = IF cmd = "running" THEN strays \cup {idx} ELSE strays
  /\ aborted' = FALSE
  /\ UNCHANGED <<outcome, compiled, wakeup, lateStarts>>
  /\ UNCHANGED handleVars

InterruptedSkips == Interrupt("check", idx + 1)  \* mutant: idx += 1 here too
InterruptedRetries == Interrupt("begin", idx)    \* mutant: flag not read again

\* The abort.notified() branch: idx is kept.  select! polls its branches in
\* random order, so it may be taken before exec() was polled at all, and
\* whether or not the command has ended.  The future of exec() is dropped, and
\* with it the child's handle: without kill_on_drop a command that runs goes
\* on running.
Interrupted == Interrupt("check", idx)

Worker == \/ CheckSuspended \/ Park \/ Wake \/ ArmAbort
          \/ StartCompile \/ CompileReturned \/ Interrupted

-----------------------------------------------------------------------------
(* The handle: suspend() and resume() *)

SuspendStore ==
  /\ suspender = "idle"
  /\ kills < MaxKills
  /\ suspender' = "stored"
  /\ suspended' = TRUE
  /\ UNCHANGED <<resumer, kills>>
  /\ UNCHANGED workerVars

Notify(killalls) ==
  /\ suspender = "stored"
  /\ suspender' = "idle"
  /\ aborted' = (aborted \/ pc \in {"poll", "select"})
  /\ kills' = kills + killalls
  /\ UNCHANGED <<pc, idx, outcome, compiled, cmd, strays, wakeup, lateStarts>>
  /\ UNCHANGED <<suspended, resumer>>

SuspendNotifyOnly == Notify(0)   \* mutant: the dropped future is relied on

\* notify_waiters on abort_notify, then the detached killall is fired.
SuspendNotify == Notify(1)

EnterResume(r) ==
  /\ resumer[r] = "idle"
  /\ resumer' = [resumer EXCEPT ![r] = "stored"]

LeaveResume(r) ==
  /\ resumer[r] = "stored"
  /\ resumer' = [resumer EXCEPT ![r] = "idle"]

ClearFlag ==
  /\ suspended' = FALSE
  /\ lateStarts' = 0
  /\ UNCHANGED <<pc, idx, outcome, compiled, cmd, strays, wakeup, aborted,
                 suspender, kills>>

NotifyWorker ==
  /\ wakeup' = (wakeup \/ pc = "parked")
  /\ UNCHANGED <<pc, idx, outcome, compiled, cmd, strays, suspended, aborted,
                 suspender, kills, lateStarts>>

\* mutant: notify_waiters before the store
ResumeNotifiesFirst(r) ==
  (EnterResume(r) /\ NotifyWorker) \/ (LeaveResume(r) /\ ClearFlag)

\* The store, then notify_waiters on notify.
Resume(r) ==
  (EnterResume(r) /\ ClearFlag) \/ (LeaveResume(r) /\ NotifyWorker)

-----------------------------------------------------------------------------
(* The device: package manager and killall *)

\* A compile is under way on the device, awaited or not.
Compiling == cmd = "running" \/ strays # {}

\* The package manager finishes the command.
CompileEnds ==
  /\ cmd = "running"
  /\ cmd' \in {"ok", "err"}
  /\ UNCHANGED <<pc, idx, outcome, compiled, strays, wakeup, aborted,
                 lateStarts>>
  /\ UNCHANGED handleVars

\* It finishes what was interrupted of package p: nobody is told.
StrayEnds(p) ==
  /\ p \in strays
  /\ strays' = strays \ {p}
  /\ UNCHANGED <<pc, idx, outcome, compiled, cmd, wakeup, aborted, lateStarts>>
  /\ UNCHANGED handleVars

\* `killall -9 dex2oat ...` reaches the device: it ends the compiles whose
\* dex2oat runs, awaited or not, or fails (its result is discarded).
KillLands ==
  /\ kills > 0
  /\ kills' = kills - 1
  /\ cmd' \in IF cmd = "running" THEN {"running", "killed"} ELSE {cmd}
  /\ strays' \in SUBSET strays
  /\ UNCHANGED <<pc, idx, outcome, compiled, wakeup, aborted, lateStarts>>
  /\ UNCHANGED <<suspended, suspender, resumer>>

-----------------------------------------------------------------------------
Next ==
  \/ Worker
  \/ SuspendStore \/ SuspendNotify
  \/ \E r \in Resumers : Resume(r)
  \/ CompileEnds \/ KillLands
  \/ \E p \in Package : StrayEnds(p)

Spec == Init /\ [][Next]_vars

\* The runtime polls a woken task, a call that has begun is carried through,
\* and the package manager answers.  Nothing obliges the event loop to call.
Fairness ==
  /\ WF_vars(Worker)
  /\ WF_vars(SuspendNotify)
  /\ \A r \in Resumers : WF_vars(resumer[r] = "stored" /\ Resume(r))
  /\ WF_vars(CompileEnds)

FairSpec == Spec /\ Fairness

-----------------------------------------------------------------------------
(* Properties *)

\* No package is lost or overtaken: exactly the packages before idx have an
\* ended compile command, however often the worker was interrupted and
\* restarted, and compiled_count counts the successful ones among them.
QueueProgress ==
  /\ \A p \in Package : (outcome[p] = "pending") <=> (p >= idx)
  /\ compiled = Cardinality({p \in Package : outcome[p] = "ok"})

\* The flag is read before select! can be interrupted, so one compile may
\* still start after suspend() set it: never a second one before resume().
AtMostOneLateStart == lateStarts <= 1

\* A worker that was parked while the flag was set and whose flag is then
\* cleared for good does leave its wait: resume() stores before it notifies.
ResumeReachesParked ==
  [](pc = "parked" /\ suspended
       => (<>[]~suspended => <>(pc # "parked")))

\* Once no game suspends it any more, the worker gets to the end of the
\* queue or into its wait, whatever the commands return: it never retries
\* a failing package for ever.
QueueDrains == <>[]~suspended => <>[](pc \in {"done", "parked"})

\* The worker implements the queue it promises.
Queue == INSTANCE CompileQueue WITH
  settled <- [p \in 1..(idx - 1) |->
                IF outcome[p] = "ok" THEN "ok" ELSE "err"],
  busy <- pc = "select"

ImplementsQueue == Queue!QSpec

-----------------------------------------------------------------------------
(* What the documents promise and the code does not keep *)

\* README: compilation is suspended "instantly" when a game comes to the
\* foreground: when suspend() has returned, its interruption has been taken
\* and its killall has been carried out, no compile command is running.
SuspendedMeansStopped ==
  suspended /\ suspender = "idle" /\ ~aborted /\ kills = 0 => ~Compiling

\* README: the cleanup frees the cores "without losing queue progress": a
\* package whose compile was killed is not settled by that.
KilledIsRetried ==
  \A p \in Package : outcome[p] # "killed"

\* "Resumed compilation.": once the flag is cleared for good the rest of
\* the queue is compiled.
ResumedMeansDone == <>[]~suspended => <>(pc = "done")
=============================================================================
