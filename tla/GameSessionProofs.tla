--------------------------- MODULE GameSessionProofs ---------------------------
(***************************************************************************)
(* The event loop, alone and with the compiler, for every set of packages, *)
(* every number of debounce workers, switches and faults and every queue.  *)
(*                                                                         *)
(* Alone (the specification Spec of GameMonitor): type correctness,        *)
(* cancelled debounces do nothing, and nobody is left suspended when no    *)
(* game is active.  Together (SessionSpec): the two do what each does      *)
(* alone, a compile runs beside a game through three windows only, and the *)
(* compiler waits for nobody.                                              *)
(*                                                                         *)
(* The one thing assumed of the compiler's constants is that the length of *)
(* its queue is a number.                                                  *)
(***************************************************************************)
EXTENDS GameSession, SequenceTheorems, TLAPS

-----------------------------------------------------------------------------
(* The event loop alone *)

\* Reading stays inside what Android has logged.
LEMMA NextLine ==
  ASSUME TypeOK, NEW s \in Stream, Read(s)
  PROVE  log[s][pos[s] + 1] \in Packages
<1>1. log[s] \in Seq(Packages) /\ pos[s] \in Nat
  BY DEF TypeOK
<1>2. pos[s] + 1 \in 1..Len(log[s])
  BY <1>1, LenProperties DEF Read
<1> QED
  BY <1>1, <1>2, ElementOfSeq

\* A step of one task changes no other task's place.
LEMMA PcTyping ==
  ASSUME TypeOK, NEW s \in Stream, NEW step,
         s = "resume" => step \in ResumeStep,
         s = "pause" => step \in PauseStep,
         pc' = [pc EXCEPT ![s] = step]
  PROVE  /\ pc' \in [Stream -> ResumeStep \cup PauseStep]
         /\ pc'["resume"] \in ResumeStep
         /\ pc'["pause"] \in PauseStep
  BY DEF TypeOK, Stream

\* The variables of GameMonitor always have their types.
THEOREM GameMonitorTypeCorrect == Spec => []TypeOK
<1>1. Init => TypeOK
  <2> SUFFICES ASSUME Init PROVE TypeOK
    OBVIOUS
  <2>1. /\ log \in [Stream -> Seq(Packages)]
        /\ pos \in [Stream -> Nat]
    BY DEF Init
  <2>2. /\ pc \in [Stream -> ResumeStep \cup PauseStep]
        /\ pc["resume"] \in ResumeStep /\ pc["pause"] \in PauseStep
    BY DEF Init, Stream, ResumeStep, PauseStep
  <2>3. /\ top \in Packages
        /\ pkg \in [Stream -> Packages]
        /\ cache \in [Packages -> {"unknown", "game", "other"}]
    BY PackageAssumption DEF Init
  <2>4. /\ wpc \in [Workers -> WorkerStep]
        /\ wid \in [Workers -> Nat]
    BY DEF Init, WorkerStep
  <2>5. /\ active \subseteq Packages /\ foreground \in BOOLEAN
        /\ generation \in Nat /\ suspended \in BOOLEAN
        /\ tweaked \in BOOLEAN /\ cancelled \subseteq Workers
        /\ faults \in Nat
    BY DEF Init
  <2> QED
    BY <2>1, <2>2, <2>3, <2>4, <2>5 DEF TypeOK
<1>2. TypeOK /\ [Next]_vars => TypeOK'
  <2> SUFFICES ASSUME TypeOK, [Next]_vars PROVE TypeOK'
    OBVIOUS
  <2>1. ASSUME NEW p \in Packages, Switch(p) PROVE TypeOK'
    <3>1. log' \in [Stream -> Seq(Packages)]
      BY <2>1, AppendProperties DEF Switch, TypeOK
    <3> QED
      BY <2>1, <3>1
      DEF Switch, TypeOK, readerVars, stateVars, workerVars, sharedVars
  <2>2. ASSUME NEW s \in Stream, Reconnect(s) PROVE TypeOK'
    BY <2>2
    DEF Reconnect, Fault, TypeOK, envVars, stateVars, workerVars, sharedVars
  <2>3. ASSUME NEW s \in Stream, Read(s) PROVE TypeOK'
    <3>1. pc' \in [Stream -> ResumeStep \cup PauseStep]
          /\ pc'["resume"] \in ResumeStep /\ pc'["pause"] \in PauseStep
      BY <2>3, PcTyping
      DEF Read, Handle, TypeOK, Stream, ResumeStep, PauseStep
    <3>2. pos' \in [Stream -> Nat] /\ pkg' \in [Stream -> Packages]
      BY <2>3, NextLine DEF Read, TypeOK
    <3>3. cache' \in [Packages -> {"unknown", "game", "other"}]
      BY <2>3 DEF Read, TypeOK
    <3> QED
      BY <2>3, <3>1, <3>2, <3>3
      DEF Read, TypeOK, envVars, stateVars, workerVars, sharedVars
  <2>4. ASSUME NEW s \in Stream, Answer(s) PROVE TypeOK'
    <3>1. \E v \in {"game", "other"} : Classify(s, v)
      BY <2>4 DEF Answer
    <3>2. pc' \in [Stream -> ResumeStep \cup PauseStep]
          /\ pc'["resume"] \in ResumeStep /\ pc'["pause"] \in PauseStep
      BY <3>1, PcTyping
      DEF Classify, Handle, TypeOK, Stream, ResumeStep, PauseStep
    <3>3. cache' \in [Packages -> {"unknown", "game", "other"}]
      BY <3>1 DEF Classify, TypeOK
    <3>4. faults' \in Nat
      BY <2>4 DEF Answer, Fault, TypeOK
    <3> QED
      BY <2>4, <3>2, <3>3, <3>4
      DEF Answer, TypeOK, envVars, stateVars, workerVars, sharedVars
  <2>5. CASE ResumeTask
    <3>1. pc' \in [Stream -> ResumeStep \cup PauseStep]
          /\ pc'["resume"] \in ResumeStep /\ pc'["pause"] \in PauseStep
      BY <2>5, PcTyping
      DEF ResumeTask, ResumeBump, ResumeInsert, ResumeFlag, ResumeSuspend,
          ResumeApply, ResumeApplied, ResumeTo, Stream, ResumeStep
    <3>2. /\ active' \subseteq Packages /\ cancelled' \subseteq Workers
          /\ UNCHANGED <<wpc, wid, pos, pkg, cache, envVars>>
      BY <2>5
      DEF ResumeTask, ResumeBump, ResumeInsert, ResumeFlag, ResumeSuspend,
          ResumeApply, ResumeApplied, TypeOK, Stream, stateVars, workerVars
    <3>3. generation' \in Nat /\ faults' \in Nat
      BY <2>5
      DEF ResumeTask, ResumeBump, ResumeInsert, ResumeFlag, ResumeSuspend,
          ResumeApply, ResumeApplied, Fault, TypeOK, stateVars
    <3>4. foreground' \in BOOLEAN
      BY <2>5
      DEF ResumeTask, ResumeBump, ResumeInsert, ResumeFlag, ResumeSuspend,
          ResumeApply, ResumeApplied, TypeOK, stateVars
    <3>5. suspended' \in BOOLEAN /\ tweaked' \in BOOLEAN
      BY <2>5
      DEF ResumeTask, ResumeBump, ResumeInsert, ResumeFlag, ResumeSuspend,
          ResumeApply, ResumeApplied, TypeOK, sharedVars
    <3> QED
      BY <3>1, <3>2, <3>3, <3>4, <3>5 DEF TypeOK, envVars
  <2>6. CASE PauseRemove
    <3>1. pc' \in [Stream -> ResumeStep \cup PauseStep]
          /\ pc'["resume"] \in ResumeStep /\ pc'["pause"] \in PauseStep
      BY <2>6, PcTyping DEF PauseRemove, Stream, PauseStep
    <3> QED
      BY <2>6, <3>1 DEF PauseRemove, TypeOK, envVars, workerVars, sharedVars
  <2>7. CASE PauseBump
    <3>1. pc' \in [Stream -> ResumeStep \cup PauseStep]
          /\ pc'["resume"] \in ResumeStep /\ pc'["pause"] \in PauseStep
      BY <2>7, PcTyping DEF PauseBump, PauseSpawn, Stream, PauseStep
    <3>2. wpc' \in [Workers -> WorkerStep] /\ wid' \in [Workers -> Nat]
          /\ cancelled' \subseteq Workers
      BY <2>7 DEF PauseBump, PauseSpawn, Spawn, TypeOK, WorkerStep
    <3> QED
      BY <2>7, <3>1, <3>2
      DEF PauseBump, PauseSpawn, TypeOK, envVars, sharedVars
  <2>8. ASSUME NEW w \in Workers, Worker(w) PROVE TypeOK'
    <3>1. wpc' \in [Workers -> WorkerStep]
      BY <2>8
      DEF Worker, Wakeup, Wakes, WorkerCheck, WorkerClear, WorkerResume,
          WorkerRestore, WorkerRestored, WorkerTo, WorkerStep, TypeOK
    <3>2. foreground' \in BOOLEAN
      BY <2>8
      DEF Worker, Wakeup, Wakes, WorkerCheck, WorkerClear, WorkerResume,
          WorkerRestore, WorkerRestored, TypeOK, stateVars
    <3>3. suspended' \in BOOLEAN /\ tweaked' \in BOOLEAN
      BY <2>8
      DEF Worker, Wakeup, Wakes, WorkerCheck, WorkerClear, WorkerResume,
          WorkerRestore, WorkerRestored, TypeOK, sharedVars
    <3>4. faults' \in Nat
      BY <2>8
      DEF Worker, Wakeup, Wakes, WorkerCheck, WorkerClear, WorkerResume,
          WorkerRestore, WorkerRestored, Fault, TypeOK
    <3>5. UNCHANGED <<wid, cancelled, active, generation>>
      BY <2>8
      DEF Worker, Wakeup, Wakes, WorkerCheck, WorkerClear, WorkerResume,
          WorkerRestore, WorkerRestored, stateVars
    <3>6. UNCHANGED <<envVars, readerVars>>
      BY <2>8
      DEF Worker, Wakeup, Wakes, WorkerCheck, WorkerClear, WorkerResume,
          WorkerRestore, WorkerRestored
    <3> QED
      BY <3>1, <3>2, <3>3, <3>4, <3>5, <3>6 DEF TypeOK, envVars, readerVars
  <2>9. CASE UNCHANGED vars
    BY <2>9
    DEF vars, TypeOK, envVars, readerVars, stateVars, workerVars, sharedVars
  <2> QED
    BY <2>1, <2>2, <2>3, <2>4, <2>5, <2>6, <2>7, <2>8, <2>9 DEF Next, PauseTask
<1> QED
  BY <1>1, <1>2, PTL DEF Spec
-----------------------------------------------------------------------------
(* Cancelled debounces *)

\* Generation ids are handed out in order, and a cancelled worker that is
\* still asleep holds an old one.
DebounceInv ==
  /\ \A w \in Workers : wpc[w] # "idle" => wid[w] <= generation
  /\ \A w \in cancelled : wpc[w] = "sleep" => wid[w] < generation
  /\ CancelledDoNothing

LEMMA DebouncesOrdered == Spec => []DebounceInv
<1>1. Init => DebounceInv
  BY DEF Init, DebounceInv, CancelledDoNothing
<1>2. TypeOK /\ DebounceInv /\ [Next]_vars => DebounceInv'
  <2> SUFFICES ASSUME TypeOK, DebounceInv, [Next]_vars PROVE DebounceInv'
    OBVIOUS
  <2> USE DEF DebounceInv, CancelledDoNothing
  <2>1. CASE ResumeBump
    <3>1. /\ generation' = generation + 1 /\ generation \in Nat
          /\ wid \in [Workers -> Nat]
          /\ wpc' = wpc /\ wid' = wid
      BY <2>1 DEF ResumeBump, TypeOK
    <3>2. cancelled' = {w \in Workers : wpc[w] = "sleep"}
      BY <2>1 DEF ResumeBump
    <3> QED
      BY <3>1, <3>2
  <2>2. CASE PauseBump
    <3>1. PICK v \in Workers : Spawn(v, generation + 1)
      BY <2>2 DEF PauseBump, PauseSpawn
    <3>2. generation' = generation + 1 /\ generation \in Nat
      BY <2>2 DEF PauseBump, PauseSpawn, TypeOK
    <3>3. /\ wpc' = [wpc EXCEPT ![v] = "sleep"]
          /\ wid' = [wid EXCEPT ![v] = generation + 1]
          /\ cancelled' = cancelled \ {v}
      BY <3>1 DEF Spawn
    <3> QED
      BY <3>2, <3>3 DEF TypeOK
  <2>3. ASSUME NEW v \in Workers, Wakeup(v) PROVE DebounceInv'
    BY <2>3 DEF Wakeup, Wakes, WorkerTo, stateVars, TypeOK, WorkerStep
  <2>4. ASSUME NEW v \in Workers, Worker(v), ~Wakeup(v) PROVE DebounceInv'
    <3>1. /\ wpc[v] \notin {"idle", "sleep"}
          /\ \E step \in WorkerStep : step # "sleep" /\ WorkerTo(v, step)
      BY <2>4
      DEF Worker, WorkerCheck, WorkerClear, WorkerResume, WorkerRestore,
          WorkerRestored, WorkerStep
    <3>2. UNCHANGED <<generation, wid, cancelled>>
      BY <2>4
      DEF Worker, WorkerCheck, WorkerClear, WorkerResume, WorkerRestore,
          WorkerRestored, stateVars
    <3> QED
      BY <3>1, <3>2 DEF WorkerTo, TypeOK
  <2>5. CASE UNCHANGED <<generation, workerVars>>
    BY <2>5 DEF workerVars
  <2> QED
    BY <2>1, <2>2, <2>3, <2>4, <2>5
    DEF Next, Switch, Reconnect, Read, Answer, ResumeTask, ResumeInsert,
        ResumeFlag, ResumeSuspend, ResumeApply, ResumeApplied, PauseTask,
        PauseRemove, vars, stateVars
<1> QED
  BY <1>1, <1>2, GameMonitorTypeCorrect, PTL DEF Spec

\* Whatever the interleaving, a debounce that was pending when a game resumed
\* never clears the flag, resumes the compiler or restores the system.
THEOREM CancelledStaysCancelled == Spec => []CancelledDoNothing
<1>1. DebounceInv => CancelledDoNothing
  BY DEF DebounceInv
<1> QED
  BY <1>1, DebouncesOrdered, PTL

\* A sleeper that wakes up in the middle of a handler has been superseded by
\* it.
LEMMA WakesInTime ==
  ASSUME TypeOK, DebounceInv, NEW w \in Workers, Wakeup(w)
  PROVE  generation = wid[w] => HandlerThrough
<1>1. wpc[w] = "sleep" /\ (w \in cancelled \/ HandlerThrough)
  BY DEF Wakeup, Wakes, SleepOutlastsHandler
<1>2. CASE w \in cancelled
  BY <1>1, <1>2 DEF DebounceInv, TypeOK
<1> QED
  BY <1>1, <1>2

-----------------------------------------------------------------------------
(* Nobody is left suspended *)

Awake == {"check", "clear", "resume"}

\* The compiler is suspended, or the resume task is about to suspend it.
Owed == suspended \/ foreground \/ pc["resume"] \in {"flag", "suspend"}

\* Somebody holds the debt: an active game, the task that is inserting one or
\* starting a worker, or a worker nothing has superseded.
Held ==
  \/ active # {}
  \/ pc["resume"] = "insert"
  \/ pc["pause"] = "bump"
  \/ \E w \in Workers : wid[w] = generation /\ wpc[w] \in Awake \cup {"sleep"}

QuietInv ==
  /\ Owed => Held
  /\ \A w \in Workers : wid[w] = generation /\ wpc[w] \in Awake =>
       /\ HandlerThrough
       /\ wpc[w] = "resume" => ~foreground

\* When all is at rest and no game is active the compiler runs: each handler
\* that suspends it leaves a game in active_games, the pause that removes the
\* last one starts a worker, and only a resume or a pause that takes over the
\* debt supersedes that worker.
THEOREM NobodyLeftSuspended == Spec => []QuietWhenNoGame
<1>1. Init => QuietInv
  BY DEF Init, QuietInv, Owed, Awake, Stream
<1>2. TypeOK /\ DebounceInv /\ QuietInv /\ [Next]_vars => QuietInv'
  <2> SUFFICES ASSUME TypeOK, DebounceInv, QuietInv, [Next]_vars
               PROVE  QuietInv'
    OBVIOUS
  <2>a. \A step : /\ [pc EXCEPT !["resume"] = step]["resume"] = step
                  /\ [pc EXCEPT !["resume"] = step]["pause"] = pc["pause"]
                  /\ [pc EXCEPT !["pause"] = step]["pause"] = step
                  /\ [pc EXCEPT !["pause"] = step]["resume"] = pc["resume"]
    BY DEF TypeOK, Stream
  <2>b. \A w \in Workers : wpc[w] \in Awake => wid[w] # generation + 1
    <3>1. \A w \in Workers : wpc[w] \in Awake => wid[w] <= generation
      BY DEF DebounceInv, Awake
    <3>2. generation \in Nat /\ \A w \in Workers : wid[w] \in Nat
      BY DEF TypeOK
    <3> QED
      BY ONLY <3>1, <3>2
  <2>c. ASSUME NEW v \in Workers, Wakeup(v)
        PROVE  generation = wid[v] => HandlerThrough
    BY <2>c, WakesInTime
  <2> USE DEF QuietInv, Owed, Held, HandlerThrough
  <2>1. CASE ResumeBump
    <3>1. \A w \in Workers : wpc[w] \in Awake => wid[w] # generation'
      BY <2>b, <2>1 DEF ResumeBump
    <3>2. pc'["resume"] = "insert"
      BY ONLY <2>a, <2>1 DEF ResumeBump, ResumeTo
    <3>3. wpc' = wpc /\ wid' = wid
      BY ONLY <2>1 DEF ResumeBump
    <3>4. Held'
      BY <3>2
    <3> QED
      BY <3>1, <3>3, <3>4
  <2>2. CASE ResumeInsert
    BY <2>a, <2>2 DEF ResumeInsert, ResumeTo, sharedVars, workerVars
  <2>3. CASE ResumeFlag
    BY <2>a, <2>3 DEF ResumeFlag, ResumeTo, sharedVars, workerVars
  <2>4. CASE ResumeSuspend
    BY <2>a, <2>4 DEF ResumeSuspend, ResumeTo, stateVars, workerVars
  <2>5. CASE PauseRemove
    BY <2>a, <2>5 DEF PauseRemove, sharedVars, workerVars
  <2>6. CASE PauseBump
    <3>1. PICK v \in Workers : Spawn(v, generation + 1)
      BY <2>6 DEF PauseBump, PauseSpawn
    <3>2. /\ generation' = generation + 1 /\ generation \in Nat
          /\ wpc'[v] = "sleep" /\ wid'[v] = generation'
          /\ \A w \in Workers \ {v} : wpc'[w] = wpc[w] /\ wid'[w] = wid[w]
      BY <2>6, <3>1 DEF PauseBump, PauseSpawn, Spawn, TypeOK
    <3>3. \A w \in Workers : wpc'[w] \in Awake => wid'[w] # generation'
      BY <2>b, <3>2 DEF Awake
    <3>4. \E w \in Workers :
            wid'[w] = generation' /\ wpc'[w] \in Awake \cup {"sleep"}
      BY ONLY <3>2, v \in Workers
    <3> QED
      BY <3>3, <3>4
  <2>7. ASSUME NEW v \in Workers, Wakeup(v) PROVE QuietInv'
    <3>1. \A w \in Workers : wpc'[w] = IF w # v THEN wpc[w]
            ELSE IF generation = wid[v] THEN "check" ELSE "idle"
      BY <2>7 DEF Wakeup, Wakes, WorkerTo, TypeOK
    <3>2. generation = wid[v] => HandlerThrough
      BY <2>7, <2>c
    <3>3. UNCHANGED <<pc, active, foreground, generation, suspended, wid>>
      BY <2>7 DEF Wakeup, Wakes, readerVars, stateVars, sharedVars
    <3> QED
      BY <3>1, <3>2, <3>3 DEF Awake
  <2>8. ASSUME NEW v \in Workers, WorkerCheck(v) PROVE QuietInv'
    <3>1. \A w \in Workers : wpc'[w] = IF w # v THEN wpc[w]
            ELSE IF active # {} THEN "idle" ELSE "clear"
      BY <2>8 DEF WorkerCheck, WorkerTo, TypeOK
    <3>2. wpc[v] = "check"
          /\ UNCHANGED <<pc, active, foreground, generation, suspended, wid>>
      BY <2>8 DEF WorkerCheck, readerVars, stateVars, sharedVars
    <3> QED
      BY <3>1, <3>2 DEF Awake
  <2>9. ASSUME NEW v \in Workers, WorkerClear(v) PROVE QuietInv'
    <3>1. \A w \in Workers : wpc'[w] = IF w # v THEN wpc[w] ELSE "resume"
      BY <2>9 DEF WorkerClear, WorkerTo, TypeOK
    <3>2. wpc[v] = "clear" /\ foreground' = FALSE
          /\ UNCHANGED <<pc, active, generation, suspended, wid>>
      BY <2>9 DEF WorkerClear, readerVars, sharedVars
    <3> QED
      BY <3>1, <3>2 DEF Awake
  <2>10. ASSUME NEW v \in Workers, WorkerResume(v) PROVE QuietInv'
    <3>1. \A w \in Workers : wpc'[w] = IF w # v THEN wpc[w] ELSE "restore"
      BY <2>10 DEF WorkerResume, WorkerTo, TypeOK
    <3>2. wpc[v] = "resume" /\ suspended' = FALSE
          /\ UNCHANGED <<pc, active, foreground, generation, wid>>
      BY <2>10 DEF WorkerResume, readerVars, stateVars
    <3> QED
      BY <3>1, <3>2 DEF Awake
  <2>11. ASSUME NEW v \in Workers, WorkerRestore(v) \/ WorkerRestored(v)
         PROVE  QuietInv'
    <3>1. /\ wpc[v] \in {"restore", "restoring"}
          /\ \E step \in {"restoring", "idle"} :
               \A w \in Workers : wpc'[w] = IF w # v THEN wpc[w] ELSE step
      BY <2>11 DEF WorkerRestore, WorkerRestored, WorkerTo, TypeOK
    <3>2. UNCHANGED <<pc, active, foreground, generation, suspended, wid>>
      BY <2>11
      DEF WorkerRestore, WorkerRestored, readerVars, stateVars, sharedVars
    <3> QED
      BY <3>1, <3>2 DEF Awake
  <2>12. ASSUME UNCHANGED <<suspended, stateVars, workerVars>>,
                pc'["pause"] = pc["pause"] \/ pc["pause"] # "bump",
                \/ pc'["resume"] = pc["resume"]
                \/ /\ pc["resume"] \notin {"insert", "flag", "suspend"}
                   /\ pc'["resume"] \notin {"insert", "flag", "suspend"}
         PROVE  QuietInv'
    BY <2>12 DEF stateVars, workerVars
  <2>13. CASE \/ \E p \in Packages : Switch(p)
              \/ \E s \in Stream : Reconnect(s)
              \/ UNCHANGED vars
    BY <2>12, <2>13 DEF Switch, Reconnect, readerVars, sharedVars, vars
  <2>14. CASE ResumeApply \/ ResumeApplied
    BY <2>a, <2>12, <2>14 DEF ResumeApply, ResumeApplied, ResumeTo, sharedVars
  <2>15. ASSUME NEW s \in Stream, Read(s) \/ Answer(s) PROVE QuietInv'
    <3>1. pc[s] \in {"read", "query"}
          /\ UNCHANGED <<suspended, stateVars, workerVars>>
      BY <2>15 DEF Read, Answer, sharedVars
    <3>2. \E step \in {"read", "query", Handle(s)} :
            pc' = [pc EXCEPT ![s] = step]
      <4>1. pc = [pc EXCEPT ![s] = pc[s]]
        BY DEF TypeOK
      <4> QED
        BY <2>15, <4>1 DEF Read, Answer, Classify
    <3> QED
      BY <2>a, <2>12, <3>1, <3>2 DEF Handle, Stream
  <2> QED
    BY <2>1, <2>2, <2>3, <2>4, <2>5, <2>6, <2>7, <2>8, <2>9, <2>10, <2>11,
       <2>13, <2>14, <2>15
    DEF Next, ResumeTask, PauseTask, Worker
<1>3. TypeOK /\ QuietInv => QuietWhenNoGame
  BY DEF TypeOK, QuietInv, Owed, Held, Awake, QuietWhenNoGame, AtRest
<1> QED
  BY <1>1, <1>2, <1>3, GameMonitorTypeCorrect, DebouncesOrdered, PTL DEF Spec

-----------------------------------------------------------------------------
(* The session is an event loop *)

\* A step of the session is a step of its event loop or leaves it alone.
LEMMA MonitorStep ==
  ASSUME [SessionNext]_sessionVars
  PROVE  [Next]_vars
<1> USE DEF vars, monitorVars, sharedVars
<1>1. CASE User \/ PauseHandler
  BY <1>1 DEF User, PauseHandler, Alone, Next
<1>2. ASSUME NEW s \in Stream, Logcat(s) \/ Reader(s)
      PROVE  Reconnect(s) \/ Read(s) \/ Answer(s)
  BY <1>2 DEF Logcat, Reader, Alone
<1>3. CASE ResumeHandler
  BY <1>3
  DEF ResumeHandler, Alone, Suspend, SuspendReturns, Compiler!SuspendNotify,
      Compiler!Notify,
      ResumeTask, Next
<1>4. ASSUME NEW w \in Workers, Debounce(w)
      PROVE  Worker(w) \/ UNCHANGED vars
  BY <1>4
  DEF Debounce, Alone, Resume, ResumeReturns, Returns, Compiler!NotifyWorker,
      Worker
<1>5. CASE CompileTask
  BY <1>5
  DEF CompileTask, Compiler!Worker, Compiler!CheckSuspended, Compiler!Check,
      Compiler!Park, Compiler!Wake, Compiler!ArmAbort, Compiler!StartCompile,
      Compiler!CompileReturned, Compiler!Returned, Compiler!Interrupted,
      Compiler!Interrupt, Compiler!handleVars
<1>6. CASE Device
  BY <1>6
  DEF Device, Compiler!CompileEnds, Compiler!StrayEnds, Compiler!KillLands,
      Compiler!handleVars
<1>7. CASE UNCHANGED sessionVars
  BY <1>7 DEF sessionVars
<1> QED
  BY <1>1, <1>2, <1>3, <1>4, <1>5, <1>6, <1>7 DEF SessionNext, Next

\* The event loop does in the session what it does alone: whatever is proved
\* of GameMonitor holds beside the compiler.
THEOREM SessionRunsMonitor == SessionSpec => Spec
<1>1. SessionInit => Init
  BY DEF SessionInit
<1> QED
  BY <1>1, MonitorStep, PTL DEF SessionSpec, Spec

-----------------------------------------------------------------------------
(* The session is a compiler *)

\* What the event loop does beside the two calls leaves the flag alone.
LEMMA AloneKeepsFlag ==
  ASSUME \/ ResumeBump \/ ResumeInsert \/ ResumeFlag \/ ResumeApply
         \/ ResumeApplied \/ PauseTask
         \/ \E p \in Packages : Switch(p)
         \/ \E s \in Stream : Reconnect(s) \/ Read(s) \/ Answer(s)
         \/ \E w \in Workers :
              \/ Wakeup(w) \/ WorkerCheck(w) \/ WorkerClear(w)
              \/ WorkerRestore(w) \/ WorkerRestored(w)
  PROVE  UNCHANGED suspended
  BY
  DEF ResumeBump, ResumeInsert, ResumeFlag, ResumeApply, ResumeApplied,
      PauseTask, PauseRemove, PauseBump, PauseSpawn, Switch, Reconnect, Read,
      Answer, Wakeup, Wakes, WorkerCheck, WorkerClear, WorkerRestore,
      WorkerRestored, sharedVars

\* A step of the session is a step of its compiler or leaves it alone.
LEMMA CompilerStep ==
  ASSUME [SessionNext]_sessionVars
  PROVE  [Compiler!Next]_Compiler!vars
<1> USE DEF Compiler!vars, compilerVars
<1>1. CASE UNCHANGED <<suspended, compilerVars>>
  BY <1>1
<1>2. CASE Suspend
  BY <1>2 DEF Suspend, Compiler!Next
<1>3. CASE SuspendReturns
  BY <1>3 DEF SuspendReturns, Compiler!Next
<1>4. ASSUME NEW w \in Workers, Resume(w) \/ ResumeReturns(w)
      PROVE  Compiler!Resume(w)
  BY <1>4 DEF Resume, ResumeReturns, Returns, Compiler!Resume
<1>5. CASE CompileTask
  BY <1>5 DEF CompileTask, Compiler!Next
<1>6. CASE Device
  BY <1>6 DEF Device, Compiler!Next
<1> QED
  BY <1>1, <1>2, <1>3, <1>4, <1>5, <1>6, AloneKeepsFlag
  DEF SessionNext, sessionVars, User, Logcat, Reader, Alone, ResumeHandler,
      PauseHandler, Debounce, Compiler!Next

\* So does the compiler: whatever its safety properties are, they hold beside
\* the event loop.
THEOREM SessionRunsCompiler == SessionSpec => Compiler!Spec
<1>1. SessionInit => Compiler!Init
  BY DEF SessionInit
<1> QED
  BY <1>1, CompilerStep, PTL DEF SessionSpec, Compiler!Spec

-----------------------------------------------------------------------------
(* The compiler stays suspended *)

\* Past the load of the flag there is a package at idx.
InQueue == cpc \notin {"check", "done"} => idx <= QueueLen

\* The compiler's variables have their types, for every queue.
LEMMA CompilerTyped ==
  ASSUME QueueLen \in Nat
  PROVE  Compiler!Spec => [](Compiler!TypeOK /\ InQueue)
<1> USE DEF Compiler!TypeOK, InQueue, Compiler!Package, Compiler!Ended
<1>1. Compiler!Init => Compiler!TypeOK /\ InQueue
  <2> SUFFICES ASSUME Compiler!Init PROVE Compiler!TypeOK /\ InQueue
    OBVIOUS
  <2>1. /\ outcome \in [Compiler!Package -> Compiler!Ended \cup {"pending"}]
        /\ resumer \in [Workers -> {"idle", "stored"}]
    BY DEF Compiler!Init
  <2>2. idx \in 1..(QueueLen + 1) /\ InQueue
    BY DEF Compiler!Init
  <2>3. /\ compiled \in Nat /\ kills \in Nat /\ lateStarts \in Nat
        /\ suspended \in BOOLEAN /\ wakeup \in BOOLEAN /\ aborted \in BOOLEAN
        /\ suspender \in {"idle", "stored"}
    BY DEF Compiler!Init
  <2>4. /\ cpc \in {"check", "park", "parked", "begin", "poll", "select", "done"}
        /\ cmd \in Compiler!Ended \cup {"none", "running"}
        /\ strays \subseteq Compiler!Package
    BY DEF Compiler!Init
  <2> QED
    BY <2>1, <2>2, <2>3, <2>4
<1>2. Compiler!TypeOK /\ InQueue /\ [Compiler!Next]_Compiler!vars
        => Compiler!TypeOK' /\ InQueue'
  <2> SUFFICES ASSUME Compiler!TypeOK, InQueue, [Compiler!Next]_Compiler!vars
               PROVE  Compiler!TypeOK' /\ InQueue'
    OBVIOUS
  <2>1. CASE Compiler!CheckSuspended
    BY <2>1 DEF Compiler!CheckSuspended, Compiler!Check, Compiler!handleVars
  <2>2. CASE Compiler!Park \/ Compiler!Wake
    BY <2>2 DEF Compiler!Park, Compiler!Wake, Compiler!handleVars
  <2>3. CASE Compiler!ArmAbort
    BY <2>3 DEF Compiler!ArmAbort, Compiler!handleVars
  <2>4. CASE Compiler!StartCompile
    BY <2>4 DEF Compiler!StartCompile, Compiler!handleVars
  <2>5. CASE Compiler!CompileReturned
    <3>1. outcome' \in [Compiler!Package -> Compiler!Ended \cup {"pending"}]
      BY <2>5 DEF Compiler!CompileReturned, Compiler!Returned
    <3>2. idx' \in 1..(QueueLen + 1) /\ compiled' \in Nat
      BY <2>5 DEF Compiler!CompileReturned, Compiler!Returned
    <3> QED
      BY <2>5, <3>1, <3>2
      DEF Compiler!CompileReturned, Compiler!Returned, Compiler!handleVars
  <2>6. CASE Compiler!Interrupted
    <3>1. idx \in Compiler!Package
      BY <2>6 DEF Compiler!Interrupted, Compiler!Interrupt
    <3>2. strays' \subseteq Compiler!Package
      BY <2>6, <3>1 DEF Compiler!Interrupted, Compiler!Interrupt
    <3> QED
      BY <2>6, <3>2
      DEF Compiler!Interrupted, Compiler!Interrupt, Compiler!handleVars
  <2>7. CASE Compiler!SuspendStore
    BY <2>7 DEF Compiler!SuspendStore, Compiler!workerVars
  <2>8. CASE Compiler!SuspendNotify
    BY <2>8 DEF Compiler!SuspendNotify, Compiler!Notify
  <2>9. ASSUME NEW r \in Workers, Compiler!Resume(r)
        PROVE  Compiler!TypeOK' /\ InQueue'
    <3>1. resumer' \in [Workers -> {"idle", "stored"}]
      BY <2>9 DEF Compiler!Resume, Compiler!EnterResume, Compiler!LeaveResume
    <3>2. CASE Compiler!ClearFlag
      BY <3>1, <3>2 DEF Compiler!ClearFlag
    <3>3. CASE Compiler!NotifyWorker
      BY <3>1, <3>3 DEF Compiler!NotifyWorker
    <3> QED
      BY <2>9, <3>2, <3>3 DEF Compiler!Resume
  <2>10. CASE Compiler!CompileEnds
    BY <2>10 DEF Compiler!CompileEnds, Compiler!handleVars
  <2>11. CASE Compiler!KillLands
    BY <2>11 DEF Compiler!KillLands
  <2>12. ASSUME NEW p \in Compiler!Package, Compiler!StrayEnds(p)
         PROVE  Compiler!TypeOK' /\ InQueue'
    BY <2>12 DEF Compiler!StrayEnds, Compiler!handleVars
  <2>13. CASE UNCHANGED Compiler!vars
    BY <2>13 DEF Compiler!vars
  <2> QED
    BY <2>1, <2>2, <2>3, <2>4, <2>5, <2>6, <2>7, <2>8, <2>9, <2>10, <2>11,
       <2>12, <2>13
    DEF Compiler!Next, Compiler!Worker
<1> QED
  BY <1>1, <1>2, PTL DEF Compiler!Spec

\* A compile that runs while the flag is up is the one late start, or its
\* interruption is on its way.
StoppedInv ==
  /\ lateStarts <= 1
  /\ ~suspended => lateStarts = 0
  /\ cpc \in {"begin", "poll"} => lateStarts = 0
  /\ cmd # "none" => cpc = "select"
  /\ cmd = "running" /\ suspended =>
       lateStarts = 1 \/ suspender = "stored" \/ aborted

\* However suspend(), resume(), the worker and the device interleave.
LEMMA CompilerStopped ==
  ASSUME QueueLen \in Nat
  PROVE  Compiler!Spec => []StoppedInv
<1>1. Compiler!Init => StoppedInv
  BY DEF Compiler!Init, StoppedInv
<1>2. Compiler!TypeOK /\ StoppedInv /\ [Compiler!Next]_Compiler!vars
        => StoppedInv'
  <2> SUFFICES ASSUME Compiler!TypeOK, StoppedInv,
                      [Compiler!Next]_Compiler!vars
               PROVE  StoppedInv'
    OBVIOUS
  <2> USE DEF StoppedInv, Compiler!TypeOK, Compiler!Ended
  <2>1. CASE Compiler!CheckSuspended \/ Compiler!Park \/ Compiler!Wake
    BY <2>1
    DEF Compiler!CheckSuspended, Compiler!Check, Compiler!Park, Compiler!Wake,
        Compiler!handleVars
  <2>2. CASE Compiler!ArmAbort \/ Compiler!StartCompile
    BY <2>2
    DEF Compiler!ArmAbort, Compiler!StartCompile, Compiler!handleVars
  <2>3. CASE Compiler!CompileReturned \/ Compiler!Interrupted
    BY <2>3
    DEF Compiler!CompileReturned, Compiler!Returned, Compiler!Interrupted,
        Compiler!Interrupt, Compiler!handleVars
  <2>4. CASE Compiler!SuspendStore \/ Compiler!SuspendNotify
    BY <2>4
    DEF Compiler!SuspendStore, Compiler!SuspendNotify, Compiler!Notify,
        Compiler!workerVars
  <2>5. ASSUME NEW r \in Workers, Compiler!Resume(r) PROVE StoppedInv'
    BY <2>5
    DEF Compiler!Resume, Compiler!EnterResume, Compiler!LeaveResume,
        Compiler!ClearFlag, Compiler!NotifyWorker
  <2>6. CASE \/ Compiler!CompileEnds \/ Compiler!KillLands
             \/ \E p \in Compiler!Package : Compiler!StrayEnds(p)
    BY <2>6
    DEF Compiler!CompileEnds, Compiler!StrayEnds, Compiler!KillLands,
        Compiler!handleVars
  <2>7. CASE UNCHANGED Compiler!vars
    BY <2>7 DEF Compiler!vars
  <2> QED
    BY <2>1, <2>2, <2>3, <2>4, <2>5, <2>6, <2>7
    DEF Compiler!Next, Compiler!Worker
<1> QED
  BY <1>1, <1>2, CompilerTyped, PTL DEF Compiler!Spec

-----------------------------------------------------------------------------
(* A game leaves the flag up *)

\* The debounce worker that nothing has superseded, between its first check
\* and its resume().
Current(w) == wid[w] = generation /\ wpc[w] \in Awake

\* It meets no resume half handled, and no game once it has looked for one.
CurrentInv ==
  \A w \in Workers : Current(w) =>
    /\ HandlerThrough
    /\ wpc[w] # "check" => active = {}

\* A resume takes a new generation before it inserts its game, and no sleep
\* ends while it does.
LEMMA CurrentAlone == Spec => []CurrentInv
<1>1. Init => CurrentInv
  BY DEF Init, CurrentInv, Current, Awake
<1>2. TypeOK /\ DebounceInv /\ CurrentInv /\ [Next]_vars => CurrentInv'
  <2> SUFFICES ASSUME TypeOK, DebounceInv, CurrentInv, [Next]_vars
               PROVE  CurrentInv'
    OBVIOUS
  <2>a. \A step : /\ [pc EXCEPT !["resume"] = step]["resume"] = step
                  /\ [pc EXCEPT !["pause"] = step]["resume"] = pc["resume"]
    BY DEF TypeOK, Stream
  <2>b. \A w \in Workers : wpc[w] \in Awake => wid[w] # generation + 1
    <3>1. \A w \in Workers : wpc[w] \in Awake => wid[w] <= generation
      BY DEF DebounceInv, Awake
    <3>2. generation \in Nat /\ \A w \in Workers : wid[w] \in Nat
      BY DEF TypeOK
    <3> QED
      BY ONLY <3>1, <3>2
  <2> USE DEF CurrentInv, Current, HandlerThrough
  <2>1. CASE ResumeBump
    BY <2>b, <2>1 DEF ResumeBump
  <2>2. CASE ResumeInsert \/ ResumeFlag \/ ResumeSuspend
    BY <2>a, <2>2 DEF ResumeInsert, ResumeFlag, ResumeSuspend, ResumeTo,
                      stateVars, workerVars
  <2>3. CASE PauseRemove
    BY <2>a, <2>3 DEF PauseRemove, workerVars
  <2>4. CASE PauseBump
    <3>1. PICK v \in Workers : Spawn(v, generation + 1)
      BY <2>4 DEF PauseBump, PauseSpawn
    <3>2. /\ generation' = generation + 1 /\ wpc'[v] = "sleep"
          /\ \A w \in Workers \ {v} : wpc'[w] = wpc[w] /\ wid'[w] = wid[w]
      BY <2>4, <3>1 DEF PauseBump, PauseSpawn, Spawn, TypeOK
    <3> QED
      BY <2>b, <3>2 DEF Awake
  <2>5. ASSUME NEW v \in Workers, Worker(v) PROVE CurrentInv'
    <3>1. \A w \in Workers \ {v} : wpc'[w] = wpc[w]
      BY <2>5
      DEF Worker, Wakeup, Wakes, WorkerCheck, WorkerClear, WorkerResume,
          WorkerRestore, WorkerRestored, WorkerTo, TypeOK
    <3>2. UNCHANGED <<pc, active, generation, wid>>
      BY <2>5
      DEF Worker, Wakeup, Wakes, WorkerCheck, WorkerClear, WorkerResume,
          WorkerRestore, WorkerRestored, readerVars, stateVars
    <3>3. \/ wpc'[v] \notin Awake
          \/ HandlerThrough /\ wpc'[v] = "check"
          \/ wpc[v] = "check" /\ active = {}
          \/ wpc[v] = "clear"
      <4>1. CASE Wakeup(v)
        <5>1. generation = wid[v] => HandlerThrough
          BY <4>1, WakesInTime
        <5>2. wpc'[v] = IF generation = wid[v] THEN "check" ELSE "idle"
          BY <4>1 DEF Wakeup, Wakes, WorkerTo, TypeOK
        <5> QED
          BY <5>1, <5>2 DEF Awake
      <4>2. CASE ~Wakeup(v)
        BY <2>5, <4>2
        DEF Worker, WorkerCheck, WorkerClear, WorkerResume, WorkerRestore,
            WorkerRestored, WorkerTo, TypeOK, Awake
      <4> QED
        BY <4>1, <4>2
    <3> QED
      BY <3>1, <3>2, <3>3 DEF Awake
  <2>6. ASSUME UNCHANGED <<active, generation, wpc, wid>>,
               \/ pc'["resume"] = pc["resume"]
               \/ pc'["resume"] \notin {"insert", "flag", "suspend"}
        PROVE  CurrentInv'
    BY <2>6
  <2>7. CASE \/ \E p \in Packages : Switch(p)
             \/ \E s \in Stream : Reconnect(s)
             \/ UNCHANGED vars
    BY <2>6, <2>7
    DEF Switch, Reconnect, readerVars, stateVars, workerVars, vars
  <2>8. CASE ResumeApply \/ ResumeApplied
    BY <2>a, <2>6, <2>8
    DEF ResumeApply, ResumeApplied, ResumeTo, stateVars, workerVars
  <2>9. ASSUME NEW s \in Stream, Read(s) \/ Answer(s) PROVE CurrentInv'
    <3>1. \E step \in {"read", "query", Handle(s)} :
            pc' = [pc EXCEPT ![s] = step]
      <4>1. pc = [pc EXCEPT ![s] = pc[s]]
        BY DEF TypeOK
      <4> QED
        BY <2>9, <4>1 DEF Read, Answer, Classify
    <3> QED
      BY <2>a, <2>6, <2>9, <3>1
      DEF Read, Answer, Handle, Stream, stateVars, workerVars
  <2> QED
    BY <2>1, <2>2, <2>3, <2>4, <2>5, <2>7, <2>8, <2>9
    DEF Next, ResumeTask, PauseTask
<1> QED
  BY <1>1, <1>2, GameMonitorTypeCorrect, DebouncesOrdered, PTL DEF Spec

\* With a game active the flag is up, or about to be raised, or was cleared by
\* a worker superseded on its way.
FlagInv ==
  active # {} => suspended \/ raced \/ pc["resume"] \in {"flag", "suspend"}

\* The flag and its history change together.
LEMMA WhoTouchesFlag ==
  ASSUME [SessionNext]_sessionVars
  PROVE  \/ ResumeSuspend
         \/ \E w \in Workers : WorkerResume(w) /\ raced' = (generation # wid[w])
         \/ UNCHANGED <<suspended, raced>>
<1> USE DEF sessionVars, historyVars
<1>1. CASE Suspend
  BY <1>1 DEF Suspend
<1>2. ASSUME NEW w \in Workers, Resume(w)
      PROVE  WorkerResume(w) /\ raced' = (generation # wid[w])
  BY <1>2 DEF Resume
<1>3. ASSUME \/ SuspendReturns \/ CompileTask \/ Device
             \/ \E w \in Workers : ResumeReturns(w)
      PROVE  UNCHANGED <<suspended, raced>>
  BY <1>3
  DEF SuspendReturns, CompileTask, Device, ResumeReturns, Returns,
      Compiler!SuspendNotify, Compiler!Notify, Compiler!NotifyWorker,
      Compiler!CompileEnds,
      Compiler!StrayEnds, Compiler!KillLands, Compiler!handleVars,
      Compiler!Worker,
      Compiler!CheckSuspended, Compiler!Check, Compiler!Park, Compiler!Wake,
      Compiler!ArmAbort, Compiler!StartCompile, Compiler!CompileReturned,
      Compiler!Returned, Compiler!Interrupted, Compiler!Interrupt
<1> QED
  BY <1>1, <1>2, <1>3, AloneKeepsFlag
  DEF SessionNext, User, Logcat, Reader, Alone, ResumeHandler, PauseHandler,
      Debounce

\* A worker nothing has superseded finds no game, so only a superseded one
\* takes the flag away from a game.
LEMMA GameKeepsFlag == SessionSpec => []FlagInv
<1>1. SessionInit => FlagInv
  BY DEF SessionInit, Init, FlagInv
<1>2. TypeOK /\ CurrentInv /\ FlagInv /\ [SessionNext]_sessionVars => FlagInv'
  <2> SUFFICES ASSUME TypeOK, CurrentInv, FlagInv,
                      [SessionNext]_sessionVars
               PROVE  FlagInv'
    OBVIOUS
  <2>a. [Next]_vars
    BY MonitorStep
  <2>1. CASE ResumeSuspend
    BY <2>1 DEF ResumeSuspend, FlagInv
  <2>2. ASSUME NEW w \in Workers, WorkerResume(w), raced' = (generation # wid[w])
        PROVE  FlagInv'
    BY <2>2 DEF WorkerResume, FlagInv, CurrentInv, Current, Awake, readerVars,
                stateVars
  <2>3. CASE UNCHANGED <<suspended, raced>>
    <3>1. ASSUME active' # {}
          PROVE  active # {} \/ pc'["resume"] = "flag"
      BY <2>a, <3>1
      DEF TypeOK, Stream, Next, vars, stateVars, Switch, Reconnect, Read,
          Answer, ResumeTask, ResumeBump, ResumeInsert, ResumeTo, ResumeFlag,
          ResumeSuspend, ResumeApply, ResumeApplied, PauseTask, PauseRemove,
          PauseBump, PauseSpawn, Worker, Wakeup, Wakes, WorkerCheck,
          WorkerClear, WorkerResume, WorkerRestore, WorkerRestored
    <3>2. ASSUME pc["resume"] \in {"flag", "suspend"}
          PROVE  pc'["resume"] \in {"flag", "suspend"} \/ suspended'
      <4>1. CASE ResumeFlag
        BY <4>1 DEF ResumeFlag, ResumeTo, TypeOK, Stream
      <4>2. CASE ResumeSuspend
        BY <4>2 DEF ResumeSuspend
      <4>3. ASSUME NEW s \in Stream, Read(s) \/ Answer(s)
            PROVE  pc'["resume"] = pc["resume"]
        BY <3>2, <4>3 DEF Read, Answer, Classify, TypeOK, Stream
      <4> QED
        BY <2>a, <3>2, <4>1, <4>2, <4>3
        DEF TypeOK, Stream, Next, vars, readerVars, Switch, Reconnect,
            ResumeTask, ResumeBump, ResumeInsert, ResumeApply, ResumeApplied,
            PauseTask, PauseRemove, PauseBump, PauseSpawn, Worker, Wakeup,
            Wakes, WorkerCheck, WorkerClear, WorkerResume, WorkerRestore,
            WorkerRestored
    <3> QED
      BY <2>3, <3>1, <3>2 DEF FlagInv
  <2> QED
    BY <2>1, <2>2, <2>3, WhoTouchesFlag
<1> QED
  BY <1>1, <1>2, SessionRunsMonitor, GameMonitorTypeCorrect, CurrentAlone, PTL
  DEF SessionSpec

\* While the flag is up, a compile that runs on the device, awaited or not, is
\* the one late start, or survived the last killall, or one is on its way.
SparedInv ==
  suspended /\ Compiler!Compiling =>
    lateStarts >= 1 \/ suspender = "stored" \/ kills > 0 \/ spared

\* Every suspend() sends a killall, and only a late start begins a compile
\* while the flag is up: dropping a future neither begins nor ends one.
LEMMA NothingElseSpared ==
  ASSUME QueueLen \in Nat
  PROVE  SessionSpec => []SparedInv
<1> USE DEF Compiler!Compiling
<1>1. SessionInit => SparedInv
  BY DEF SessionInit, Compiler!Init, SparedInv
<1>2. Compiler!TypeOK /\ SparedInv /\ [SessionNext]_sessionVars => SparedInv'
  <2> SUFFICES ASSUME Compiler!TypeOK, SparedInv, [SessionNext]_sessionVars
               PROVE  SparedInv'
    OBVIOUS
  <2> USE DEF SparedInv, compilerVars, historyVars
  <2>1. CASE CompileTask
    <3>1. Compiler!Worker /\ UNCHANGED <<spared, kills, suspender, suspended>>
      BY <2>1
      DEF CompileTask, Compiler!Worker, Compiler!CheckSuspended,
          Compiler!Check, Compiler!Park, Compiler!Wake, Compiler!ArmAbort,
          Compiler!StartCompile, Compiler!CompileReturned, Compiler!Returned,
          Compiler!Interrupted, Compiler!Interrupt, Compiler!handleVars
    <3>2. CASE Compiler!StartCompile
      BY <3>1, <3>2 DEF Compiler!StartCompile, Compiler!TypeOK
    <3>3. CASE Compiler!CompileReturned
      BY <3>1, <3>3 DEF Compiler!CompileReturned, Compiler!Returned
    <3>4. CASE Compiler!Interrupted
      BY <3>1, <3>4 DEF Compiler!Interrupted, Compiler!Interrupt
    <3> QED
      BY <3>1, <3>2, <3>3, <3>4
      DEF Compiler!Worker, Compiler!CheckSuspended, Compiler!Check,
          Compiler!Park, Compiler!Wake, Compiler!ArmAbort
  <2>2. CASE Device
    <3>1. CASE Compiler!KillLands
      BY <2>2, <3>1
      DEF Device, Compiler!KillLands, Compiler!CompileEnds,
          Compiler!StrayEnds, Compiler!handleVars
    <3>2. CASE ~Compiler!KillLands
      <4>1. /\ Compiler!Compiling' => Compiler!Compiling
            /\ UNCHANGED <<suspended, suspender, kills, lateStarts>>
            /\ spared' = (spared /\ Compiler!Compiling')
        BY <2>2, <3>2
        DEF Device, Compiler!CompileEnds, Compiler!StrayEnds,
            Compiler!handleVars
      <4> QED
        BY <4>1
    <3> QED
      BY <3>1, <3>2
  <2>3. CASE Suspend
    BY <2>3 DEF Suspend, Compiler!SuspendStore
  <2>4. CASE SuspendReturns
    BY <2>4 DEF SuspendReturns, Compiler!SuspendNotify, Compiler!Notify,
                Compiler!TypeOK
  <2>5. ASSUME NEW w \in Workers, Resume(w) PROVE SparedInv'
    BY <2>5 DEF Resume, Compiler!ClearFlag
  <2>6. ASSUME NEW w \in Workers, ResumeReturns(w) PROVE SparedInv'
    BY <2>6 DEF ResumeReturns, Returns, Compiler!NotifyWorker
  <2>7. CASE UNCHANGED <<suspended, compilerVars, historyVars>>
    BY <2>7
  <2> QED
    BY <2>1, <2>2, <2>3, <2>4, <2>5, <2>6, <2>7, AloneKeepsFlag
    DEF SessionNext, sessionVars, User, Logcat, Reader, Alone, ResumeHandler,
        PauseHandler, Debounce
<1> QED
  BY <1>1, <1>2, SessionRunsCompiler, CompilerTyped, PTL DEF SessionSpec

\* However resumes, pauses and debounces interleave with the compiler, and
\* whatever becomes of the compiles whose futures were dropped, a compile runs
\* beside a game only through one of three windows: a superseded debounce
\* worker cleared the flag, the compiler had read it just before, or the
\* killall spared a compile that was interrupted.
THEOREM OnlyThreeWindows ==
  ASSUME QueueLen \in Nat
  PROVE  SessionSpec => []CompilesBesideGame
<1>1. ASSUME TypeOK, Compiler!TypeOK, StoppedInv, SparedInv, FlagInv,
             SessionAtRest, active # {}, kills = 0
      PROVE  /\ cmd = "running" /\ ~aborted => raced \/ lateStarts = 1
             /\ Compiler!Compiling => raced \/ lateStarts = 1 \/ spared
  <2>1. suspended \/ raced
    BY <1>1 DEF FlagInv, SessionAtRest, AtRest
  <2>2. suspender = "idle" /\ lateStarts <= 1 /\ lateStarts \in Nat
    BY <1>1 DEF SessionAtRest, StoppedInv, Compiler!TypeOK
  <2>3. cmd = "running" /\ ~aborted /\ suspended => lateStarts = 1
    BY <1>1, <2>2 DEF StoppedInv
  <2>4. Compiler!Compiling /\ suspended => lateStarts = 1 \/ spared
    BY <1>1, <2>2 DEF SparedInv
  <2> QED
    BY <2>1, <2>3, <2>4
<1>2. TypeOK /\ Compiler!TypeOK /\ StoppedInv /\ SparedInv /\ FlagInv
        => CompilesBesideGame
  BY <1>1 DEF CompilesBesideGame
<1> QED
  BY <1>2, SessionRunsMonitor, SessionRunsCompiler, GameMonitorTypeCorrect,
     CompilerTyped, CompilerStopped, NothingElseSpared, GameKeepsFlag, PTL

-----------------------------------------------------------------------------
(* The compiler waits for nobody *)

\* While the worker begins to wait or waits with the flag down, its
\* notification has reached it, is still to come, or was missed.
WaitInv ==
  cpc \in {"park", "parked"} /\ ~suspended =>
    \/ missed
    \/ cpc = "parked" /\ wakeup
    \/ \E w \in Workers : resumer[w] = "stored"

\* resume() stores before it notifies, and its caller does notify.
LEMMA WaitingIsAnswered ==
  ASSUME QueueLen \in Nat
  PROVE  SessionSpec => []WaitInv
<1>1. SessionInit => WaitInv
  BY DEF SessionInit, Compiler!Init, WaitInv
<1>2. Compiler!TypeOK /\ WaitInv /\ [SessionNext]_sessionVars => WaitInv'
  <2> SUFFICES ASSUME Compiler!TypeOK, WaitInv, [SessionNext]_sessionVars
               PROVE  WaitInv'
    OBVIOUS
  <2> USE DEF compilerVars, historyVars
  <2>1. CASE CompileTask
    <3>1. Compiler!Worker /\ missed' = (missed /\ cpc # "parked")
      BY <2>1 DEF CompileTask
    <3> QED
      BY <3>1
      DEF WaitInv, Compiler!Worker, Compiler!CheckSuspended, Compiler!Check,
          Compiler!Park, Compiler!Wake, Compiler!ArmAbort,
          Compiler!StartCompile, Compiler!CompileReturned, Compiler!Returned,
          Compiler!Interrupted, Compiler!Interrupt, Compiler!handleVars
  <2>2. CASE Device
    BY <2>2
    DEF WaitInv, Device, Compiler!CompileEnds, Compiler!StrayEnds,
        Compiler!KillLands, Compiler!handleVars
  <2>3. CASE Suspend
    BY <2>3 DEF WaitInv, Suspend, ResumeSuspend
  <2>4. CASE SuspendReturns
    BY <2>4 DEF WaitInv, SuspendReturns, Compiler!SuspendNotify,
                Compiler!Notify
  <2>5. ASSUME NEW w \in Workers, Resume(w) PROVE WaitInv'
    BY <2>5
    DEF WaitInv, Resume, Compiler!EnterResume, Compiler!ClearFlag,
        Compiler!TypeOK
  <2>6. ASSUME NEW w \in Workers, ResumeReturns(w) PROVE WaitInv'
    BY <2>6
    DEF WaitInv, ResumeReturns, Returns, Compiler!NotifyWorker, Compiler!TypeOK
  <2>7. CASE UNCHANGED <<suspended, compilerVars, historyVars>>
    BY <2>7 DEF WaitInv
  <2> QED
    BY <2>1, <2>2, <2>3, <2>4, <2>5, <2>6, <2>7, AloneKeepsFlag
    DEF SessionNext, sessionVars, User, Logcat, Reader, Alone, ResumeHandler,
        PauseHandler, Debounce
<1> QED
  BY <1>1, <1>2, SessionRunsCompiler, CompilerTyped, PTL DEF SessionSpec

\* When all is at rest and no game is active, the compiler waits only if the
\* notification came between its look at the flag and its wait.
THEOREM SessionWaitsForNobody ==
  ASSUME QueueLen \in Nat
  PROVE  SessionSpec => []WaitsForNobody
<1>1. QuietWhenNoGame /\ WaitInv => WaitsForNobody
  BY DEF QuietWhenNoGame, AtRest, WaitInv, WaitsForNobody, SessionAtRest
<1> QED
  BY <1>1, SessionRunsMonitor, NobodyLeftSuspended, WaitingIsAnswered, PTL

=============================================================================
