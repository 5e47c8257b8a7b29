-------------------------- MODULE AotCompilerProofs --------------------------
(***************************************************************************)
(* AotCompiler for every queue length and every set of debounce workers:   *)
(* type correctness, no package lost, at most one late start, and the      *)
(* implementation of CompileQueue.                                         *)
(***************************************************************************)
EXTENDS AotCompiler, FiniteSetTheorems, SequenceTheorems, TLAPS

\* Past the load of the flag there is a package at idx.
InQueue == pc \notin {"check", "done"} => idx <= QueueLen

\* Type correctness and InQueue, which it needs, are inductive together.
LEMMA TypeInductive == Spec => [](TypeOK /\ InQueue)
<1> USE QueueLenAssumption, MaxKillsAssumption
<1>1. Init => TypeOK
  <2> SUFFICES ASSUME Init PROVE TypeOK
    OBVIOUS
  <2>1. outcome \in [Package -> Ended \cup {"pending"}]
    BY DEF Init
  <2>2. resumer \in [Resumers -> {"idle", "stored"}]
    BY DEF Init
  <2>3. idx \in 1..(QueueLen + 1)
    BY DEF Init
  <2>4. /\ compiled \in Nat /\ kills \in Nat /\ lateStarts \in Nat
        /\ suspended \in BOOLEAN /\ wakeup \in BOOLEAN /\ aborted \in BOOLEAN
    BY DEF Init
  <2>5. /\ pc \in {"check", "park", "parked", "begin", "poll", "select", "done"}
        /\ strays \subseteq Package
        /\ cmd \in Ended \cup {"none", "running"}
        /\ suspender \in {"idle", "stored"}
    BY DEF Init
  <2> QED
    BY <2>1, <2>2, <2>3, <2>4, <2>5 DEF TypeOK
<1>2. Init => InQueue
  BY DEF Init, InQueue
<1>3. TypeOK /\ InQueue /\ [Next]_vars => TypeOK' /\ InQueue'
  <2> SUFFICES ASSUME TypeOK, InQueue, [Next]_vars
               PROVE  TypeOK' /\ InQueue'
    OBVIOUS
  <2> USE DEF TypeOK, InQueue, Package, Ended
  <2>1. CASE CheckSuspended
    BY <2>1 DEF CheckSuspended, Check, handleVars
  <2>2. CASE Park
    BY <2>2 DEF Park, handleVars
  <2>3. CASE Wake
    BY <2>3 DEF Wake, handleVars
  <2>4. CASE ArmAbort
    BY <2>4 DEF ArmAbort, handleVars
  <2>5. CASE StartCompile
    BY <2>5 DEF StartCompile, handleVars
  <2>6. CASE CompileReturned
    <3>1. outcome' \in [Package -> Ended \cup {"pending"}]
      BY <2>6 DEF CompileReturned, Returned
    <3>2. idx' \in 1..(QueueLen + 1) /\ compiled' \in Nat
      BY <2>6 DEF CompileReturned, Returned
    <3> QED
      BY <2>6, <3>1, <3>2 DEF CompileReturned, Returned, handleVars
  <2>7. CASE Interrupted
    <3>1. idx \in Package
      BY <2>7 DEF Interrupted, Interrupt
    <3>2. strays' \subseteq Package
      BY <2>7, <3>1 DEF Interrupted, Interrupt
    <3> QED
      BY <2>7, <3>2 DEF Interrupted, Interrupt, handleVars
  <2>8. CASE SuspendStore
    BY <2>8 DEF SuspendStore, workerVars
  <2>9. CASE SuspendNotify
    BY <2>9 DEF SuspendNotify, Notify
  <2>10. ASSUME NEW r \in Resumers, Resume(r)
         PROVE  TypeOK' /\ InQueue'
    <3>1. resumer' \in [Resumers -> {"idle", "stored"}]
      BY <2>10 DEF Resume, EnterResume, LeaveResume
    <3>2. CASE ClearFlag
      BY <3>1, <3>2 DEF ClearFlag
    <3>3. CASE NotifyWorker
      BY <3>1, <3>3 DEF NotifyWorker
    <3> QED
      BY <2>10, <3>2, <3>3 DEF Resume
  <2>11. CASE CompileEnds
    BY <2>11 DEF CompileEnds, handleVars
  <2>12. CASE KillLands
    BY <2>12 DEF KillLands
  <2>13. CASE UNCHANGED vars
    BY <2>13 DEF vars
  <2>14. ASSUME NEW p \in Package, StrayEnds(p)
         PROVE  TypeOK' /\ InQueue'
    BY <2>14 DEF StrayEnds, handleVars
  <2> QED
    BY <2>1, <2>2, <2>3, <2>4, <2>5, <2>6, <2>7, <2>8, <2>9, <2>10,
       <2>11, <2>12, <2>13, <2>14 DEF Next, Worker
<1> QED
  BY <1>1, <1>2, <1>3, PTL DEF Spec

\* The variables of AotCompiler always have their types: idx stays inside
\* the queue or one past its end, so run() never indexes out of bounds.
THEOREM TypeCorrect == Spec => []TypeOK
  BY TypeInductive, PTL

LEMMA StaysInQueue == Spec => []InQueue
  BY TypeInductive, PTL

-----------------------------------------------------------------------------
(* No late start but one *)

\* While the flag is down, and in the window between the load of the flag
\* and the start of the command, no late start is on record.
LateStartInv ==
  /\ lateStarts <= 1
  /\ ~suspended => lateStarts = 0
  /\ pc \in {"begin", "poll"} => lateStarts = 0

\* However suspend(), resume() and the worker interleave, at most one
\* compile command starts between a suspend() and the next resume().
THEOREM LateStartBound == Spec => []AtMostOneLateStart
<1>1. Init => LateStartInv
  BY DEF Init, LateStartInv
<1>2. TypeOK /\ LateStartInv /\ [Next]_vars => LateStartInv'
  <2> SUFFICES ASSUME TypeOK, LateStartInv, [Next]_vars
               PROVE  LateStartInv'
    OBVIOUS
  <2> USE DEF LateStartInv, TypeOK
  <2>1. CASE CheckSuspended
    BY <2>1 DEF CheckSuspended, Check, handleVars
  <2>2. CASE Park \/ Wake \/ ArmAbort
    BY <2>2 DEF Park, Wake, ArmAbort, handleVars
  <2>3. CASE StartCompile
    BY <2>3 DEF StartCompile, handleVars
  <2>4. CASE CompileReturned \/ Interrupted
    BY <2>4 DEF CompileReturned, Returned, Interrupted, Interrupt, handleVars
  <2>5. CASE SuspendStore
    BY <2>5 DEF SuspendStore, workerVars
  <2>6. CASE SuspendNotify
    BY <2>6 DEF SuspendNotify, Notify
  <2>7. ASSUME NEW r \in Resumers, Resume(r)
        PROVE  LateStartInv'
    BY <2>7 DEF Resume, EnterResume, LeaveResume, ClearFlag, NotifyWorker
  <2>8. CASE CompileEnds \/ KillLands \/ \E p \in Package : StrayEnds(p)
    BY <2>8 DEF CompileEnds, KillLands, StrayEnds, handleVars
  <2>9. CASE UNCHANGED vars
    BY <2>9 DEF vars
  <2> QED
    BY <2>1, <2>2, <2>3, <2>4, <2>5, <2>6, <2>7, <2>8, <2>9
    DEF Next, Worker
<1>3. LateStartInv => AtMostOneLateStart
  BY DEF LateStartInv, AtMostOneLateStart
<1> QED
  BY <1>1, <1>2, <1>3, TypeCorrect, PTL DEF Spec
-----------------------------------------------------------------------------
(* No package is lost *)

CompiledSet == {p \in Package : outcome[p] = "ok"}

\* Settling package idx adds it to the compiled set exactly if its command
\* succeeded.
LEMMA SettleCounts ==
  ASSUME TypeOK, QueueProgress, CompileReturned, idx <= QueueLen
  PROVE  /\ CompiledSet' = IF cmd = "ok" THEN CompiledSet \cup {idx}
                            ELSE CompiledSet
         /\ compiled' = Cardinality(CompiledSet')
<1> USE QueueLenAssumption DEF Package
<1>1. idx \in Package /\ idx \notin CompiledSet
  BY DEF TypeOK, QueueProgress, CompiledSet
<1>2. \A p \in Package : outcome'[p] = IF p = idx THEN cmd ELSE outcome[p]
  BY <1>1 DEF CompileReturned, Returned, TypeOK
<1>3. CompiledSet' = IF cmd = "ok" THEN CompiledSet \cup {idx}
                     ELSE CompiledSet
  BY <1>1, <1>2 DEF CompiledSet
<1>4. IsFiniteSet(CompiledSet)
  <2>1. IsFiniteSet(Package)
    BY FS_Interval DEF Package
  <2> QED
    BY <2>1, FS_Subset DEF CompiledSet
<1>5. compiled = Cardinality(CompiledSet)
  BY DEF QueueProgress, CompiledSet
<1>6. Cardinality(CompiledSet \cup {idx}) = compiled + 1
  BY <1>1, <1>4, <1>5, FS_AddElement
<1> QED
  BY <1>3, <1>5, <1>6 DEF CompileReturned, Returned

\* However often it is interrupted, the worker settles the packages one by
\* one in queue order, skips none, and compiled_count is the number of
\* successful ones.
THEOREM NothingLost == Spec => []QueueProgress
<1> USE QueueLenAssumption DEF Package
<1>1. Init => QueueProgress
  <2> SUFFICES ASSUME Init PROVE QueueProgress
    OBVIOUS
  <2>1. \A p \in Package : outcome[p] = "pending" /\ p >= idx
    BY DEF Init
  <2>2. {p \in Package : outcome[p] = "ok"} = {}
    BY <2>1
  <2> QED
    BY <2>1, <2>2, FS_EmptySet DEF Init, QueueProgress
<1>2. TypeOK /\ InQueue /\ QueueProgress /\ [Next]_vars => QueueProgress'
  <2> SUFFICES ASSUME TypeOK, InQueue, QueueProgress, [Next]_vars
               PROVE  QueueProgress'
    OBVIOUS
  <2>1. CASE CompileReturned
    <3>1. idx <= QueueLen
      BY <2>1 DEF InQueue, CompileReturned, Returned
    <3>2. compiled' = Cardinality({p \in Package : outcome'[p] = "ok"})
      BY <2>1, <3>1, SettleCounts DEF CompiledSet
    <3>3. cmd # "pending"
      BY <2>1 DEF CompileReturned, Returned, Ended
    <3>4. \A p \in Package : (outcome'[p] = "pending") <=> (p >= idx')
      BY <2>1, <3>1, <3>3 DEF CompileReturned, Returned, TypeOK, QueueProgress
    <3> QED
      BY <3>2, <3>4 DEF QueueProgress
  <2>2. CASE UNCHANGED <<idx, outcome, compiled>>
    BY <2>2 DEF QueueProgress
  <2> QED
    BY <2>1, <2>2
    DEF Next, Worker, CheckSuspended, Check, Park, Wake, ArmAbort,
        StartCompile, Interrupted, Interrupt, SuspendStore, SuspendNotify, Notify,
        Resume, EnterResume, LeaveResume, ClearFlag, NotifyWorker,
        CompileEnds, KillLands, StrayEnds, vars, workerVars, handleVars
<1> QED
  BY <1>1, <1>2, TypeCorrect, StaysInQueue, PTL DEF Spec
-----------------------------------------------------------------------------
(* The worker implements the queue *)

\* CompileQueue's `settled`, as AotCompiler computes it.
Settled == [p \in 1..(idx - 1) |-> IF outcome[p] = "ok" THEN "ok" ELSE "err"]

LEMMA SettledLength ==
  ASSUME TypeOK
  PROVE  Settled \in Seq({"ok", "err"}) /\ Len(Settled) = idx - 1
<1>1. idx - 1 \in Nat
  BY QueueLenAssumption DEF TypeOK
<1>2. Settled \in [1..(idx - 1) -> {"ok", "err"}]
  BY DEF Settled
<1> QED
  BY <1>1, <1>2, IsASeq, LenProperties DEF Settled

\* A command that returns appends its result.
LEMMA SettledGrows ==
  ASSUME TypeOK, idx <= QueueLen, CompileReturned
  PROVE  \E r \in {"ok", "err"} : Settled' = Append(Settled, r)
<1> DEFINE r == IF cmd = "ok" THEN "ok" ELSE "err"
<1>1. idx \in Package /\ idx' = idx + 1 /\ idx \in Nat
  BY QueueLenAssumption DEF TypeOK, Package, CompileReturned, Returned
<1>2. outcome' = [outcome EXCEPT ![idx] = cmd]
  BY DEF CompileReturned, Returned
<1>3. \A p \in 1..(idx - 1) : p \in Package /\ p # idx
  BY <1>1, QueueLenAssumption DEF Package
<1>4. Append(Settled, r)
        = [p \in 1..(Len(Settled) + 1) |->
             IF p \in 1..Len(Settled) THEN Settled[p] ELSE r]
  BY SettledLength, AppendProperties
<1>5. Len(Settled) = idx - 1
  BY SettledLength
<1>6. Settled' = [p \in 1..idx |-> IF outcome'[p] = "ok" THEN "ok" ELSE "err"]
  BY <1>1 DEF Settled
<1> QED
  BY <1>1, <1>2, <1>3, <1>4, <1>5, <1>6 DEF Settled, TypeOK

\* Every step of the worker, its callers and the device is a step of the
\* queue the worker promises, or leaves that queue alone.
THEOREM WorkerImplementsQueue == Spec => ImplementsQueue
<1>1. Init => Queue!QInit
  <2> SUFFICES ASSUME Init PROVE Queue!QInit
    OBVIOUS
  <2>1. Settled = <<>>
    BY DEF Init, Settled
  <2> QED
    BY <2>1 DEF Init, Settled, Queue!QInit
<1>2. TypeOK /\ InQueue /\ [Next]_vars => [Queue!QNext]_Queue!qvars
  <2> SUFFICES ASSUME TypeOK, InQueue, [Next]_vars
               PROVE  [Queue!QNext]_Queue!qvars
    OBVIOUS
  <2>1. CASE StartCompile
    <3>1. Len(Settled) < QueueLen
      BY <2>1, SettledLength, QueueLenAssumption
      DEF StartCompile, InQueue, TypeOK
    <3>2. Queue!Attempt
      BY <2>1, <3>1 DEF StartCompile, Queue!Attempt, Settled
    <3> QED
      BY <3>2 DEF Queue!QNext
  <2>2. CASE CompileReturned
    <3>1. idx <= QueueLen
      BY <2>2 DEF InQueue, CompileReturned, Returned
    <3>2. \E r \in {"ok", "err"} : Settled' = Append(Settled, r)
      BY <2>2, <3>1, SettledGrows
    <3>3. Queue!Settle
      BY <2>2, <3>2
      DEF CompileReturned, Returned, Queue!Settle, Queue!Result, Settled
    <3> QED
      BY <3>3 DEF Queue!QNext
  <2>3. CASE Interrupted
    <3>1. UNCHANGED <<idx, outcome>> /\ pc' = "check"
      BY <2>3 DEF Interrupted, Interrupt
    <3>2. CASE pc = "select"
      BY <3>1, <3>2 DEF Queue!QNext, Queue!GiveUp
    <3>3. CASE pc # "select"
      BY <3>1, <3>3 DEF Queue!qvars
    <3> QED
      BY <3>2, <3>3
  <2>4. CASE UNCHANGED <<idx, outcome>> /\ (pc = "select") = (pc' = "select")
    BY <2>4 DEF Queue!qvars
  <2> QED
    BY <2>1, <2>2, <2>3, <2>4
    DEF Next, Worker, CheckSuspended, Check, Park, Wake, ArmAbort,
        SuspendStore, SuspendNotify, Notify, Resume, EnterResume, LeaveResume,
        ClearFlag, NotifyWorker, CompileEnds, KillLands, StrayEnds, vars, workerVars,
        handleVars
<1> QED
  BY <1>1, <1>2, TypeCorrect, StaysInQueue, PTL
  DEF Spec, ImplementsQueue, Queue!QSpec
=============================================================================
