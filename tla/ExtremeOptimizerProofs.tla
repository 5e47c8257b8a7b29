----------------------- MODULE ExtremeOptimizerProofs -----------------------
(***************************************************************************)
(* ExtremeOptimizer for every set of settings, apps and games, every       *)
(* number of concurrent restorations, scripts, bench commands and edits,   *)
(* failing calls and lives.  In turn:                                      *)
(*                                                                         *)
(* - the snapshot of a life is never replaced, and as long as no call      *)
(*   failed a game exit writes nothing but the snapshot;                   *)
(* - no tweak is written before the snapshot is taken;                     *)
(* - the active flag tells what the device is in, and Performance mode     *)
(*   keeps its tweaks, as long as nothing failed, no script overtook       *)
(*   another on an item, and no restoration began within another.          *)
(*                                                                         *)
(* For the last: between a script's start and its end the device is in     *)
(* neither of the two, so the invariant speaks of Final, the value each    *)
(* item will have when the scripts in progress are done.  Three facts make *)
(* it usable: work on a script that is due does not change it              *)
(* (RunKeepsFinal), spawning one changes it to what the script writes      *)
(* (DetachChangesFinal), and with nothing in progress it is the device     *)
(* (NothingPending).                                                       *)
(***************************************************************************)
EXTENDS ExtremeOptimizer, SequenceTheorems, TLAPS

-----------------------------------------------------------------------------
(* The snapshot is captured once *)

CaptureInv == (apc = "capture" => snapshot = None) /\ lives \in Nat

\* The snapshot is changed by a capture and by a restart only.
LEMMA WhoChangesSnapshot ==
  ASSUME [Next]_vars
  PROVE  UNCHANGED snapshot \/ Captured \/ Restart
  BY DEF Next, vars, ApplyCall, Apply, EnsureSnapshot, Ensure, ApplyCheck,
         Detect, SaveSecondary, SpawnApply, StoreActive, RestoreCall, Called,
         Restore, RestoreTake, RestoreSpawn, RestoreStore, Store, Shutdown,
         ShutdownTake, ShutdownSpawn, ShutdownStore, Exit, Kill, RunScript,
         Probe, ProbeOn, ProbeOff, BenchOn, BenchOff, UserEdits

\* A capture begins only without a snapshot.
LEMMA WhoCaptures ==
  ASSUME [Next]_vars, apc' = "capture"
  PROVE  (apc = "capture" /\ UNCHANGED snapshot) \/ snapshot' = None
  BY DEF Next, vars, ApplyCall, Apply, EnsureSnapshot, Ensure, Captured,
         ApplyCheck, Detect, SaveSecondary, SpawnApply, StoreActive,
         RestoreCall, Called, Restore, RestoreTake, RestoreSpawn, RestoreStore,
         Store, Shutdown, ShutdownTake, ShutdownSpawn, ShutdownStore, Exit,
         Kill, Restart, RunScript, Probe, ProbeOn, ProbeOff, BenchOn,
         BenchOff, UserEdits, applyVars

\* The lives of the daemon are counted by restarts.
LEMMA WhoCountsLives ==
  ASSUME [Next]_vars
  PROVE  UNCHANGED lives \/ lives' = lives + 1
  BY DEF Next, vars, mainVars, ApplyCall, Apply, EnsureSnapshot, Ensure,
         Captured, ApplyCheck, Detect, SaveSecondary, SpawnApply, StoreActive,
         RestoreCall, Called, Restore, RestoreTake, RestoreSpawn, RestoreStore,
         Store, Shutdown, ShutdownTake, ShutdownSpawn, ShutdownStore, Exit,
         Kill, Restart, RunScript, Probe, ProbeOn, ProbeOff, BenchOn,
         BenchOff, UserEdits

LEMMA CaptureInvariant == Spec => []CaptureInv
<1>1. Init => CaptureInv
  BY DEF Init, CaptureInv
<1>2. CaptureInv /\ [Next]_vars => CaptureInv'
  BY WhoCaptures, WhoCountsLives DEF CaptureInv
<1> QED
  BY <1>1, <1>2, PTL DEF Spec

\* In one life of the daemon the snapshot never changes once there is one,
\* with however many calls in progress and whatever fails.
THEOREM SnapshotStays == Spec => SnapshotKept
<1>1. CaptureInv /\ [Next]_vars =>
        [snapshot # None => snapshot' = snapshot \/ lives' # lives]_vars
  <2> SUFFICES ASSUME CaptureInv, [Next]_vars, snapshot # None
               PROVE  snapshot' = snapshot \/ lives' # lives
    OBVIOUS
  <2>1. ~Captured
    BY DEF Captured, CaptureInv
  <2>2. Restart => lives' # lives
    BY DEF Restart, CaptureInv
  <2> QED
    BY <2>1, <2>2, WhoChangesSnapshot
<1> QED
  BY <1>1, CaptureInvariant, PTL DEF Spec, SnapshotKept

-----------------------------------------------------------------------------
(* A game exit writes the snapshot *)

ListInv ==
  /\ secondary \subseteq App /\ detected \subseteq App
  /\ snapshot # None => DOMAIN snapshot = Key
  /\ rpc = [r \in Restorer |-> rpc[r]]
  /\ rscript = [r \in Restorer |-> rscript[r]]
  /\ faults \in Nat

\* Past the capture, and wherever the tweaks may be on the device, there is a
\* snapshot; a restoration about to be spawned writes its values.
Captures ==
  /\ apc \in {"check", "detect", "save", "spawn", "store"} => snapshot # None
  /\ active => snapshot # None
  /\ \A r \in Restorer : rpc[r] \in {"take", "spawn"} => snapshot # None
  /\ \A r \in Restorer : rpc[r] = "spawn" => WritesSnapshot(rscript[r])

ExitInv == ListInv /\ (faults = 0 => Captures)

\* A script built from a snapshot writes the values of the snapshot, in both
\* modes, whatever apps it takes off the whitelist.
LEMMA RestoreScriptWritesSnapshot ==
  ASSUME NEW apps \in SUBSET App, snapshot # None, DOMAIN snapshot = Key
  PROVE  WritesSnapshot(RestoreScript(snapshot, apps, FALSE))
<1> DEFINE script == RestoreScript(snapshot, apps, FALSE)
<1> SUFFICES ASSUME NEW j \in DOMAIN script, NEW k \in DOMAIN script[j] \cap Key
             PROVE  k \in DOMAIN snapshot /\ script[j][k] = snapshot[k]
  BY DEF WritesSnapshot
<1>1. /\ k \notin {"doze"} /\ k \notin apps
      /\ k \notin {"power", "saver"} /\ k \notin {"appops"}
  BY ItemsAssumption DEF Knob
<1>2. CASE mode = "Performance"
  <2>1. script = << All({"doze"}, "off"), All(apps, "off") >>
    BY <1>2 DEF RestoreScript
  <2> HIDE DEF script
  <2>2. j \in 1..2
    BY <2>1
  <2>3. script[j] = All({"doze"}, "off") \/ script[j] = All(apps, "off")
    BY <2>1, <2>2
  <2> QED
    BY <2>3, <1>1 DEF All
<1>3. CASE mode # "Performance"
  <2>1. script = << All({"doze"}, "off"), All(apps, "off"),
                    All({"power", "saver"}, "off"), All({"appops"}, "off"),
                    snapshot >>
    BY <1>3 DEF RestoreScript
  <2> HIDE DEF script
  <2>2. j \in 1..5
    BY <2>1
  <2>3. j = 5
    BY <2>1, <2>2, <1>1 DEF All
  <2> QED
    BY <2>1, <2>3
<1> QED
  BY <1>2, <1>3

\* A step of apply_optimizations keeps the invariant.
LEMMA ApplyKeepsExit ==
  ASSUME ExitInv, CaptureInv, Apply \/ \E game \in Game : ApplyCall(game)
  PROVE  ExitInv'
<1> USE DEF ExitInv, ListInv, Captures
<1>1. ASSUME NEW game \in Game, ApplyCall(game) PROVE ExitInv'
  BY <1>1 DEF ApplyCall, restoreVars, WritesSnapshot
<1>2. CASE EnsureSnapshot
  BY <1>2 DEF EnsureSnapshot, Ensure, restoreVars, WritesSnapshot
<1>3. CASE Captured
  <2>1. snapshot = None
    BY <1>3 DEF Captured, CaptureInv
  <2>2. UNCHANGED <<rpc, rscript, secondary, detected, active>>
    BY <1>3 DEF Captured, restoreVars
  <2>3. snapshot' # None => DOMAIN snapshot' = Key
    BY <1>3 DEF Captured
  <2>4. faults' \in Nat /\ (faults' = 0 => faults = 0)
    BY <1>3 DEF Captured, Fault
  <2>5. faults' = 0 => snapshot' = [k \in Key |-> dev[k]]
    BY <1>3 DEF Captured, Fault
  <2>6. [k \in Key |-> dev[k]] # None
    BY NamesAssumption DEF None
  <2>7. ListInv'
    BY <2>2, <2>3, <2>4
  <2>8. faults' = 0 => Captures'
    BY <2>1, <2>2, <2>4, <2>5, <2>6
  <2> QED
    BY <2>7, <2>8
<1>4. CASE ApplyCheck
  BY <1>4 DEF ApplyCheck, restoreVars, WritesSnapshot
<1>5. CASE Detect
  BY <1>5 DEF Detect, restoreVars, WritesSnapshot
<1>6. CASE SaveSecondary
  BY <1>6 DEF SaveSecondary, restoreVars, WritesSnapshot
<1>7. CASE SpawnApply
  BY <1>7 DEF SpawnApply, Fault, restoreVars, WritesSnapshot
<1>8. CASE StoreActive
  BY <1>8 DEF StoreActive, restoreVars, WritesSnapshot
<1> QED
  BY <1>1, <1>2, <1>3, <1>4, <1>5, <1>6, <1>7, <1>8 DEF Apply

\* A step of restore_system keeps the invariant.
LEMMA RestoreKeepsExit ==
  ASSUME ExitInv, NEW r \in Restorer, RestoreCall(r) \/ Restore(r)
  PROVE  ExitInv'
<1> USE DEF ExitInv, ListInv, Captures
<1>1. CASE RestoreCall(r)
  BY <1>1 DEF RestoreCall, Called, RestoreTo, applyVars, WritesSnapshot
<1>2. CASE RestoreTake(r)
  <2>1. rpc[r] = "take" /\ rpc' = [rpc EXCEPT ![r] = "spawn"]
    BY <1>2 DEF RestoreTake, RestoreTo
  <2>2. /\ rscript' = [rscript EXCEPT ![r] =
                          RestoreScript(snapshot, secondary, FALSE)]
        /\ secondary' = {}
        /\ UNCHANGED <<snapshot, active, apc, detected, faults>>
    BY <1>2 DEF RestoreTake, applyVars
  <2>3. ListInv'
    BY <2>1, <2>2
  <2>4. ASSUME faults' = 0 PROVE Captures'
    <3>1. Captures /\ snapshot # None
      BY <2>1, <2>2, <2>4
    <3>2. WritesSnapshot(RestoreScript(snapshot, secondary, FALSE))
      BY <3>1, RestoreScriptWritesSnapshot
    <3>3. ASSUME NEW q \in Restorer, rpc'[q] = "spawn"
          PROVE  WritesSnapshot(rscript'[q])
      BY <2>1, <2>2, <3>1, <3>2, <3>3
    <3>4. ASSUME NEW q \in Restorer, rpc'[q] = "spawn"
          PROVE  WritesSnapshot(rscript[q])'
      <4>1. WritesSnapshot(rscript'[q]) /\ snapshot' = snapshot
        BY <2>2, <3>3, <3>4
      <4> QED
        BY <4>1 DEF WritesSnapshot
    <3>5. ASSUME NEW q \in Restorer, rpc'[q] \in {"take", "spawn"}
          PROVE  rpc[q] \in {"take", "spawn"}
      BY <2>1, <3>5
    <3> QED
      BY <2>2, <3>1, <3>4, <3>5
  <2> QED
    BY <2>3, <2>4
<1>3. CASE RestoreSpawn(r)
  <2>1. /\ rpc' = [rpc EXCEPT ![r] = "store"] \/ rpc' = [rpc EXCEPT ![r] = "idle"]
        /\ rscript' = [rscript EXCEPT ![r] = <<>>]
        /\ UNCHANGED <<snapshot, secondary, active, apc, detected>>
        /\ faults' \in Nat /\ (faults' = 0 => faults = 0)
    BY <1>3 DEF RestoreSpawn, RestoreTo, Fault, applyVars
  <2>2. ListInv'
    BY <2>1
  <2>3. ASSUME faults' = 0 PROVE Captures'
    <3>1. Captures /\ rpc[r] = "spawn"
      BY <1>3, <2>1, <2>3 DEF RestoreSpawn
    <3>2. ASSUME NEW q \in Restorer, rpc'[q] = "spawn"
          PROVE  rpc[q] = "spawn" /\ rscript'[q] = rscript[q]
      BY <2>1, <3>2
    <3>3. ASSUME NEW q \in Restorer, rpc'[q] = "spawn"
          PROVE  WritesSnapshot(rscript[q])'
      BY <2>1, <3>1, <3>2, <3>3 DEF WritesSnapshot
    <3>4. ASSUME NEW q \in Restorer, rpc'[q] \in {"take", "spawn"}
          PROVE  rpc[q] \in {"take", "spawn"}
      BY <2>1, <3>4
    <3> QED
      BY <2>1, <3>1, <3>3, <3>4
  <2> QED
    BY <2>2, <2>3
<1>4. CASE RestoreStore(r)
  BY <1>4 DEF RestoreStore, Store, RestoreTo, applyVars, WritesSnapshot
<1> QED
  BY <1>1, <1>2, <1>3, <1>4 DEF Restore

\* A step of main, the end of a life, a new life, a probe, the user and the
\* device keep it.
LEMMA RestKeepsExit ==
  ASSUME ExitInv,
         \/ Shutdown \/ Kill \/ Restart \/ Probe
         \/ \E k \in Key : UserEdits(k)
         \/ \E i \in DOMAIN scripts : RunScript(i)
  PROVE  ExitInv'
<1> USE DEF ExitInv, ListInv, Captures
<1>1. CASE ShutdownTake
  BY <1>1 DEF ShutdownTake, applyVars, restoreVars, WritesSnapshot
<1>2. CASE ShutdownSpawn
  BY <1>2 DEF ShutdownSpawn, Fault, applyVars, restoreVars, WritesSnapshot
<1>3. CASE ShutdownStore
  BY <1>3 DEF ShutdownStore, applyVars, restoreVars, WritesSnapshot
<1>4. CASE Exit \/ Kill
  BY <1>4 DEF Exit, Kill, applyVars, restoreVars, WritesSnapshot
<1>5. CASE Restart
  BY <1>5 DEF Restart
<1>6. ASSUME NEW i \in DOMAIN scripts, RunScript(i) PROVE ExitInv'
  BY <1>6 DEF RunScript, applyVars, restoreVars, WritesSnapshot
<1>7. CASE ProbeOn \/ ProbeOff
  BY <1>7 DEF ProbeOn, ProbeOff, Switch, Fault, applyVars, restoreVars,
              WritesSnapshot
<1>8. CASE BenchOn \/ BenchOff
  BY <1>8 DEF BenchOn, BenchOff, Switch, Fault, applyVars, restoreVars,
              WritesSnapshot
<1>9. ASSUME NEW k \in Key, UserEdits(k) PROVE ExitInv'
  BY <1>9 DEF UserEdits, applyVars, restoreVars, WritesSnapshot
<1> QED
  BY <1>1, <1>2, <1>3, <1>4, <1>5, <1>6, <1>7, <1>8, <1>9 DEF Shutdown, Probe

LEMMA ExitInvariant == Spec => []ExitInv
<1>1. Init => ExitInv
  BY DEF Init, ExitInv, ListInv, Captures
<1>2. ExitInv /\ CaptureInv /\ [Next]_vars => ExitInv'
  <2> SUFFICES ASSUME ExitInv, CaptureInv, [Next]_vars PROVE ExitInv'
    OBVIOUS
  <2>1. CASE UNCHANGED vars
    BY <2>1 DEF vars, applyVars, restoreVars, ExitInv, ListInv, Captures,
                WritesSnapshot
  <2> QED
    BY <2>1, ApplyKeepsExit, RestoreKeepsExit, RestKeepsExit DEF Next
<1> QED
  BY <1>1, <1>2, CaptureInvariant, PTL DEF Spec

\* As long as no rish call failed, the script of a game exit sets no setting
\* to anything but the value in the snapshot, with however many calls in
\* progress and scripts overlapping, in every life of the daemon.
THEOREM GameExitWritesSnapshot == Spec => []NoBlindGameExit
<1>1. ExitInv => NoBlindGameExit
  BY DEF ExitInv, ListInv, Captures, NoBlindGameExit
<1> QED
  BY <1>1, ExitInvariant, PTL

-----------------------------------------------------------------------------
(* Scripts that write values of a set V *)

Group(V) == UNION {[D -> V] : D \in SUBSET Item}
Body(V) == Seq(Group(V)) \ {<<>>}

LEMMA AllInGroup ==
  ASSUME NEW V, NEW D \in SUBSET Item, NEW v \in V
  PROVE  All(D, v) \in Group(V)
  BY DEF Group, All

\* A restoration writes "off", defaults and what is in the snapshot.
LEMMA RestoreScriptTyped ==
  ASSUME NEW V, {"off", "default"} \subseteq V, NEW apps \in SUBSET App,
         NEW snap, snap = None \/ snap \in [Key -> V], NEW full
  PROVE  RestoreScript(snap, apps, full) \in Body(V)
<1> DEFINE last == IF snap = None THEN All(BlindKey, "default") ELSE snap
<1>1. /\ All({"doze"}, "off") \in Group(V) /\ All(apps, "off") \in Group(V)
      /\ All({"power", "saver"}, "off") \in Group(V)
      /\ All({"appops"}, "off") \in Group(V)
      /\ All(BlindKey, "default") \in Group(V)
  BY AllInGroup, NamesAssumption DEF Item, Knob
<1>2. snap # None => snap \in Group(V)
  BY DEF Group, Item
<1>3. last \in Group(V)
  BY <1>1, <1>2
<1>4. CASE mode = "Performance" /\ ~full
  <2>1. RestoreScript(snap, apps, full) =
          << All({"doze"}, "off"), All(apps, "off") >>
    BY <1>4 DEF RestoreScript
  <2> QED
    BY <1>1, <2>1 DEF Body
<1>5. CASE ~(mode = "Performance" /\ ~full)
  <2>1. RestoreScript(snap, apps, full) =
          << All({"doze"}, "off"), All(apps, "off"),
             All({"power", "saver"}, "off"), All({"appops"}, "off"), last >>
    BY <1>5 DEF RestoreScript
  <2> HIDE DEF last
  <2> QED
    BY <1>1, <1>3, <2>1 DEF Body
<1> QED
  BY <1>4, <1>5

LEMMA OptimizeScriptTyped ==
  ASSUME NEW game, NEW apps \in SUBSET App
  PROVE  OptimizeScript(game, apps) \in Body(Value)
<1>1. /\ All(apps, "on") \in Group(Value) /\ All({"doze"}, "on") \in Group(Value)
      /\ All({"power", "saver"}, "on") \in Group(Value)
      /\ All({game} \cap Game, "on") \in Group(Value)
      /\ All(Key, Tweak) \in Group(Value) /\ All({"appops"}, "on") \in Group(Value)
  BY AllInGroup DEF Item, Knob, Value
<1> QED
  BY <1>1 DEF OptimizeScript, Body

\* Spawning a script adds one to those in progress.
LEMMA DetachTyped ==
  ASSUME NEW V, scripts \in Seq(Body(V)), NEW script \in Body(V), Detach(script)
  PROVE  scripts' \in Seq(Body(V))
  BY AppendProperties DEF Detach

\* The device works on scripts without adding values of its own.
LEMMA RunScriptTyped ==
  ASSUME NEW V, scripts \in Seq(Body(V)), dev \in [Item -> V],
         NEW i \in DOMAIN scripts, RunScript(i)
  PROVE  scripts' \in Seq(Body(V)) /\ dev' \in [Item -> V]
<1>1. i \in 1..Len(scripts) /\ scripts[i] \in Body(V)
  OBVIOUS
<1>2. scripts[i] \in Seq(Group(V)) /\ scripts[i] # <<>>
  BY <1>1 DEF Body
<1>3. /\ Head(scripts[i]) \in Group(V)
      /\ Tail(scripts[i]) \in Seq(Group(V))
      /\ Len(Tail(scripts[i])) = Len(scripts[i]) - 1
  BY <1>2, HeadTailProperties
<1>4. dev' \in [Item -> V]
  BY <1>3 DEF RunScript, Group
<1>5. CASE Len(scripts[i]) = 1
  <2>1. scripts' = SubSeq(scripts, 1, i - 1) \o
                   SubSeq(scripts, i + 1, Len(scripts))
    BY <1>5 DEF RunScript, Advance
  <2>2. /\ SubSeq(scripts, 1, i - 1) \in Seq(Body(V))
        /\ SubSeq(scripts, i + 1, Len(scripts)) \in Seq(Body(V))
    <3>1. \A j \in 1..Len(scripts) : scripts[j] \in Body(V)
      OBVIOUS
    <3>2. /\ \A j \in 1..i - 1 : scripts[j] \in Body(V)
          /\ \A j \in i + 1..Len(scripts) : scripts[j] \in Body(V)
      BY <1>1, <3>1
    <3> QED
      BY <1>1, <3>2, SubSeqProperties
  <2> QED
    BY <1>4, <2>1, <2>2, ConcatProperties
<1>6. CASE Len(scripts[i]) # 1
  <2>1. scripts' = [scripts EXCEPT ![i] = Tail(scripts[i])]
    BY <1>6 DEF RunScript, Advance
  <2>2. Tail(scripts[i]) \in Body(V)
    <3>1. Len(Tail(scripts[i])) # 0
      BY <1>2, <1>3, <1>6, LenProperties
    <3> QED
      BY <1>3, <3>1, EmptySeq DEF Body
  <2> QED
    BY <1>1, <1>4, <2>1, <2>2
<1> QED
  BY <1>5, <1>6

-----------------------------------------------------------------------------
(* Only values of V are on the device and on their way to it *)

Writes(V) ==
  /\ dev \in [Item -> V]
  /\ scripts \in Seq(Body(V))
  /\ main = "spawn" => mscript \in Body(V)
  /\ \A r \in Restorer : rpc[r] = "spawn" => rscript[r] \in Body(V)

\* apply_optimizations touches the device with its script only.
LEMMA ApplyWrites ==
  ASSUME NEW V, Writes(V), Apply \/ \E game \in Game : ApplyCall(game),
         SpawnApply => OptimizeScript(target, detected) \in Body(V)
  PROVE  Writes(V)'
<1>1. CASE SpawnApply
  <2>1. UNCHANGED <<dev, main, mscript, rpc, rscript>>
    BY <1>1 DEF SpawnApply, mainVars, restoreVars
  <2>2. scripts' \in Seq(Body(V))
    BY <1>1, DetachTyped DEF SpawnApply, Writes
  <2> QED
    BY <2>1, <2>2 DEF Writes
<1>2. CASE ~SpawnApply
  BY <1>2 DEF Writes, Apply, ApplyCall, EnsureSnapshot, Ensure, Captured,
       ApplyCheck, Detect, SaveSecondary, StoreActive, mainVars, restoreVars
<1> QED
  BY <1>1, <1>2

\* restore_system writes what its script says, built from the snapshot.
LEMMA RestoreWrites ==
  ASSUME NEW V, Writes(V), {"off", "default"} \subseteq V, ListInv,
         snapshot = None \/ snapshot \in [Key -> V],
         NEW r \in Restorer, RestoreCall(r) \/ Restore(r)
  PROVE  Writes(V)'
<1>1. CASE RestoreCall(r)
  BY <1>1 DEF RestoreCall, Called, RestoreTo, Writes, ListInv, mainVars
<1>2. CASE RestoreTake(r)
  <2>1. RestoreScript(snapshot, secondary, FALSE) \in Body(V)
    BY RestoreScriptTyped DEF ListInv
  <2> QED
    BY <1>2, <2>1 DEF RestoreTake, RestoreTo, Writes, ListInv, mainVars
<1>3. CASE RestoreSpawn(r)
  <2>1. UNCHANGED <<dev, main, mscript>> /\ rpc[r] = "spawn"
    BY <1>3 DEF RestoreSpawn, mainVars
  <2>2. scripts' \in Seq(Body(V))
    BY <1>3, <2>1, DetachTyped DEF RestoreSpawn, Writes
  <2>3. ASSUME NEW q \in Restorer, rpc'[q] = "spawn"
        PROVE  rscript'[q] \in Body(V)
    BY <1>3, <2>3 DEF RestoreSpawn, RestoreTo, Writes, ListInv
  <2> QED
    BY <2>1, <2>2, <2>3 DEF Writes
<1>4. CASE RestoreStore(r)
  BY <1>4 DEF RestoreStore, Store, RestoreTo, Writes, ListInv, mainVars
<1> QED
  BY <1>1, <1>2, <1>3, <1>4 DEF Restore

\* So do the end of a life and a new life; the probes, the user and the
\* device write what V has.
LEMMA RestWrites ==
  ASSUME NEW V, Writes(V), {"on", "off", "default", "edited"} \subseteq V,
         ListInv, snapshot = None \/ snapshot \in [Key -> V],
         \/ Shutdown \/ Kill \/ Restart \/ Probe
         \/ \E k \in Key : UserEdits(k)
         \/ \E i \in DOMAIN scripts : RunScript(i)
  PROVE  Writes(V)'
<1>1. CASE ShutdownTake
  <2>1. RestoreScript(snapshot, secondary, TRUE) \in Body(V)
    BY RestoreScriptTyped DEF ListInv
  <2> QED
    BY <1>1, <2>1 DEF ShutdownTake, Writes, restoreVars
<1>2. CASE ShutdownSpawn
  <2>1. scripts' \in Seq(Body(V))
    BY <1>2, DetachTyped DEF ShutdownSpawn, Writes
  <2> QED
    BY <1>2, <2>1 DEF ShutdownSpawn, Writes, restoreVars
<1>3. CASE ShutdownStore \/ Exit \/ Kill \/ Restart
  BY <1>3 DEF ShutdownStore, Exit, Kill, Restart, Writes, restoreVars
<1>4. CASE Probe
  BY <1>4 DEF Probe, ProbeOn, ProbeOff, BenchOn, BenchOff, Switch, Writes,
              restoreVars, mainVars
<1>5. ASSUME NEW k \in Key, UserEdits(k) PROVE Writes(V)'
  BY <1>5 DEF UserEdits, Writes, restoreVars, mainVars
<1>6. ASSUME NEW i \in DOMAIN scripts, RunScript(i) PROVE Writes(V)'
  <2>1. scripts' \in Seq(Body(V)) /\ dev' \in [Item -> V]
    BY <1>6, RunScriptTyped DEF Writes
  <2> QED
    BY <1>6, <2>1 DEF RunScript, Writes, restoreVars, mainVars
<1> QED
  BY <1>1, <1>2, <1>3, <1>4, <1>5, <1>6 DEF Shutdown

LEMMA WritesKept ==
  ASSUME NEW V, Writes(V), {"on", "off", "default", "edited"} \subseteq V,
         ListInv, snapshot = None \/ snapshot \in [Key -> V],
         SpawnApply => OptimizeScript(target, detected) \in Body(V),
         [Next]_vars
  PROVE  Writes(V)'
<1>1. CASE UNCHANGED vars
  BY <1>1 DEF Writes, vars, restoreVars, mainVars
<1> QED
  BY <1>1, ApplyWrites, RestoreWrites, RestWrites DEF Next

-----------------------------------------------------------------------------
(* Typing *)

\* The typing of everything but the device and its scripts; a starting daemon
\* applies nothing before its probe is done.
ControlOK ==
  /\ snapshot = None \/ snapshot \in [Key -> Value]
  /\ capturing = (apc = "capture")
  /\ active \in BOOLEAN
  /\ mode \in Modes
  /\ apc \in {"idle", "ensure", "capture", "check", "detect", "save",
              "spawn", "store"}
  /\ target \in Game \cup {NoGame}
  /\ \A r \in Restorer : rpc[r] \in {"idle", "take", "spawn", "store"}
  /\ main \in {"probe", "probed", "up", "spawn", "store", "leaving", "exited"}
  /\ bench \in {"idle", "probed"}
  /\ main \in {"probe", "probed"} => apc = "idle"
  /\ races \in Nat

LEMMA ApplyControl ==
  ASSUME ControlOK, dev \in [Item -> Value],
         Apply \/ \E game \in Game : ApplyCall(game)
  PROVE  ControlOK'
<1> USE DEF ControlOK, Alive, restoreVars, mainVars, othersVars
<1>1. ASSUME NEW game \in Game, ApplyCall(game) PROVE ControlOK'
  BY <1>1 DEF ApplyCall
<1>2. CASE EnsureSnapshot
  BY <1>2 DEF EnsureSnapshot, Ensure
<1>3. CASE Captured
  <2>1. snapshot' = None \/ snapshot' \in [Key -> Value]
    BY <1>3 DEF Captured, Item, Value
  <2> QED
    BY <1>3, <2>1 DEF Captured
<1>4. CASE ApplyCheck \/ Detect \/ SaveSecondary
  BY <1>4 DEF ApplyCheck, Detect, SaveSecondary
<1>5. CASE SpawnApply \/ StoreActive
  BY <1>5 DEF SpawnApply, StoreActive
<1> QED
  BY <1>1, <1>2, <1>3, <1>4, <1>5 DEF Apply

LEMMA RestControl ==
  ASSUME ControlOK, ListInv,
         \/ \E r \in Restorer : RestoreCall(r) \/ Restore(r)
         \/ Shutdown \/ Kill \/ Restart \/ Probe
         \/ \E k \in Key : UserEdits(k)
         \/ \E i \in DOMAIN scripts : RunScript(i)
  PROVE  ControlOK'
<1> USE DEF ControlOK, applyVars, restoreVars, mainVars, othersVars
<1>1. ASSUME NEW r \in Restorer, RestoreCall(r) \/ Restore(r) PROVE ControlOK'
  <2>1. CASE RestoreCall(r)
    <3>1. races' \in Nat
      BY <2>1 DEF RestoreCall, Called, Race
    <3> QED
      BY <2>1, <3>1 DEF RestoreCall, Called, RestoreTo, ListInv
  <2>2. CASE Restore(r)
    BY <2>2 DEF Restore, RestoreTake, RestoreSpawn, RestoreStore, Store,
                RestoreTo, ListInv
  <2> QED
    BY <1>1, <2>1, <2>2
<1>2. CASE Shutdown \/ Kill
  BY <1>2 DEF Shutdown, ShutdownTake, ShutdownSpawn, ShutdownStore, Exit, Kill
<1>3. CASE Restart
  BY <1>3 DEF Restart
<1>4. CASE Probe
  BY <1>4 DEF Probe, ProbeOn, ProbeOff, BenchOn, BenchOff
<1>5. ASSUME NEW k \in Key, UserEdits(k) PROVE ControlOK'
  BY <1>5 DEF UserEdits
<1>6. ASSUME NEW i \in DOMAIN scripts, RunScript(i) PROVE ControlOK'
  BY <1>6 DEF RunScript, Race
<1> QED
  BY <1>1, <1>2, <1>3, <1>4, <1>5, <1>6

\* The device before the first daemon: nothing has a value of the optimizer's
\* own, Doze and the power modes are off, and an app is whitelisted or not.
LEMMA InitialDevice ==
  ASSUME Init
  PROVE  /\ dev \in [Item -> Value \ {Tweak}]
         /\ dev["doze"] = "off" /\ dev["power"] = "off"
         /\ \A a \in App : dev[a] \in {"on", "off"}
<1>1. PICK chosen \in [Key -> UserValues], alike \in SUBSET UserTweaks :
        dev = [i \in Item |-> IF i \in Key THEN chosen[i]
                             ELSE IF i \in alike THEN "on" ELSE "off"]
  BY DEF Init
<1>2. {"on", "off", "user", Unset} \subseteq Value \ {Tweak}
  BY DEF Value, Tweak, Unset
<1>3. \A k \in Key : chosen[k] \in {"user", Unset}
  BY UserAssumption
<1>4. ASSUME NEW i \in Item PROVE dev[i] \in Value \ {Tweak}
  <2>1. CASE i \in Key
    BY <1>1, <1>2, <1>3, <2>1
  <2>2. CASE i \notin Key
    BY <1>1, <1>2, <2>2
  <2> QED
    BY <2>1, <2>2
<1>5. dev \in [Item -> Value \ {Tweak}]
  BY <1>1, <1>4
<1>6. \A i \in {"doze", "power"} : i \notin Key /\ i \notin alike /\ i \in Item
  BY ItemsAssumption, UserAssumption DEF Knob, Item
<1>7. \A a \in App : a \notin Key /\ a \in Item
  BY ItemsAssumption DEF Item
<1> QED
  BY <1>1, <1>5, <1>6, <1>7

TypedInv == ControlOK /\ Writes(Value)

LEMMA TypedInvariant == Spec => []TypedInv
<1> USE DEF TypedInv
<1>1. Init => TypedInv
  <2> SUFFICES ASSUME Init PROVE TypedInv
    OBVIOUS
  <2>1. dev \in [Item -> Value]
    BY InitialDevice
  <2>2. Writes(Value)
    BY <2>1 DEF Init, Writes
  <2>3. ControlOK
    BY DEF Init, ControlOK
  <2> QED
    BY <2>2, <2>3
<1>2. TypedInv /\ ExitInv /\ [Next]_vars => TypedInv'
  <2> SUFFICES ASSUME TypedInv, ExitInv, [Next]_vars PROVE TypedInv'
    OBVIOUS
  <2>1. ListInv /\ dev \in [Item -> Value]
    BY DEF ExitInv, Writes
  <2>2. ControlOK'
    <3>1. CASE UNCHANGED vars
      BY <3>1 DEF ControlOK, vars, applyVars, restoreVars, mainVars, othersVars
    <3> QED
      BY <2>1, <3>1, ApplyControl, RestControl DEF Next
  <2>3. OptimizeScript(target, detected) \in Body(Value)
    BY <2>1, OptimizeScriptTyped DEF ListInv
  <2>4. {"on", "off", "default", "edited"} \subseteq Value
    BY DEF Value
  <2>5. snapshot = None \/ snapshot \in [Key -> Value]
    BY DEF ControlOK
  <2>6. Writes(Value)'
    BY <2>1, <2>3, <2>4, <2>5, WritesKept
  <2> QED
    BY <2>2, <2>6
<1> HIDE DEF TypedInv
<1> QED
  BY <1>1, <1>2, ExitInvariant, PTL DEF Spec

\* The type invariant, for every number of restorations, scripts, failures,
\* lives, bench commands and edits.
THEOREM OptimizerTypeCorrect == Spec => []TypeOK
<1>1. TypedInv /\ ExitInv => TypeOK
  <2> SUFFICES ASSUME TypedInv, ExitInv,
                      NEW i \in DOMAIN scripts, NEW j \in DOMAIN scripts[i]
               PROVE  DOMAIN scripts[i][j] \subseteq Item
    BY DEF TypeOK, TypedInv, ControlOK, Writes, ExitInv, ListInv
  <2>1. scripts[i] \in Seq(Group(Value))
    BY DEF TypedInv, Writes, Body
  <2>2. scripts[i][j] \in Group(Value)
    BY <2>1
  <2> QED
    BY <2>2 DEF Group
<1> QED
  BY <1>1, TypedInvariant, ExitInvariant, PTL

-----------------------------------------------------------------------------
(* No tweak is captured *)

Untweaked == Value \ {Tweak}

\* Until the snapshot is taken nothing writes a tweak, and nothing that is in
\* progress will: the tweaks are spawned behind a capture.
PreTweak ==
  IF snapshot = None THEN Writes(Untweaked) ELSE snapshot \in [Key -> Untweaked]

FirstLifeInv == lives \in Nat \ {0} /\ (faults = 0 /\ lives = 1 => PreTweak)

\* Faults are never forgotten.
LEMMA WhoCountsFaults ==
  ASSUME [Next]_vars
  PROVE  UNCHANGED faults \/ faults' = faults + 1
  BY DEF Next, vars, ApplyCall, Apply, EnsureSnapshot, Ensure, Captured,
         ApplyCheck, Detect, SaveSecondary, SpawnApply, StoreActive,
         RestoreCall, Called, Restore, RestoreTake, RestoreSpawn, RestoreStore,
         Store, Shutdown, ShutdownTake, ShutdownSpawn, ShutdownStore, Exit,
         Kill, Restart, RunScript, Probe, ProbeOn, ProbeOff, BenchOn,
         BenchOff, UserEdits, Fault, Switch

\* As long as no rish call failed and the daemon was not restarted, the
\* snapshot holds no value of the optimizer's own, however many calls and
\* scripts are in progress.
THEOREM SnapshotIsPristine ==
  Spec => [](faults = 0 /\ lives = 1 => SnapshotIsPreTweak)
<1>1. Init => FirstLifeInv
  <2> SUFFICES ASSUME Init PROVE Writes(Untweaked) /\ snapshot = None /\ lives = 1
    BY DEF FirstLifeInv, PreTweak
  <2>1. dev \in [Item -> Untweaked]
    BY InitialDevice DEF Untweaked
  <2> QED
    BY <2>1 DEF Init, Writes
<1>2. FirstLifeInv /\ ExitInv /\ CaptureInv /\ [Next]_vars => FirstLifeInv'
  <2> SUFFICES ASSUME FirstLifeInv, ExitInv, CaptureInv, [Next]_vars
               PROVE  FirstLifeInv'
    OBVIOUS
  <2>1. lives' \in Nat \ {0} /\ (lives' = 1 => lives' = lives /\ lives = 1)
    BY WhoCountsLives DEF FirstLifeInv
  <2> SUFFICES ASSUME faults' = 0, lives' = 1 PROVE PreTweak'
    BY <2>1 DEF FirstLifeInv
  <2>2. faults = 0 /\ lives = 1 /\ PreTweak /\ ListInv /\ Captures
    BY <2>1, WhoCountsFaults DEF FirstLifeInv, ExitInv, ListInv
  <2>3. ~Restart
    BY <2>1, <2>2 DEF Restart
  <2>4. CASE snapshot # None
    <3>1. ~Captured
      BY <2>4 DEF Captured, CaptureInv
    <3> QED
      BY <2>2, <2>3, <2>4, <3>1, WhoChangesSnapshot DEF PreTweak
  <2>5. CASE snapshot = None
    <3>1. Writes(Untweaked)
      BY <2>2, <2>5 DEF PreTweak
    <3>2. CASE UNCHANGED snapshot
      <4>1. ~SpawnApply
        BY <2>2, <2>5 DEF SpawnApply, Captures
      <4>2. {"on", "off", "default", "edited"} \subseteq Untweaked
        BY DEF Untweaked, Value, Tweak
      <4>3. Writes(Untweaked)'
        BY <2>2, <2>5, <3>1, <4>1, <4>2, WritesKept
      <4> QED
        BY <2>5, <3>2, <4>3 DEF PreTweak
    <3>3. CASE Captured
      <4>1. snapshot' = [k \in Key |-> dev[k]]
        BY <2>2, <3>3 DEF Captured, Fault
      <4>2. snapshot' \in [Key -> Untweaked]
        BY <3>1, <4>1 DEF Writes, Item
      <4>3. snapshot' # None
        BY <4>1, NamesAssumption DEF None
      <4> QED
        BY <4>2, <4>3 DEF PreTweak
    <3> QED
      BY <2>3, <3>2, <3>3, WhoChangesSnapshot
  <2> QED
    BY <2>4, <2>5
<1>3. FirstLifeInv => (faults = 0 /\ lives = 1 => SnapshotIsPreTweak)
  BY DEF FirstLifeInv, PreTweak, SnapshotIsPreTweak, Untweaked
<1> QED
  BY <1>1, <1>2, <1>3, CaptureInvariant, ExitInvariant, PTL DEF Spec

-----------------------------------------------------------------------------
(* What the device will be in *)

\* The script does not write the item.
Skips(script, item) == \A j \in DOMAIN script : item \notin DOMAIN script[j]

\* The script writes the item, v the last time.
Leaves(script, item, v) ==
  \E j \in DOMAIN script :
    /\ item \in DOMAIN script[j] /\ script[j][item] = v
    /\ \A m \in DOMAIN script : m > j => item \notin DOMAIN script[m]

\* The items no script in progress writes.
Quiet == {item \in Item : \A i \in DOMAIN scripts : Skips(scripts[i], item)}

\* The value each item has when the scripts in progress are done, as a set
\* with one element.
Final == [item \in Item |-> {v \in Value :
  \/ item \in Quiet /\ dev[item] = v
  \/ \E i \in DOMAIN scripts :
       /\ Leaves(scripts[i], item, v)
       /\ \A m \in DOMAIN scripts : m > i => Skips(scripts[m], item)}]

\* Carrying out the next group of script i: of the last group the script ends,
\* of any other it loses its head.
LEMMA NextGroup ==
  ASSUME scripts \in Seq(Body(Value)), NEW i \in 1..Len(scripts), Advance(i)
  PROVE  \/ /\ DOMAIN scripts[i] = {1}
            /\ DOMAIN scripts' = 1..Len(scripts) - 1
            /\ \A m \in 1..Len(scripts) - 1 :
                 scripts'[m] = IF m < i THEN scripts[m] ELSE scripts[m + 1]
         \/ /\ DOMAIN scripts[i] # {1}
            /\ DOMAIN scripts' = 1..Len(scripts)
            /\ \A m \in 1..Len(scripts) \ {i} : scripts'[m] = scripts[m]
            /\ DOMAIN scripts'[i] = 1..Len(scripts[i]) - 1
            /\ \A j \in 1..Len(scripts[i]) - 1 :
                 scripts'[i][j] = scripts[i][j + 1]
<1>1. scripts[i] \in Seq(Group(Value)) /\ scripts[i] # <<>>
  BY DEF Body
<1>2. CASE Len(scripts[i]) = 1
  <2> DEFINE older == SubSeq(scripts, 1, i - 1)
             newer == SubSeq(scripts, i + 1, Len(scripts))
  <2>1. scripts' = older \o newer
    BY <1>2 DEF Advance
  <2>2. DOMAIN scripts[i] = {1}
    BY <1>1, <1>2
  <2>3. \A m \in 1..Len(scripts) : scripts[m] \in Body(Value)
    OBVIOUS
  <2>4. /\ older \in Seq(Body(Value)) /\ Len(older) = i - 1
        /\ \A m \in 1..i - 1 : older[m] = scripts[m]
    BY <2>3, SubSeqProperties
  <2>5. /\ newer \in Seq(Body(Value)) /\ Len(newer) = Len(scripts) - i
        /\ \A m \in 1..Len(scripts) - i : newer[m] = scripts[i + m]
    <3>1. CASE i = Len(scripts)
      <4>1. newer = <<>>
        BY <3>1
      <4> QED
        BY <3>1, <4>1
    <3>2. CASE i < Len(scripts)
      <4> DEFINE first == i + 1
                 last == Len(scripts)
      <4>1. /\ first \in Int /\ last \in Int /\ first <= last
            /\ last - first + 1 = Len(scripts) - i
            /\ \A m \in 1..Len(scripts) - i : first + m - 1 = i + m
            /\ first..last \subseteq 1..Len(scripts)
        BY <3>2
      <4>2. \A m \in first..last : scripts[m] \in Body(Value)
        BY <2>3, <4>1
      <4>3. newer = SubSeq(scripts, first, last)
        OBVIOUS
      <4> HIDE DEF first, last, newer
      <4>4. /\ newer \in Seq(Body(Value)) /\ Len(newer) = last - first + 1
            /\ \A m \in 1..last - first + 1 :
                 newer[m] = scripts[first + m - 1]
        BY <4>1, <4>2, <4>3, SubSeqProperties
      <4> QED
        BY <4>1, <4>4
    <3> QED
      BY <3>1, <3>2
  <2> HIDE DEF older, newer
  <2>6. /\ Len(scripts') = Len(scripts) - 1 /\ scripts' \in Seq(Body(Value))
        /\ \A m \in 1..Len(scripts) - 1 :
             scripts'[m] = IF m <= i - 1 THEN older[m] ELSE newer[m - (i - 1)]
    <3>1. Len(older) + Len(newer) = Len(scripts) - 1
      BY <2>4, <2>5
    <3>2. /\ Len(older \o newer) = Len(older) + Len(newer)
          /\ older \o newer \in Seq(Body(Value))
          /\ \A m \in 1..Len(older) + Len(newer) : (older \o newer)[m] =
               IF m <= Len(older) THEN older[m] ELSE newer[m - Len(older)]
      BY <2>4, <2>5, ConcatProperties
    <3> QED
      BY <2>1, <2>4, <3>1, <3>2
  <2>7. ASSUME NEW m \in 1..Len(scripts) - 1
        PROVE  scripts'[m] = IF m < i THEN scripts[m] ELSE scripts[m + 1]
    <3>1. CASE m < i
      BY <2>4, <2>6, <3>1
    <3>2. CASE m >= i
      <4>1. /\ m - (i - 1) \in 1..Len(scripts) - i
            /\ i + (m - (i - 1)) = m + 1 /\ ~(m <= i - 1)
        BY <3>2
      <4>2. scripts'[m] = newer[m - (i - 1)]
        BY <2>6, <4>1
      <4> QED
        BY <2>5, <3>2, <4>1, <4>2
    <3> QED
      BY <3>1, <3>2
  <2> QED
    BY <2>2, <2>6, <2>7
<1>3. CASE Len(scripts[i]) # 1
  <2>1. scripts' = [scripts EXCEPT ![i] = Tail(scripts[i])]
    BY <1>3 DEF Advance
  <2>2. /\ Len(Tail(scripts[i])) = Len(scripts[i]) - 1
        /\ Tail(scripts[i]) \in Seq(Group(Value))
        /\ \A j \in 1..Len(scripts[i]) - 1 :
             Tail(scripts[i])[j] = scripts[i][j + 1]
    BY <1>1, HeadTailProperties
  <2>3. DOMAIN scripts[i] # {1}
    <3>1. DOMAIN scripts[i] = 1..Len(scripts[i]) /\ Len(scripts[i]) \in Nat \ {0}
      BY <1>1
    <3>2. Len(scripts[i]) \in DOMAIN scripts[i]
      BY <3>1
    <3> QED
      BY <1>3, <3>2
  <2> QED
    BY <2>1, <2>2, <2>3
<1> QED
  BY <1>2, <1>3

\* A script that works on items no older one has still to write changes
\* nothing of what the scripts leave, whatever order they run in.
LEMMA RunKeepsFinal ==
  ASSUME scripts \in Seq(Body(Value)), dev \in [Item -> Value],
         NEW i \in DOMAIN scripts, RunScript(i), Due(i),
         NEW item \in Item
  PROVE  /\ item \in Quiet => item \in Quiet' /\ dev'[item] = dev[item]
         /\ Final[item] \subseteq Final'[item]
<1>1. i \in 1..Len(scripts) /\ Advance(i)
  BY DEF RunScript
<1>2. /\ DOMAIN scripts = 1..Len(scripts) /\ Len(scripts) \in Nat
      /\ scripts[i] \in Seq(Group(Value)) /\ scripts[i] # <<>>
      /\ 1 \in DOMAIN scripts[i] /\ Len(scripts[i]) \in Nat
      /\ DOMAIN scripts[i] = 1..Len(scripts[i])
      /\ Head(scripts[i]) = scripts[i][1]
  BY <1>1 DEF Body
<1>3. dev'[item] = IF item \in DOMAIN scripts[i][1] THEN scripts[i][1][item]
                   ELSE dev[item]
  BY <1>2 DEF RunScript
<1>4. item \in DOMAIN scripts[i][1] =>
        \A m \in DOMAIN scripts : m < i => Skips(scripts[m], item)
  BY <1>1, <1>2 DEF Due, Skips
\* Where script n of the old ones is among the new ones; the groups it has left.
<1> DEFINE ends == DOMAIN scripts[i] = {1}
           new(n) == IF ends /\ n > i THEN n - 1 ELSE n
           old(n) == IF ends /\ n >= i THEN n + 1 ELSE n
<1>5. /\ \A m \in DOMAIN scripts' :
           /\ old(m) \in DOMAIN scripts /\ (old(m) = i => ~ends)
           /\ old(m) # i => scripts'[m] = scripts[old(m)]
      /\ \A n \in DOMAIN scripts : ~(ends /\ n = i) =>
           new(n) \in DOMAIN scripts' /\ old(new(n)) = n
      /\ \A m \in DOMAIN scripts', n \in DOMAIN scripts :
           m > new(n) /\ ~(ends /\ n = i) => old(m) > n
      /\ ~ends => /\ \A j \in DOMAIN scripts'[i] :
                       /\ j \in Nat \ {0} /\ j + 1 \in DOMAIN scripts[i]
                       /\ scripts'[i][j] = scripts[i][j + 1]
                  /\ \A j \in DOMAIN scripts[i] \ {1} :
                       j - 1 \in DOMAIN scripts'[i]
                  /\ i \in DOMAIN scripts'
  <2>1. CASE /\ ends /\ DOMAIN scripts' = 1..Len(scripts) - 1
             /\ \A m \in 1..Len(scripts) - 1 :
                  scripts'[m] = IF m < i THEN scripts[m] ELSE scripts[m + 1]
    <3>1. \A m \in DOMAIN scripts' :
            old(m) \in DOMAIN scripts /\ old(m) # i
            /\ scripts'[m] = scripts[old(m)]
      BY <1>1, <1>2, <2>1
    <3>2. \A n \in DOMAIN scripts : n # i =>
            new(n) \in DOMAIN scripts' /\ old(new(n)) = n
      BY <1>1, <1>2, <2>1
    <3>3. \A m \in DOMAIN scripts', n \in DOMAIN scripts :
            m > new(n) /\ n # i => old(m) > n
      BY <1>1, <1>2, <2>1
    <3> HIDE DEF new, old
    <3> QED
      BY <2>1, <3>1, <3>2, <3>3
  <2>2. CASE /\ ~ends /\ DOMAIN scripts' = 1..Len(scripts)
             /\ \A m \in 1..Len(scripts) \ {i} : scripts'[m] = scripts[m]
             /\ DOMAIN scripts'[i] = 1..Len(scripts[i]) - 1
             /\ \A j \in 1..Len(scripts[i]) - 1 :
                  scripts'[i][j] = scripts[i][j + 1]
    BY <1>1, <1>2, <2>2
  <2> QED
    BY <1>1, <2>1, <2>2, NextGroup
<1> HIDE DEF ends, new, old
\* What a script skips it skips after the step, and so for each of the new ones.
<1>6. \A m \in DOMAIN scripts' :
        Skips(scripts[old(m)], item) => Skips(scripts'[m], item)
  <2> SUFFICES ASSUME NEW m \in DOMAIN scripts', Skips(scripts[old(m)], item)
               PROVE  Skips(scripts'[m], item)
    OBVIOUS
  <2>1. CASE old(m) # i
    BY <1>5, <2>1
  <2>2. CASE old(m) = i
    <3>1. ~ends /\ m = i
      BY <1>5, <2>2 DEF old
    <3> QED
      BY <1>5, <2>2, <3>1 DEF Skips
  <2> QED
    BY <2>1, <2>2
<1>7. item \in Quiet => item \in Quiet' /\ dev'[item] = dev[item]
  <2>1. ASSUME item \in Quiet
        PROVE  \A m \in DOMAIN scripts' : Skips(scripts'[m], item)
    BY <1>5, <1>6, <2>1 DEF Quiet
  <2>2. item \in Quiet => item \notin DOMAIN scripts[i][1]
    BY <1>2 DEF Quiet, Skips
  <2> QED
    BY <1>3, <2>1, <2>2 DEF Quiet, Skips
<1>8. ASSUME NEW v \in Final[item] PROVE v \in Final'[item]
  <2>1. CASE item \in Quiet /\ dev[item] = v
    BY <1>7, <2>1 DEF Final
  <2>2. ASSUME NEW n \in DOMAIN scripts, Leaves(scripts[n], item, v),
               \A m \in DOMAIN scripts : m > n => Skips(scripts[m], item)
        PROVE  v \in Final'[item]
    <3>1. \A m \in DOMAIN scripts' :
            m > new(n) /\ ~(ends /\ n = i) => Skips(scripts'[m], item)
      BY <1>5, <1>6, <2>2
    <3>2. CASE n # i
      <4>1. new(n) \in DOMAIN scripts' /\ scripts'[new(n)] = scripts[n]
        BY <1>5, <3>2
      <4> QED
        BY <2>2, <3>1, <3>2, <4>1 DEF Final, Leaves, Skips
    <3>3. CASE n = i
      <4>1. PICK j \in DOMAIN scripts[i] :
              /\ item \in DOMAIN scripts[i][j] /\ scripts[i][j][item] = v
              /\ \A m \in DOMAIN scripts[i] :
                   m > j => item \notin DOMAIN scripts[i][m]
        BY <2>2, <3>3 DEF Leaves
      \* The group just carried out was the last to write the item ...
      <4>2. CASE j = 1
        <5>1. \A m \in DOMAIN scripts : m # i => Skips(scripts[m], item)
          BY <1>1, <1>2, <1>4, <2>2, <3>3, <4>1, <4>2
        <5>2. ~ends => Skips(scripts'[i], item)
          <6>1. ASSUME ~ends, NEW m \in DOMAIN scripts'[i]
                PROVE  item \notin DOMAIN scripts'[i][m]
            <7>1. m + 1 > 1 /\ m + 1 \in DOMAIN scripts[i]
              BY <1>5, <6>1
            <7> QED
              BY <1>5, <4>1, <4>2, <6>1, <7>1
          <6> QED
            BY <6>1 DEF Skips
        <5>3. \A m \in DOMAIN scripts' : Skips(scripts'[m], item)
          BY <1>5, <1>6, <5>1, <5>2 DEF old
        <5> QED
          BY <1>3, <4>1, <4>2, <5>3 DEF Final, Quiet, Skips
      \* ... or it is still to come.
      <4>3. CASE j # 1
        <5>1. ~ends
          BY <4>1, <4>3 DEF ends
        <5>2. /\ i \in DOMAIN scripts' /\ new(i) = i
              /\ j - 1 \in DOMAIN scripts'[i] /\ scripts'[i][j - 1] = scripts[i][j]
          <6>1. j - 1 \in DOMAIN scripts'[i] /\ (j - 1) + 1 = j
            BY <1>2, <1>5, <4>1, <4>3, <5>1
          <6> QED
            BY <1>5, <5>1, <6>1 DEF new
        <5>3. \A m \in DOMAIN scripts'[i] :
                m > j - 1 => item \notin DOMAIN scripts'[i][m]
          <6>1. \A m \in DOMAIN scripts'[i] : m > j - 1 => m + 1 > j
            BY <1>2, <1>5, <5>1
          <6> QED
            BY <1>5, <4>1, <5>1, <6>1
        <5>4. Leaves(scripts'[i], item, v)
          BY <4>1, <5>2, <5>3 DEF Leaves
        <5> QED
          BY <3>1, <3>3, <5>1, <5>2, <5>4 DEF Final, Leaves, Skips
      <4> QED
        BY <4>2, <4>3
    <3> QED
      BY <3>2, <3>3
  <2> QED
    BY <2>1, <2>2 DEF Final
<1> QED
  BY <1>7, <1>8

\* A script that is spawned leaves what it writes, and what it does not write
\* is left as before.
LEMMA DetachChangesFinal ==
  ASSUME scripts \in Seq(Body(Value)), NEW script \in Body(Value),
         Detach(script), UNCHANGED dev, NEW item \in Item
  PROVE  /\ Skips(script, item) =>
              /\ item \in Quiet => item \in Quiet'
              /\ Final[item] \subseteq Final'[item]
         /\ \A v \in Value : Leaves(script, item, v) => v \in Final'[item]
<1>1. /\ DOMAIN scripts = 1..Len(scripts) /\ Len(scripts) \in Nat
      /\ DOMAIN scripts' = 1..Len(scripts) + 1
      /\ \A i \in DOMAIN scripts : scripts'[i] = scripts[i]
      /\ scripts'[Len(scripts) + 1] = script
  BY AppendProperties DEF Detach
<1>2. ASSUME Skips(script, item), item \in Quiet PROVE item \in Quiet'
  <2>1. \A i \in DOMAIN scripts' : Skips(scripts'[i], item)
    BY <1>1, <1>2 DEF Quiet
  <2> QED
    BY <1>2, <2>1 DEF Quiet, Skips
<1>3. ASSUME Skips(script, item), NEW v \in Final[item] PROVE v \in Final'[item]
  <2>1. CASE item \in Quiet /\ dev[item] = v
    BY <1>2, <1>3, <2>1 DEF Final
  <2>2. ASSUME NEW i \in DOMAIN scripts, Leaves(scripts[i], item, v),
               \A m \in DOMAIN scripts : m > i => Skips(scripts[m], item)
        PROVE  v \in Final'[item]
    <3>1. i \in DOMAIN scripts' /\ scripts'[i] = scripts[i]
      BY <1>1
    <3>2. \A m \in DOMAIN scripts' : m > i => Skips(scripts'[m], item)
      BY <1>1, <1>3, <2>2
    <3> QED
      BY <2>2, <3>1, <3>2 DEF Final, Leaves, Skips
  <2> QED
    BY <2>1, <2>2 DEF Final
<1>4. ASSUME NEW v \in Value, Leaves(script, item, v) PROVE v \in Final'[item]
  <2>1. /\ Len(scripts) + 1 \in DOMAIN scripts'
        /\ \A m \in DOMAIN scripts' :
             m > Len(scripts) + 1 => Skips(scripts'[m], item)
    BY <1>1
  <2> QED
    BY <1>1, <1>4, <2>1 DEF Final, Leaves, Skips
<1> QED
  BY <1>2, <1>3, <1>4

\* A write past the scripts counts for an item no script writes.
LEMMA WriteChangesFinal ==
  ASSUME UNCHANGED scripts, dev' \in [Item -> Value], NEW item \in Item
  PROVE  /\ item \in Quiet <=> item \in Quiet'
         /\ item \in Quiet => dev'[item] \in Final'[item]
         /\ item \notin Quiet \/ dev'[item] = dev[item]
              => Final[item] \subseteq Final'[item]
<1>1. item \in Quiet <=> item \in Quiet'
  BY DEF Quiet, Skips
<1>2. item \in Quiet => dev'[item] \in Final'[item]
  BY <1>1 DEF Final
<1>3. ASSUME NEW v \in Final[item], item \notin Quiet \/ dev'[item] = dev[item]
      PROVE  v \in Final'[item]
  <2>1. CASE item \in Quiet /\ dev[item] = v
    BY <1>1, <1>3, <2>1 DEF Final
  <2>2. CASE \E i \in DOMAIN scripts :
               /\ Leaves(scripts[i], item, v)
               /\ \A m \in DOMAIN scripts : m > i => Skips(scripts[m], item)
    BY <1>3, <2>2 DEF Final, Leaves, Skips
  <2> QED
    BY <1>3, <2>1, <2>2 DEF Final
<1> QED
  BY <1>1, <1>2, <1>3

\* With no script in progress the device is where the scripts left it.
LEMMA NothingPending ==
  ASSUME scripts = <<>>, NEW item \in Item, NEW v \in Final[item]
  PROVE  dev[item] = v
  BY DEF Final

-----------------------------------------------------------------------------
(* What the two scripts leave *)

\* An item that one group at most writes keeps what that group writes.
LEMMA OneGroup ==
  ASSUME NEW script, DOMAIN script \subseteq Nat, NEW j \in DOMAIN script,
         NEW item,
         \A m \in DOMAIN script : m # j => item \notin DOMAIN script[m]
  PROVE  /\ item \in DOMAIN script[j] => Leaves(script, item, script[j][item])
         /\ item \notin DOMAIN script[j] => Skips(script, item)
  BY DEF Leaves, Skips

\* The tweaks: every knob on, every key at its tweak, the apps whitelisted.
LEMMA OptimizeLeaves ==
  ASSUME NEW game \in Game \cup {NoGame}, NEW apps \in SUBSET App,
         NEW script, script = OptimizeScript(game, apps)
  PROVE  /\ \A item \in {"doze", "power", "saver", "appops"} :
              Leaves(script, item, "on")
         /\ \A k \in Key : Leaves(script, k, Tweak)
         /\ \A a \in apps : Leaves(script, a, "on")
         /\ \A a \in App \ apps : Skips(script, a)
<1>1. script = << All(apps, "on"), All({"doze"}, "on"),
                  All({"power", "saver"}, "on"), All({game} \cap Game, "on"),
                  All(Key, Tweak), All({"appops"}, "on") >>
  BY DEF OptimizeScript
<1>2. /\ DOMAIN script = 1..6
      /\ script[1] = All(apps, "on") /\ script[2] = All({"doze"}, "on")
      /\ script[3] = All({"power", "saver"}, "on")
      /\ script[4] = All({game} \cap Game, "on")
      /\ script[5] = All(Key, Tweak) /\ script[6] = All({"appops"}, "on")
  BY ONLY <1>1
<1>3. /\ DOMAIN script[1] = apps /\ DOMAIN script[2] = {"doze"}
      /\ DOMAIN script[3] = {"power", "saver"}
      /\ DOMAIN script[4] \subseteq Game
      /\ DOMAIN script[5] = Key /\ DOMAIN script[6] = {"appops"}
  BY ONLY <1>2 DEF All
<1>4. /\ \A a \in apps : script[1][a] = "on"
      /\ script[2]["doze"] = "on"
      /\ \A item \in {"power", "saver"} : script[3][item] = "on"
      /\ \A k \in Key : script[5][k] = Tweak
      /\ script[6]["appops"] = "on"
  BY ONLY <1>2 DEF All
<1>5. \A item, j, m : /\ j \in 1..6 /\ m \in 1..6
                      /\ item \in DOMAIN script[j] /\ item \in DOMAIN script[m]
                      => j = m
  BY <1>3, ItemsAssumption DEF Knob
<1>6. ASSUME NEW j \in 1..6, NEW item \in DOMAIN script[j]
      PROVE  Leaves(script, item, script[j][item])
  <2>1. \A m \in DOMAIN script : m # j => item \notin DOMAIN script[m]
    BY <1>2, <1>5
  <2> QED
    BY <1>2, <2>1, OneGroup
<1>7. ASSUME NEW a \in App \ apps PROVE Skips(script, a)
  BY <1>2, <1>3, <1>7, ItemsAssumption DEF Knob, Skips
<1> QED
  BY <1>3, <1>4, <1>6, <1>7

\* A restoration with a snapshot takes Doze and the whitelist back; in
\* Adaptive mode the other knobs and the keys too.
LEMMA RestoreLeaves ==
  ASSUME NEW snap \in [Key -> Value], snap # None, NEW apps \in SUBSET App,
         NEW script, script = RestoreScript(snap, apps, FALSE)
  PROVE  /\ DOMAIN script[2] = apps
         /\ Leaves(script, "doze", "off")
         /\ \A a \in apps : Leaves(script, a, "off")
         /\ \A a \in App \ apps : Skips(script, a)
         /\ mode = "Performance" =>
              \A item \in Key \cup {"power", "saver", "appops"} :
                Skips(script, item)
         /\ mode # "Performance" =>
              /\ \A item \in {"power", "saver", "appops"} :
                   Leaves(script, item, "off")
              /\ \A k \in Key : Leaves(script, k, snap[k])
<1>1. CASE mode = "Performance"
  <2>1. script = << All({"doze"}, "off"), All(apps, "off") >>
    BY <1>1 DEF RestoreScript
  <2>2. /\ DOMAIN script = 1..2
        /\ script[1] = All({"doze"}, "off") /\ script[2] = All(apps, "off")
    BY ONLY <2>1
  <2>3. /\ DOMAIN script[1] = {"doze"} /\ DOMAIN script[2] = apps
        /\ script[1]["doze"] = "off" /\ \A a \in apps : script[2][a] = "off"
    BY ONLY <2>2 DEF All
  <2>4. "doze" \notin App /\ "doze" \notin Key
        /\ \A a \in apps : a \notin Key \cup {"power", "saver", "appops"}
    BY ItemsAssumption DEF Knob
  <2>5. /\ Leaves(script, "doze", "off")
        /\ \A a \in apps : Leaves(script, a, "off")
    BY ONLY <2>2, <2>3, <2>4, OneGroup
  <2>6. /\ \A a \in App \ apps : Skips(script, a)
        /\ \A item \in Key \cup {"power", "saver", "appops"} :
             Skips(script, item)
    BY ONLY <2>2, <2>3, <2>4, apps \in SUBSET App DEF Skips
  <2> QED
    BY <1>1, <2>3, <2>5, <2>6
<1>2. CASE mode # "Performance"
  <2>1. script = << All({"doze"}, "off"), All(apps, "off"),
                    All({"power", "saver"}, "off"), All({"appops"}, "off"),
                    snap >>
    BY <1>2 DEF RestoreScript
  <2>2. /\ DOMAIN script = 1..5
        /\ script[1] = All({"doze"}, "off") /\ script[2] = All(apps, "off")
        /\ script[3] = All({"power", "saver"}, "off")
        /\ script[4] = All({"appops"}, "off") /\ script[5] = snap
    BY ONLY <2>1
  <2>3. /\ DOMAIN script[1] = {"doze"} /\ DOMAIN script[2] = apps
        /\ DOMAIN script[3] = {"power", "saver"}
        /\ DOMAIN script[4] = {"appops"} /\ DOMAIN script[5] = Key
    BY ONLY <2>2, snap \in [Key -> Value] DEF All
  <2>4. /\ script[1]["doze"] = "off" /\ \A a \in apps : script[2][a] = "off"
        /\ \A item \in {"power", "saver"} : script[3][item] = "off"
        /\ script[4]["appops"] = "off"
    BY ONLY <2>2 DEF All
  <2>5. \A item, j, m : /\ j \in 1..5 /\ m \in 1..5
                        /\ item \in DOMAIN script[j]
                        /\ item \in DOMAIN script[m]
                        => j = m
    BY ONLY <2>3, ItemsAssumption, apps \in SUBSET App DEF Knob
  <2>6. ASSUME NEW j \in 1..5, NEW item \in DOMAIN script[j]
        PROVE  Leaves(script, item, script[j][item])
    <3>1. \A m \in DOMAIN script : m # j => item \notin DOMAIN script[m]
      BY ONLY <2>2, <2>5, j \in 1..5, item \in DOMAIN script[j]
    <3> QED
      BY ONLY <2>2, <3>1, OneGroup, j \in 1..5, item \in DOMAIN script[j]
  <2>7. ASSUME NEW a \in App \ apps PROVE Skips(script, a)
    BY ONLY <2>2, <2>3, <2>7, ItemsAssumption DEF Knob, Skips
  <2>8. /\ Leaves(script, "doze", "off")
        /\ \A a \in apps : Leaves(script, a, "off")
        /\ \A item \in {"power", "saver", "appops"} :
             Leaves(script, item, "off")
        /\ \A k \in Key : Leaves(script, k, snap[k])
    BY ONLY <2>2, <2>3, <2>4, <2>6
  <2> QED
    BY <1>2, <2>3, <2>7, <2>8
<1> QED
  BY <1>1, <1>2

-----------------------------------------------------------------------------
(* The flag and the device *)

\* The last script spawned is that of the tweaks.
Tweaking ==
  apc = "store" \/ (active /\ \A r \in Restorer : rpc[r] # "store")

Starting == main \in {"probe", "probed"}

\* Nothing failed, nothing was restarted, nothing was out of turn, and main
\* does not shut down.
Orderly ==
  faults = 0 /\ lives = 1 /\ races = 0 /\ (Starting \/ main = "up")

\* The tweaks are spawned with the flag down, a restoration with the flag up:
\* one of them excludes the other, and a second restoration.
ExclInv ==
  /\ Starting => ~active
  /\ apc \in {"detect", "save", "spawn", "store"} => ~active
  /\ apc = "spawn" => secondary = detected
  /\ \A r \in Restorer : rpc[r] # "idle" => active
  /\ \A q, r \in Restorer : rpc[q] # "idle" /\ rpc[r] # "idle" => q = r
  /\ \A r \in Restorer : rpc[r] = "spawn" =>
       /\ secondary = {}
       /\ \E apps \in SUBSET App :
            rscript[r] = RestoreScript(snapshot, apps, FALSE)
  /\ edits \in Nat /\ benches \in Nat
  /\ bench = "probed" => benches > 0

\* The snapshot was taken before any script; what differs from it since, the
\* user edited.
SnapInv ==
  /\ DOMAIN baseline = Item
  /\ IF snapshot = None
     THEN scripts = <<>> /\ \A k \in Key : dev[k] = baseline[k]
     ELSE \A k \in Key : snapshot[k] = baseline[k] \/ edits > 0

DozeInv == (IF Tweaking THEN "on" ELSE "off") \in Final["doze"]

\* An app that will be whitelisted is the user's, or in the secondary list or
\* in the script of the restoration that took the list.
AppInv ==
  \A a \in App :
    /\ Tweaking /\ a \in secondary => "on" \in Final[a]
    /\ \/ "off" \in Final[a] \/ baseline[a] = "on"
       \/ Tweaking /\ a \in secondary
       \/ /\ Tweaking
          /\ \E r \in Restorer : rpc[r] = "spawn" /\ a \in DOMAIN rscript[r][2]

GlobalsTweaked ==
  /\ \A k \in Key :
       Tweak \in Final[k] \/ (edits > 0 /\ k \in Quiet /\ dev[k] = baseline[k])
  /\ "on" \in Final["power"] \/ benches > 0
  /\ "on" \in Final["saver"] /\ "on" \in Final["appops"]

\* Until the first tweaks the saver and the services are as the user has them.
GlobalsReverted ==
  /\ \A k \in Key :
       \/ k \in Quiet /\ dev[k] = baseline[k]
       \/ snapshot # None /\ snapshot[k] \in Final[k]
  /\ \/ "off" \in Final["power"]
     \/ "power" \in Quiet /\ (bench = "probed" \/ main = "probed")
  /\ \A i \in {"saver", "appops"} :
       "off" \in Final[i] \/ (i \in Quiet /\ dev[i] = baseline[i])

\* Performance mode: the tweaks that are applied at the start have not been
\* spawned yet.
NotYet ==
  Starting \/ (~active /\ apc \in {"ensure", "capture", "check", "detect",
                                   "save", "spawn"})

GlobalInv ==
  IF mode = "Performance" THEN GlobalsTweaked \/ NotYet
  ELSE IF Tweaking THEN GlobalsTweaked ELSE GlobalsReverted

FlagInv == ExclInv /\ SnapInv /\ DozeInv /\ AppInv /\ GlobalInv

\* What is known from the other invariants.
Known == TypedInv /\ ListInv /\ Captures /\ CaptureInv

\* Final depends on the device and its scripts only.
LEMMA SameFinal ==
  ASSUME UNCHANGED <<dev, scripts>>
  PROVE  Final' = Final /\ Quiet' = Quiet
<1>1. Quiet' = Quiet
  BY DEF Quiet, Skips
<1> QED
  BY <1>1 DEF Final, Leaves, Skips

\* apply_optimizations up to its script.
LEMMA ApplyKeepsFlag ==
  ASSUME Known, FlagInv, Orderly,
         \/ \E game \in Game : ApplyCall(game)
         \/ EnsureSnapshot \/ ApplyCheck \/ Detect \/ SaveSecondary
  PROVE  FlagInv'
<1>1. UNCHANGED <<dev, scripts, snapshot, active, mode, rpc, rscript, main,
                  bench, benches, baseline, edits, faults>>
  BY DEF ApplyCall, EnsureSnapshot, Ensure, ApplyCheck, Detect,
         SaveSecondary, restoreVars, mainVars, othersVars
<1>2. Final' = Final /\ Quiet' = Quiet
  BY <1>1, SameFinal
<1>3. Tweaking' = Tweaking
  BY <1>1 DEF ApplyCall, EnsureSnapshot, Ensure, ApplyCheck, Detect,
              SaveSecondary, Tweaking
<1>4. ExclInv'
  BY <1>1 DEF FlagInv, ExclInv, Known, TypedInv, ControlOK, Starting,
       ApplyCall, EnsureSnapshot, Ensure, ApplyCheck, Detect, SaveSecondary,
       RestoreScript, Alive
<1>5. SnapInv' /\ DozeInv'
  BY <1>1, <1>2, <1>3 DEF FlagInv, SnapInv, DozeInv
<1>6. AppInv'
  <2>1. Tweaking => UNCHANGED secondary
    BY DEF FlagInv, ExclInv, Tweaking, ApplyCall, EnsureSnapshot, Ensure,
           ApplyCheck, Detect, SaveSecondary
  <2> QED
    BY <1>1, <1>2, <1>3, <2>1 DEF FlagInv, AppInv
<1>7. GlobalInv'
  <2>1. NotYet => NotYet'
    BY <1>1 DEF NotYet, Starting, Alive, ApplyCall, EnsureSnapshot, Ensure,
                ApplyCheck, Detect, SaveSecondary
  <2>2. /\ GlobalsTweaked => GlobalsTweaked'
        /\ GlobalsReverted => GlobalsReverted'
    BY <1>1, <1>2 DEF GlobalsTweaked, GlobalsReverted
  <2> QED
    BY <1>1, <1>3, <2>1, <2>2 DEF FlagInv, GlobalInv
<1> QED
  BY <1>4, <1>5, <1>6, <1>7 DEF FlagInv

\* The capture takes what the user has set: no script has run yet.
LEMMA CaptureKeepsFlag ==
  ASSUME Known, FlagInv, Orderly, Captured, faults' = 0
  PROVE  FlagInv'
<1>1. UNCHANGED <<dev, scripts, active, mode, rpc, rscript, main, bench,
                  benches, baseline, edits, secondary, detected>>
  BY DEF Captured, restoreVars, mainVars, othersVars
<1>2. Final' = Final /\ Quiet' = Quiet
  BY <1>1, SameFinal
<1>3. snapshot = None /\ snapshot' = [k \in Key |-> dev[k]] /\ snapshot' # None
  <2>1. snapshot' = [k \in Key |-> dev[k]]
    BY DEF Captured, Fault, Orderly
  <2> QED
    BY <2>1, NamesAssumption DEF Captured, Known, CaptureInv, None
<1>4. apc = "capture" /\ apc' = "check" /\ Tweaking' = Tweaking
  BY <1>1 DEF Captured, Tweaking
<1>5. ExclInv'
  BY <1>1, <1>3, <1>4 DEF FlagInv, ExclInv, Known, Captures, Starting
<1>6. SnapInv'
  BY <1>1, <1>3 DEF FlagInv, SnapInv
<1>7. DozeInv' /\ AppInv'
  BY <1>1, <1>2, <1>4 DEF FlagInv, DozeInv, AppInv
<1>8. GlobalInv'
  <2>1. NotYet => NotYet'
    BY <1>1, <1>4 DEF NotYet, Starting
  <2>2. /\ GlobalsTweaked => GlobalsTweaked'
        /\ GlobalsReverted => GlobalsReverted'
    BY <1>1, <1>2, <1>3 DEF GlobalsTweaked, GlobalsReverted
  <2> QED
    BY <1>1, <1>4, <2>1, <2>2 DEF FlagInv, GlobalInv
<1> QED
  BY <1>5, <1>6, <1>7, <1>8 DEF FlagInv

\* The flag follows the script of the tweaks.
LEMMA StoreKeepsFlag ==
  ASSUME Known, FlagInv, Orderly, StoreActive
  PROVE  FlagInv'
<1>1. UNCHANGED <<dev, scripts, snapshot, mode, rpc, rscript, main, bench,
                  benches, baseline, edits, secondary, detected>>
  BY DEF StoreActive, restoreVars, mainVars, othersVars
<1>2. Final' = Final /\ Quiet' = Quiet
  BY <1>1, SameFinal
<1>3. apc = "store" /\ apc' = "idle" /\ active' = TRUE /\ ~Starting
  BY DEF StoreActive, Alive, Starting
<1>4. \A r \in Restorer : rpc[r] = "idle"
  BY <1>3 DEF FlagInv, ExclInv
<1>5. Tweaking /\ Tweaking'
  BY <1>1, <1>3, <1>4 DEF Tweaking
<1>6. ExclInv'
  BY <1>1, <1>3, <1>4 DEF FlagInv, ExclInv, Starting
<1>7. SnapInv' /\ DozeInv' /\ AppInv'
  BY <1>1, <1>2, <1>5 DEF FlagInv, SnapInv, DozeInv, AppInv
<1>8. GlobalInv'
  <2>1. GlobalsTweaked
    BY <1>3, <1>5 DEF FlagInv, GlobalInv, NotYet
  <2> QED
    BY <1>1, <1>2, <1>5, <2>1 DEF GlobalInv, GlobalsTweaked
<1> QED
  BY <1>6, <1>7, <1>8 DEF FlagInv

\* The script of the tweaks: what is spawned last decides what every item of
\* it will be.
LEMMA SpawnApplyKeepsFlag ==
  ASSUME Known, FlagInv, Orderly, SpawnApply, faults' = 0
  PROVE  FlagInv'
<1> DEFINE script == OptimizeScript(target, detected)
<1>1. /\ UNCHANGED <<dev, snapshot, active, mode, rpc, rscript, main, bench,
                     benches, baseline, edits, secondary, detected>>
      /\ apc = "spawn" /\ apc' = "store" /\ Detach(script)
  BY DEF SpawnApply, Fault, Orderly, restoreVars, mainVars, othersVars
<1>2. /\ target \in Game \cup {NoGame} /\ detected \in SUBSET App
      /\ scripts \in Seq(Body(Value)) /\ script \in Body(Value)
  BY OptimizeScriptTyped
  DEF Known, TypedInv, ControlOK, Writes, ListInv
<1>3. ASSUME NEW item \in Item, Skips(script, item)
      PROVE  Final[item] \subseteq Final'[item]
  BY <1>1, <1>2, <1>3, DetachChangesFinal
<1>4. ASSUME NEW item \in Item, NEW v \in Value, Leaves(script, item, v)
      PROVE  v \in Final'[item]
  BY <1>1, <1>2, <1>4, DetachChangesFinal
<1>5. /\ \A item \in Knob : Leaves(script, item, "on")
      /\ \A k \in Key : Leaves(script, k, Tweak)
      /\ \A a \in detected : Leaves(script, a, "on")
      /\ \A a \in App \ detected : Skips(script, a)
  BY <1>2, OptimizeLeaves DEF Knob
<1> HIDE DEF script
<1>6. /\ \A item \in Knob : "on" \in Final'[item]
      /\ \A k \in Key : Tweak \in Final'[k]
      /\ \A a \in detected : "on" \in Final'[a]
  BY <1>4, <1>5, <1>2 DEF Item, Value
<1>7. ~Tweaking /\ Tweaking' /\ secondary = detected
  BY <1>1 DEF FlagInv, ExclInv, Tweaking
<1>8. ExclInv'
  BY <1>1 DEF FlagInv, ExclInv, Starting
<1>9. SnapInv'
  BY <1>1 DEF FlagInv, SnapInv, Known, Captures
<1>10. DozeInv' /\ GlobalInv'
  BY <1>6, <1>7 DEF DozeInv, GlobalInv, GlobalsTweaked, Knob
<1>11. AppInv'
  BY <1>1, <1>3, <1>5, <1>6, <1>7 DEF FlagInv, AppInv, Item
<1> QED
  BY <1>8, <1>9, <1>10, <1>11 DEF FlagInv

\* A restoration begins with the tweaks on their way or on the device.
LEMMA CallKeepsFlag ==
  ASSUME Known, FlagInv, Orderly, races' = 0, NEW r \in Restorer,
         RestoreCall(r)
  PROVE  FlagInv'
<1>1. /\ UNCHANGED <<dev, scripts, snapshot, active, mode, rscript, main,
                     bench, benches, baseline, edits, secondary, detected, apc>>
      /\ rpc' = [rpc EXCEPT ![r] = "take"] /\ active
      /\ \A q \in Restorer : rpc[q] = "idle"
  BY DEF RestoreCall, Called, Race, Orderly, RestoreTo, applyVars, mainVars
<1>2. Final' = Final /\ Quiet' = Quiet
  BY <1>1, SameFinal
<1>3. \A q \in Restorer : rpc'[q] = IF q = r THEN "take" ELSE rpc[q]
  BY <1>1 DEF Known, ListInv
<1>4. Tweaking' = Tweaking
  BY <1>1, <1>3 DEF Tweaking
<1>5. ExclInv'
  BY <1>1, <1>3 DEF FlagInv, ExclInv, Starting, RestoreScript
<1>6. SnapInv' /\ DozeInv'
  BY <1>1, <1>2, <1>4 DEF FlagInv, SnapInv, DozeInv
<1>7. AppInv'
  BY <1>1, <1>2, <1>3, <1>4 DEF FlagInv, AppInv
<1>8. GlobalInv'
  BY <1>1, <1>2, <1>4
  DEF FlagInv, GlobalInv, GlobalsTweaked, GlobalsReverted, NotYet, Starting
<1> QED
  BY <1>5, <1>6, <1>7, <1>8 DEF FlagInv

\* The secondary apps pass from the list to the script.
LEMMA TakeKeepsFlag ==
  ASSUME Known, FlagInv, Orderly, NEW r \in Restorer, RestoreTake(r)
  PROVE  FlagInv'
<1> DEFINE script == RestoreScript(snapshot, secondary, FALSE)
<1>1. /\ UNCHANGED <<dev, scripts, snapshot, active, mode, main, bench,
                     benches, baseline, edits, detected, apc>>
      /\ rpc[r] = "take" /\ rpc' = [rpc EXCEPT ![r] = "spawn"]
      /\ rscript' = [rscript EXCEPT ![r] = script] /\ secondary' = {}
  BY DEF RestoreTake, RestoreTo, applyVars, mainVars, othersVars
<1>2. Final' = Final /\ Quiet' = Quiet
  BY <1>1, SameFinal
<1>3. \A q \in Restorer : /\ rpc'[q] = IF q = r THEN "spawn" ELSE rpc[q]
                          /\ rscript'[q] = IF q = r THEN script ELSE rscript[q]
  BY <1>1 DEF Known, ListInv
<1>4. Tweaking' = Tweaking /\ active
  BY <1>1, <1>3 DEF Tweaking, FlagInv, ExclInv
<1>5. secondary \in SUBSET App /\ DOMAIN script[2] = secondary
  BY <1>1, RestoreLeaves DEF Known, TypedInv, ControlOK, Captures, ListInv
<1>6. ExclInv'
  <2>1. ASSUME NEW q \in Restorer, rpc'[q] = "spawn"
        PROVE  \E apps \in SUBSET App :
                 rscript'[q] = RestoreScript(snapshot, apps, FALSE)
    <3>1. CASE q = r
      BY <1>3, <1>5, <3>1
    <3>2. CASE q # r
      BY <1>3, <2>1, <3>2 DEF FlagInv, ExclInv
    <3> QED
      BY <3>1, <3>2
  <2> HIDE DEF script
  <2> QED
    BY <1>1, <1>3, <1>4, <2>1 DEF FlagInv, ExclInv, Starting, RestoreScript
<1> HIDE DEF script
<1>7. SnapInv' /\ DozeInv'
  BY <1>1, <1>2, <1>4 DEF FlagInv, SnapInv, DozeInv
<1>8. AppInv'
  BY <1>1, <1>2, <1>3, <1>4, <1>5 DEF FlagInv, AppInv
<1>9. GlobalInv'
  BY <1>1, <1>2, <1>4
  DEF FlagInv, GlobalInv, GlobalsTweaked, GlobalsReverted, NotYet, Starting
<1> QED
  BY <1>6, <1>7, <1>8, <1>9 DEF FlagInv

\* The script of the restoration: from here on the device goes back.
LEMMA SpawnRestoreKeepsFlag ==
  ASSUME Known, FlagInv, Orderly, NEW r \in Restorer,
         RestoreSpawn(r), faults' = 0
  PROVE  FlagInv'
<1>1. /\ UNCHANGED <<dev, snapshot, active, mode, main, bench, benches,
                     baseline, edits, secondary, detected, apc>>
      /\ rpc[r] = "spawn" /\ rpc' = [rpc EXCEPT ![r] = "store"]
      /\ Detach(rscript[r])
  BY DEF RestoreSpawn, RestoreTo, Fault, Orderly, applyVars, mainVars,
         othersVars
<1>2. PICK apps \in SUBSET App :
        rscript[r] = RestoreScript(snapshot, apps, FALSE)
  BY <1>1 DEF FlagInv, ExclInv
<1>3. /\ snapshot \in [Key -> Value] /\ snapshot # None
      /\ scripts \in Seq(Body(Value)) /\ rscript[r] \in Body(Value)
      /\ mode \in {"Adaptive", "Performance"}
  BY <1>1, ModesAssumption
  DEF Known, TypedInv, ControlOK, Writes, Captures
<1> DEFINE script == rscript[r]
<1>4. ASSUME NEW item \in Item, Skips(script, item)
      PROVE  Final[item] \subseteq Final'[item]
             /\ (item \in Quiet => item \in Quiet')
  BY <1>1, <1>3, <1>4, DetachChangesFinal
<1>5. ASSUME NEW item \in Item, NEW v \in Value, Leaves(script, item, v)
      PROVE  v \in Final'[item]
  BY <1>1, <1>3, <1>5, DetachChangesFinal
<1>6. /\ DOMAIN script[2] = apps
      /\ Leaves(script, "doze", "off")
      /\ \A a \in apps : Leaves(script, a, "off")
      /\ \A a \in App \ apps : Skips(script, a)
      /\ mode = "Performance" =>
           \A item \in Key \cup {"power", "saver", "appops"} :
             Skips(script, item)
      /\ mode # "Performance" =>
           /\ \A item \in {"power", "saver", "appops"} :
                Leaves(script, item, "off")
           /\ \A k \in Key : Leaves(script, k, snapshot[k])
  BY <1>2, <1>3, RestoreLeaves
<1> HIDE DEF script
<1>7. /\ \A q \in Restorer : rpc'[q] = IF q = r THEN "store" ELSE rpc[q]
      /\ \A q \in Restorer : rpc[q] # "idle" => q = r
  BY <1>1 DEF Known, ListInv, FlagInv, ExclInv
<1>8. active /\ apc # "store" /\ Tweaking /\ ~Tweaking'
  BY <1>1, <1>7 DEF FlagInv, ExclInv, Tweaking
<1>9. ExclInv'
  <2>1. \A q \in Restorer : rpc'[q] # "idle" => q = r
    BY <1>7
  <2>2. \A q \in Restorer : rpc'[q] # "spawn"
    BY <1>7, <2>1
  <2>3. (Starting => ~active)' /\ UNCHANGED <<apc, active, secondary, detected>>
    BY <1>1, <1>8 DEF FlagInv, ExclInv, Starting
  <2>4. (\A q \in Restorer : rpc[q] # "idle" => active)'
    BY <1>8, <2>3
  <2>5. \A p, q \in Restorer : rpc'[p] # "idle" /\ rpc'[q] # "idle" => p = q
    BY <2>1
  <2>6. (apc \in {"detect", "save", "spawn", "store"} => ~active)'
    BY <2>3 DEF FlagInv, ExclInv
  <2>7. (apc = "spawn" => secondary = detected)'
    BY <2>3 DEF FlagInv, ExclInv
  <2>8. (/\ edits \in Nat /\ benches \in Nat
         /\ bench = "probed" => benches > 0)'
    BY <1>1 DEF FlagInv, ExclInv
  <2> QED
    BY <2>2, <2>3, <2>4, <2>5, <2>6, <2>7, <2>8 DEF ExclInv
<1>10. SnapInv'
  BY <1>1, <1>3 DEF FlagInv, SnapInv
<1>11. DozeInv'
  BY <1>5, <1>6, <1>8 DEF DozeInv, Item, Knob, Value
<1>12. AppInv'
  <2>1. ASSUME NEW a \in App
        PROVE  "off" \in Final'[a] \/ baseline[a] = "on"
    <3>1. CASE a \in apps
      BY <1>5, <1>6, <3>1 DEF Item, Value
    <3>2. CASE a \notin apps
      <4>1. "off" \in Final[a] \/ baseline[a] = "on" \/ a \in secondary
        BY <1>6, <1>7, <3>2 DEF FlagInv, AppInv, script
      <4>2. a \notin secondary
        BY <1>1 DEF FlagInv, ExclInv
      <4> QED
        BY <1>4, <1>6, <3>2, <4>1, <4>2 DEF Item
    <3> QED
      BY <3>1, <3>2
  <2> QED
    BY <1>1, <1>8, <2>1 DEF AppInv
<1>13. GlobalInv'
  <2>1. CASE mode = "Performance"
    <3>1. GlobalsTweaked
      BY <1>8, <2>1 DEF FlagInv, GlobalInv, NotYet, ExclInv
    <3>2. ASSUME NEW item \in Key \cup {"power", "saver", "appops"}
          PROVE  /\ Final[item] \subseteq Final'[item]
                 /\ item \in Quiet => item \in Quiet'
      BY <1>4, <1>6, <2>1 DEF Item, Knob
    <3>3. GlobalsTweaked'
      BY <1>1, <3>1, <3>2 DEF GlobalsTweaked
    <3> QED
      BY <1>1, <2>1, <3>3 DEF GlobalInv
  <2>2. CASE mode = "Adaptive"
    <3>1. /\ \A k \in Key : snapshot[k] \in Final'[k]
          /\ \A item \in {"power", "saver", "appops"} : "off" \in Final'[item]
      BY <1>3, <1>5, <1>6, <2>2 DEF Item, Knob, Value
    <3>2. GlobalsReverted'
      BY <1>1, <1>3, <3>1 DEF GlobalsReverted
    <3> QED
      BY <1>1, <1>8, <2>2, <3>2 DEF GlobalInv
  <2> QED
    BY <1>3, <2>1, <2>2
<1> QED
  BY <1>9, <1>10, <1>11, <1>12, <1>13 DEF FlagInv

\* The flag follows the script of the restoration.
LEMMA StoreRestoreKeepsFlag ==
  ASSUME Known, FlagInv, Orderly, NEW r \in Restorer,
         RestoreStore(r)
  PROVE  FlagInv'
<1>1. /\ UNCHANGED <<dev, scripts, snapshot, mode, rscript, main, bench,
                     benches, baseline, edits, secondary, detected, apc>>
      /\ rpc[r] = "store" /\ rpc' = [rpc EXCEPT ![r] = "idle"]
      /\ active' = FALSE
  BY DEF RestoreStore, Store, RestoreTo, applyVars, mainVars, othersVars
<1>2. Final' = Final /\ Quiet' = Quiet
  BY <1>1, SameFinal
<1>3. \A q \in Restorer : rpc'[q] = "idle" /\ (q # r => rpc[q] = "idle")
  BY <1>1 DEF Known, ListInv, FlagInv, ExclInv
<1>4. active /\ ~Tweaking /\ ~Tweaking'
  BY <1>1 DEF FlagInv, ExclInv, Tweaking
<1>5. ExclInv'
  BY <1>1, <1>3 DEF FlagInv, ExclInv, Starting
<1>6. SnapInv' /\ DozeInv' /\ AppInv'
  BY <1>1, <1>2, <1>4 DEF FlagInv, SnapInv, DozeInv, AppInv
<1>7. GlobalInv'
  <2>1. ~NotYet
    BY <1>4 DEF NotYet, FlagInv, ExclInv
  <2> QED
    BY <1>1, <1>2, <1>4, <2>1
    DEF FlagInv, GlobalInv, GlobalsTweaked, GlobalsReverted
<1> QED
  BY <1>5, <1>6, <1>7 DEF FlagInv

\* The device works on a script that is due: nothing it will be in changes.
LEMMA RunKeepsFlag ==
  ASSUME Known, FlagInv, Orderly, races' = 0,
         NEW i \in DOMAIN scripts, RunScript(i)
  PROVE  FlagInv'
<1>1. UNCHANGED <<snapshot, active, mode, main, bench, benches, baseline,
                  edits, secondary, detected, apc, rpc, rscript>>
  BY DEF RunScript, applyVars, restoreVars, mainVars
<1>2. scripts \in Seq(Body(Value)) /\ dev \in [Item -> Value] /\ Due(i)
  BY DEF Known, TypedInv, Writes, RunScript, Race, Orderly
<1>3. ASSUME NEW item \in Item
      PROVE  /\ item \in Quiet => item \in Quiet' /\ dev'[item] = dev[item]
             /\ Final[item] \subseteq Final'[item]
  BY <1>2, RunKeepsFinal
<1>4. Tweaking' = Tweaking
  BY <1>1 DEF Tweaking
<1>5. ExclInv'
  BY <1>1 DEF FlagInv, ExclInv, Starting, RestoreScript
<1>6. SnapInv'
  BY <1>1 DEF FlagInv, SnapInv
<1>7. DozeInv' /\ AppInv'
  BY <1>1, <1>3, <1>4 DEF FlagInv, DozeInv, AppInv, Item, Knob
<1>8. GlobalInv'
  <2>1. NotYet' = NotYet
    BY <1>1 DEF NotYet, Starting
  <2>2. /\ GlobalsTweaked => GlobalsTweaked'
        /\ GlobalsReverted => GlobalsReverted'
    BY <1>1, <1>3 DEF GlobalsTweaked, GlobalsReverted, Item, Knob
  <2> QED
    BY <1>1, <1>4, <2>1, <2>2 DEF FlagInv, GlobalInv
<1> QED
  BY <1>5, <1>6, <1>7, <1>8 DEF FlagInv

\* The probes switch nothing but the power modes; the daemon applies nothing
\* before its own probe is done.
LEMMA ProbeKeepsFlag ==
  ASSUME Known, FlagInv, Orderly, Orderly', Probe
  PROVE  FlagInv'
<1>1. /\ UNCHANGED <<scripts, snapshot, active, mode, rpc, rscript, baseline,
                     edits, secondary, detected>>
      /\ \/ dev' = [dev EXCEPT !["power"] = "on"]
         \/ dev' = [dev EXCEPT !["power"] = "off"]
  BY DEF Probe, ProbeOn, ProbeOff, BenchOn, BenchOff, Switch, Fault, Orderly,
         applyVars, restoreVars, mainVars, othersVars
<1>2. /\ dev \in [Item -> Value] /\ dev' \in [Item -> Value]
      /\ "power" \in Item /\ "power" \notin Key /\ "power" \notin App
  BY <1>1, ItemsAssumption DEF Known, TypedInv, Writes, Item, Knob, Value
<1>3. ASSUME NEW item \in Item, item # "power"
      PROVE  /\ dev'[item] = dev[item]
             /\ item \in Quiet => item \in Quiet'
             /\ Final[item] \subseteq Final'[item]
  BY <1>1, <1>2, <1>3, WriteChangesFinal
<1>4. /\ "power" \in Quiet =>
           "power" \in Quiet' /\ dev'["power"] \in Final'["power"]
      /\ "power" \notin Quiet => Final["power"] \subseteq Final'["power"]
  BY <1>1, <1>2, WriteChangesFinal
<1>5. \/ apc' = apc
      \/ Starting /\ ~active /\ apc = "idle" /\ apc' \in {"ensure", "idle"}
  BY DEF Probe, ProbeOn, ProbeOff, BenchOn, BenchOff, applyVars, Starting,
         FlagInv, ExclInv, Known, TypedInv, ControlOK
<1>6. (Tweaking' <=> Tweaking) /\ UNCHANGED mode /\ GlobalInv
  BY <1>1, <1>5 DEF Tweaking, FlagInv
<1>7. ExclInv'
  BY <1>1, <1>5 DEF FlagInv, ExclInv, Starting, Probe, ProbeOn, ProbeOff,
       BenchOn, BenchOff, mainVars, othersVars, RestoreScript
<1>8. SnapInv'
  BY <1>1, <1>2, <1>3 DEF FlagInv, SnapInv, Item
<1>9. DozeInv' /\ AppInv'
  BY <1>1, <1>2, <1>3, <1>6 DEF FlagInv, DozeInv, AppInv, Item, Knob
<1>10. mode = "Performance" /\ NotYet => NotYet'
  BY <1>1, <1>5 DEF NotYet, Starting, Probe, ProbeOn, ProbeOff, BenchOn,
       BenchOff, mainVars, Known, TypedInv, ControlOK, FlagInv, ExclInv, Orderly
<1>11. ASSUME ProbeOn \/ ProbeOff PROVE GlobalInv'
  <2>1. ~Tweaking /\ Starting
    BY <1>11 DEF Starting, Tweaking, ProbeOn, ProbeOff, FlagInv, ExclInv,
                 Known, TypedInv, ControlOK
  <2>2. main' = "probed" \/ dev'["power"] = "off"
    BY <1>2, <1>11 DEF ProbeOn, ProbeOff, Switch, Fault, Orderly
  <2>3. GlobalsReverted => GlobalsReverted'
    BY <1>1, <1>2, <1>3, <1>4, <2>2 DEF GlobalsReverted, Item, Knob
  <2>4. mode = "Performance" => NotYet'
    BY <1>10, <2>1 DEF NotYet
  <2> QED
    BY <1>6, <2>1, <2>3, <2>4 DEF GlobalInv
<1>12. ASSUME BenchOn \/ BenchOff PROVE GlobalInv'
  <2>1. benches' > 0
    BY <1>12 DEF BenchOn, BenchOff, FlagInv, ExclInv
  <2>2. GlobalsTweaked => GlobalsTweaked'
    BY <1>1, <1>2, <1>3, <2>1 DEF GlobalsTweaked, Item, Knob
  <2>3. \/ bench' = "probed"
        \/ dev'["power"] = "off"
    BY <1>2, <1>12 DEF BenchOn, BenchOff, Switch, Fault, Orderly
  <2>4. GlobalsReverted => GlobalsReverted'
    BY <1>1, <1>2, <1>3, <1>4, <2>3 DEF GlobalsReverted, Item, Knob
  <2> QED
    BY <1>6, <1>10, <2>2, <2>4 DEF GlobalInv
<1> QED
  BY <1>7, <1>8, <1>9, <1>11, <1>12 DEF FlagInv, Probe

\* What the user edits is the new baseline of that key.
LEMMA EditKeepsFlag ==
  ASSUME Known, FlagInv, Orderly, NEW k \in Key, UserEdits(k)
  PROVE  FlagInv'
<1>1. /\ UNCHANGED <<scripts, snapshot, active, mode, rpc, rscript, main, apc,
                     bench, benches, secondary, detected>>
      /\ edits' = edits + 1 /\ edits' > 0
      /\ dev' = [dev EXCEPT ![k] = "edited"]
      /\ baseline' = [baseline EXCEPT ![k] = "edited"]
  BY DEF UserEdits, FlagInv, ExclInv, applyVars, restoreVars, mainVars
<1>2. /\ dev \in [Item -> Value] /\ dev' \in [Item -> Value] /\ k \in Item
      /\ k \notin Knob /\ k \notin App /\ DOMAIN baseline = Item
  BY <1>1, ItemsAssumption
  DEF Known, TypedInv, Writes, Item, Value, FlagInv, SnapInv
<1>3. ASSUME NEW item \in Item, item # k
      PROVE  /\ dev'[item] = dev[item] /\ baseline'[item] = baseline[item]
             /\ item \in Quiet => item \in Quiet'
             /\ Final[item] \subseteq Final'[item]
  BY <1>1, <1>2, <1>3, WriteChangesFinal
<1>4. /\ dev'[k] = baseline'[k]
      /\ k \in Quiet => k \in Quiet'
      /\ k \notin Quiet => Final[k] \subseteq Final'[k]
  BY <1>1, <1>2, WriteChangesFinal
<1>5. Tweaking' = Tweaking
  BY <1>1 DEF Tweaking
<1>6. ExclInv'
  BY <1>1 DEF FlagInv, ExclInv, Starting, RestoreScript
<1>7. SnapInv'
  BY <1>1, <1>2, <1>3, <1>4 DEF FlagInv, SnapInv, Item
<1>8. DozeInv' /\ AppInv'
  BY <1>1, <1>2, <1>3, <1>5 DEF FlagInv, DozeInv, AppInv, Item, Knob
<1>9. GlobalInv'
  <2>1. NotYet' = NotYet
    BY <1>1 DEF NotYet, Starting
  <2>2. GlobalsTweaked => GlobalsTweaked'
    BY <1>1, <1>2, <1>3, <1>4 DEF GlobalsTweaked, Item, Knob
  <2>3. GlobalsReverted => GlobalsReverted'
    BY <1>1, <1>2, <1>3, <1>4 DEF GlobalsReverted, Item, Knob
  <2> QED
    BY <1>1, <1>5, <2>1, <2>2, <2>3 DEF FlagInv, GlobalInv
<1> QED
  BY <1>6, <1>7, <1>8, <1>9 DEF FlagInv

\* Steps with which nothing fails, nothing restarts and main goes on: the
\* lemmas above, one per action.
LEMMA FlagStep ==
  ASSUME Known, FlagInv, Orderly, Orderly', [Next]_vars
  PROVE  FlagInv'
<1> USE DEF Orderly, Starting
<1>1. faults' = 0 /\ races' = 0 /\ ~Shutdown /\ ~Kill /\ ~Restart
  BY DEF Shutdown, ShutdownTake, ShutdownSpawn, ShutdownStore, Exit, Kill,
         Restart
<1> HIDE DEF Orderly, Starting
<1>2. CASE UNCHANGED vars
  <2>1. UNCHANGED <<dev, scripts, snapshot, active, mode, apc, rpc, rscript,
                    main, bench, benches, baseline, edits, secondary, detected>>
    BY <1>2 DEF vars, applyVars, restoreVars, mainVars, othersVars
  <2>2. Final' = Final /\ Quiet' = Quiet
    BY <2>1, SameFinal
  <2>3. ExclInv' /\ SnapInv'
    BY <2>1 DEF FlagInv, ExclInv, SnapInv, Starting, RestoreScript
  <2>4. DozeInv' /\ AppInv' /\ GlobalInv'
    BY <2>1, <2>2 DEF FlagInv, DozeInv, AppInv, GlobalInv, GlobalsTweaked,
       GlobalsReverted, NotYet, Starting, Tweaking
  <2> QED
    BY <2>3, <2>4 DEF FlagInv
<1>3. CASE Apply \/ \E game \in Game : ApplyCall(game)
  BY <1>1, <1>3, ApplyKeepsFlag, CaptureKeepsFlag, StoreKeepsFlag,
     SpawnApplyKeepsFlag DEF Apply
<1>4. ASSUME NEW r \in Restorer, RestoreCall(r) \/ Restore(r) PROVE FlagInv'
  BY <1>1, <1>4, CallKeepsFlag, TakeKeepsFlag, SpawnRestoreKeepsFlag,
     StoreRestoreKeepsFlag DEF Restore
<1>5. CASE Probe \/ \E k \in Key : UserEdits(k)
  BY <1>5, ProbeKeepsFlag, EditKeepsFlag
<1>6. ASSUME NEW i \in DOMAIN scripts, RunScript(i) PROVE FlagInv'
  BY <1>1, <1>6, RunKeepsFlag
<1> QED
  BY <1>1, <1>2, <1>3, <1>4, <1>5, <1>6 DEF Next

\* What was out of turn is never forgotten.
LEMMA WhoCountsRaces ==
  ASSUME [Next]_vars
  PROVE  UNCHANGED races \/ races' = races + 1
  BY DEF Next, vars, ApplyCall, Apply, EnsureSnapshot, Ensure, Captured,
         ApplyCheck, Detect, SaveSecondary, SpawnApply, StoreActive,
         RestoreCall, Called, Race, Restore, RestoreTake, RestoreSpawn,
         RestoreStore, Store, Shutdown, ShutdownTake, ShutdownSpawn,
         ShutdownStore, Exit, Kill, Restart, RunScript, Probe, ProbeOn,
         ProbeOff, BenchOn, BenchOff, UserEdits, othersVars

\* An orderly state has an orderly past.
LEMMA OrderlyPast ==
  ASSUME [Next]_vars, Orderly', faults \in Nat, races \in Nat,
         lives \in Nat, lives > 0
  PROVE  Orderly
<1>1. faults = 0 /\ races = 0 /\ lives = 1
  BY WhoCountsFaults, WhoCountsRaces, WhoCountsLives DEF Orderly
<1>2. ~Restart
  BY <1>1 DEF Restart, Orderly
<1>3. UNCHANGED main \/ Probe \/ Shutdown \/ Kill
  BY <1>2 DEF Next, vars, mainVars, ApplyCall, Apply, EnsureSnapshot, Ensure,
     Captured, ApplyCheck, Detect, SaveSecondary, SpawnApply, StoreActive,
     RestoreCall, Called, Restore, RestoreTake, RestoreSpawn, RestoreStore,
     Store, RunScript, UserEdits
<1>4. CASE Probe
  BY <1>1, <1>4 DEF Probe, ProbeOn, ProbeOff, BenchOn, BenchOff, mainVars,
                    Orderly, Starting
<1>5. CASE Shutdown \/ Kill
  BY <1>1, <1>5 DEF Shutdown, ShutdownTake, ShutdownSpawn, ShutdownStore, Exit,
                    Kill, Orderly, Starting
<1> QED
  BY <1>1, <1>3, <1>4, <1>5 DEF Orderly, Starting

\* Before the first step nothing is on its way, Doze and the power modes are
\* off, and all else is as the user has it.
LEMMA InitialFlag ==
  ASSUME Init
  PROVE  FlagInv
<1>1. /\ dev \in [Item -> Value] /\ scripts = <<>> /\ snapshot = None
      /\ baseline = dev /\ main = "probe" /\ active = FALSE /\ apc = "idle"
      /\ secondary = {} /\ \A r \in Restorer : rpc[r] = "idle"
      /\ dev["doze"] = "off" /\ dev["power"] = "off"
  BY InitialDevice DEF Init
<1>2. \A item \in Item : item \in Quiet /\ dev[item] \in Final[item]
  BY <1>1 DEF Quiet, Final
<1>3. ~Tweaking /\ Starting
  BY <1>1 DEF Tweaking, Starting
<1>4. ExclInv
  BY <1>1 DEF Init, ExclInv
<1>5. SnapInv
  BY <1>1 DEF SnapInv
<1>6. DozeInv
  BY <1>1, <1>2, <1>3 DEF DozeInv, Item, Knob
<1>7. AppInv
  <2>1. ASSUME NEW a \in App PROVE dev[a] \in {"on", "off"}
    BY InitialDevice
  <2> QED
    BY <1>1, <1>2, <1>3, <2>1 DEF AppInv, Item
<1>8. GlobalInv
  BY <1>1, <1>2, <1>3 DEF GlobalInv, GlobalsReverted, NotYet, Item, Knob
<1> QED
  BY <1>4, <1>5, <1>6, <1>7, <1>8 DEF FlagInv

\* The inductive invariant, in orderly states.
OrderlyInv == lives > 0 /\ (Orderly => FlagInv)

LEMMA FlagInvariant == Spec => []OrderlyInv
<1>1. Init => OrderlyInv
  <2>1. Init => lives > 0
    BY DEF Init
  <2> QED
    BY <2>1, InitialFlag DEF OrderlyInv
<1>2. OrderlyInv /\ TypedInv /\ ExitInv /\ CaptureInv /\ [Next]_vars
        => OrderlyInv'
  <2> SUFFICES ASSUME OrderlyInv, TypedInv, ExitInv, CaptureInv, [Next]_vars
               PROVE  OrderlyInv'
    OBVIOUS
  <2>1. lives' > 0
    BY WhoCountsLives DEF OrderlyInv, CaptureInv
  <2>2. ASSUME Orderly' PROVE FlagInv'
    <3>1. Orderly
      BY <2>2, OrderlyPast
      DEF ExitInv, ListInv, CaptureInv, OrderlyInv, TypedInv, ControlOK
    <3>2. Known
      BY <3>1 DEF Known, ExitInv, Orderly
    <3> QED
      BY <2>2, <3>1, <3>2, FlagStep DEF OrderlyInv
  <2> QED
    BY <2>1, <2>2 DEF OrderlyInv
<1> QED
  BY <1>1, <1>2, TypedInvariant, ExitInvariant, CaptureInvariant, PTL DEF Spec

-----------------------------------------------------------------------------
(* The theorems *)

\* While no rish call fails in the first life of the daemon, no script
\* overtakes an older one on an item both write, and no restoration begins
\* within another: whenever nothing is in progress in Adaptive mode, the flag
\* is up with every tweak on the device, or down with the user's settings back.
\* Scripts may run at the same time, and there may be any number of games,
\* apps, settings, debounce workers, bench commands and edits.
THEOREM FlagMatchesDevice == Spec => []FlagTellsDevice
<1>1. OrderlyInv /\ TypedInv /\ ExitInv => FlagTellsDevice
  <2> SUFFICES ASSUME OrderlyInv, TypedInv, ExitInv, Undisturbed,
                      mode = "Adaptive", AtRest
               PROVE  IF active THEN Tweaked ELSE Reverted
    BY DEF FlagTellsDevice
  <2>1. FlagInv /\ bench = "idle" /\ main = "up"
    BY DEF OrderlyInv, Orderly, Undisturbed, AtRest
  <2>2. \A item \in Item : \A v \in Final[item] : dev[item] = v
    BY NothingPending DEF AtRest
  <2>3. Tweaking <=> active
    BY DEF AtRest, Tweaking
  <2>4. secondary \subseteq App
    BY DEF ExitInv, ListInv
  <2>5. CASE active
    <3>1. GlobalTweaks
      BY <2>1, <2>2, <2>3, <2>5
      DEF FlagInv, GlobalInv, GlobalsTweaked, GlobalTweaks, Item, Knob
    <3>2. dev["doze"] = "on" /\ \A a \in secondary : dev[a] = "on"
      BY <2>1, <2>2, <2>3, <2>4, <2>5 DEF FlagInv, DozeInv, AppInv, Item, Knob
    <3> QED
      BY <2>5, <3>1, <3>2 DEF Tweaked
  <2>6. CASE ~active
    <3>1. GlobalsReverted /\ DozeInv /\ AppInv /\ SnapInv
      BY <2>1, <2>3, <2>6 DEF FlagInv, GlobalInv
    <3>2. KnobsReverted
      BY <2>1, <2>2, <2>3, <2>6, <3>1
      DEF KnobsReverted, GlobalsReverted, DozeInv, Item, Knob
    <3>3. WhitelistReverted
      BY <2>2, <2>3, <2>6, <3>1 DEF WhitelistReverted, AppInv, Item
    <3>4. ASSUME NEW k \in Key
          PROVE  \/ dev[k] = baseline[k]
                 \/ edits > 0 /\ k \in DOMAIN snapshot /\ dev[k] = snapshot[k]
      BY <2>2, <3>1 DEF GlobalsReverted, SnapInv, Item, ExitInv, ListInv
    <3> QED
      BY <2>6, <3>2, <3>3, <3>4 DEF Reverted
  <2> QED
    BY <2>5, <2>6
<1> QED
  BY <1>1, FlagInvariant, TypedInvariant, ExitInvariant, PTL

\* Undisturbed in the same sense, Performance mode keeps the global tweaks on
\* the device between games and takes Doze and the whitelist back.
THEOREM PerformanceKeepsTweaks == Spec => []PerformanceRetained
<1>1. OrderlyInv /\ TypedInv => PerformanceRetained
  <2> SUFFICES ASSUME OrderlyInv, TypedInv, Undisturbed,
                      mode = "Performance", AtRest
               PROVE  /\ GlobalTweaks
                      /\ dev["doze"] = (IF active THEN "on" ELSE "off")
                      /\ ~active => WhitelistReverted
    BY DEF PerformanceRetained
  <2>1. FlagInv /\ apc = "idle" /\ main = "up"
    BY DEF OrderlyInv, Orderly, Undisturbed, AtRest
  <2>2. \A item \in Item : \A v \in Final[item] : dev[item] = v
    BY NothingPending DEF AtRest
  <2>3. Tweaking <=> active
    BY DEF AtRest, Tweaking
  <2>4. GlobalsTweaked
    BY <2>1 DEF FlagInv, GlobalInv, NotYet, Starting
  <2>5. GlobalTweaks
    BY <2>2, <2>4 DEF GlobalsTweaked, GlobalTweaks, Item, Knob
  <2>6. dev["doze"] = (IF active THEN "on" ELSE "off")
    BY <2>1, <2>2, <2>3 DEF FlagInv, DozeInv, Item, Knob
  <2>7. ~active => WhitelistReverted
    BY <2>1, <2>2, <2>3 DEF FlagInv, WhitelistReverted, AppInv, Item
  <2> QED
    BY <2>5, <2>6, <2>7
<1> QED
  BY <1>1, FlagInvariant, TypedInvariant, PTL
=============================================================================
