-------------------------- MODULE ExtremeOptimizer --------------------------
(***************************************************************************)
(* ExtremeOptimizer: the snapshot of the user's settings, the tweaks for a *)
(* game, and the way back.  The calls run on different threads of the      *)
(* daemon: apply_optimizations in the resume task (and once in main, in    *)
(* Performance mode), restore_system in the debounce workers,              *)
(* full_restore_on_shutdown in main.  Their effect on the device is a      *)
(* shell script each, started detached: the call returns while the device  *)
(* still works on the script, and nothing orders two scripts.  The device  *)
(* has other writers: a probe, when the daemon starts and whenever the     *)
(* bench command is entered, tries the power modes by switching them on    *)
(* and off, and the user edits settings.                                   *)
(*                                                                         *)
(* The snapshot mutex is held across an await only while the snapshot is   *)
(* captured; the mutex of the secondary list never is, so reading or       *)
(* taking that list is one action.  The device is one with Android 13 or   *)
(* later, for which both scripts contain every command.                    *)
(***************************************************************************)
EXTENDS Naturals, Sequences

CONSTANTS
  Modes,        \* operational modes the mode file may name
  Key,          \* settings in the snapshot
  BlindKey,     \* those a restore without a snapshot resets to a default
  App,          \* user apps that may be visible beside a game
  Game,         \* games
  NoGame,       \* the target package None
  UserValues,   \* what a setting may be before the first daemon
  UserTweaks,   \* items that may be then as the tweaks set them
  Restorer,     \* restore_system calls that can be in progress together
  MaxScripts,   \* bound: scripts the device has not finished
  MaxFaults,    \* bound: failed rish calls
  MaxRaces,     \* bound: scripts and restorations out of turn
  MaxLives,     \* bound: lives of the daemon
  MaxBenches,   \* bound: bench commands
  MaxEdits      \* bound: settings the user edits

ASSUME ModesAssumption == Modes \subseteq {"Adaptive", "Performance"}
ASSUME NamesAssumption ==
  BlindKey \subseteq Key /\ Key # {} /\ NoGame \notin Game

VARIABLES
  dev,        \* the device: the value of every item a script writes
  scripts,    \* scripts in progress, in the order in which they started
  snapshot,   \* the snapshot: a value per key, or None
  capturing,  \* the snapshot mutex is held by a capture
  secondary,  \* secondary_whitelisted_apps
  active,     \* the active flag
  mode,       \* the mode of this life
  apc,        \* where apply_optimizations is
  target,     \* its target_pkg
  detected,   \* its secondary_apps
  rpc,        \* per restorer: where restore_system is
  rscript,    \* per restorer: the script it has built
  main,       \* where main is
  mscript,    \* the script of full_restore_on_shutdown
  bench,      \* where the bench command is
  benches,    \* history: bench commands so far
  baseline,   \* history: the device before the first daemon, with every edit
  edits,      \* history: edits so far
  races,      \* history: scripts and restorations out of turn so far
  lives,      \* history: lives of the daemon so far
  faults      \* history: faults so far

applyVars == <<apc, target, detected>>
restoreVars == <<rpc, rscript>>
mainVars == <<main, mscript, mode, lives>>
othersVars == <<bench, benches, baseline, edits, races>>
vars == <<dev, scripts, snapshot, capturing, secondary, active, applyVars,
          restoreVars, mainVars, othersVars, faults>>

None == <<>>   \* a function without a key
Tweak == "tweak"
Unset == "unset"
Knob == {"doze", "power", "saver", "appops"}
Item == Knob \cup Key \cup App \cup Game
\* Each item is a setting of its own: an app's is its entry in the whitelist,
\* a game's its game mode.
ASSUME ItemsAssumption ==
  /\ Key \cap (Knob \cup App \cup Game) = {}
  /\ App \cap (Knob \cup Game) = {}
  /\ Game \cap Knob = {}
ASSUME UserAssumption ==
  /\ UserValues \subseteq {"user", Unset}
  /\ UserTweaks \subseteq App \cup {"saver", "appops"}
Value == {"on", "off", "user", "edited", "default", Tweak, Unset}

TypeOK ==
  /\ dev \in [Item -> Value]
  /\ \A i \in DOMAIN scripts : \A j \in DOMAIN scripts[i] :
       DOMAIN scripts[i][j] \subseteq Item
  /\ snapshot = None \/ snapshot \in [Key -> Value]
  /\ capturing = (apc = "capture")
  /\ secondary \subseteq App
  /\ active \in BOOLEAN
  /\ mode \in Modes
  /\ apc \in {"idle", "ensure", "capture", "check", "detect", "save",
              "spawn", "store"}
  /\ target \in Game \cup {NoGame}
  /\ detected \subseteq App
  /\ \A r \in Restorer : rpc[r] \in {"idle", "take", "spawn", "store"}
  /\ main \in {"probe", "probed", "up", "spawn", "store", "leaving", "exited"}
  /\ bench \in {"idle", "probed"}
  /\ races \in Nat

\* The user has set a key or not; an app may be whitelisted, the power saver
\* off and a vendor's service restricted before there is a daemon.
Init ==
  /\ \E chosen \in [Key -> UserValues], alike \in SUBSET UserTweaks :
       dev = [i \in Item |-> IF i \in Key THEN chosen[i]
                             ELSE IF i \in alike THEN "on" ELSE "off"]
  /\ scripts = <<>>
  /\ snapshot = None
  /\ capturing = FALSE
  /\ secondary = {}
  /\ active = FALSE
  /\ mode \in Modes
  /\ apc = "idle"
  /\ target = NoGame
  /\ detected = {}
  /\ rpc = [r \in Restorer |-> "idle"]
  /\ rscript = [r \in Restorer |-> <<>>]
  /\ main = "probe"
  /\ mscript = <<>>
  /\ bench = "idle"
  /\ benches = 0
  /\ baseline = dev
  /\ edits = 0
  /\ races = 0
  /\ lives = 1
  /\ faults = 0

-----------------------------------------------------------------------------
(* Scripts: sequences of groups of writes; a group is a partial function   *)

All(S, v) == [i \in S |-> v]

OptimizeScript(game, apps) ==
  << All(apps, "on"), All({"doze"}, "on"), All({"power", "saver"}, "on"),
     All({game} \cap Game, "on"), All(Key, Tweak), All({"appops"}, "on") >>

\* mutant: the early return of Performance mode is missing
RestoreScriptFull(snap, apps, full) ==
  << All({"doze"}, "off"), All(apps, "off"), All({"power", "saver"}, "off"),
     All({"appops"}, "off"),
     IF snap = None THEN All(BlindKey, "default") ELSE snap >>

\* With target_pkg = None, as every caller passes: no game is reset.
RestoreScript(snap, apps, full) ==
  IF mode = "Performance" /\ ~full
  THEN << All({"doze"}, "off"), All(apps, "off") >>
  ELSE << All({"doze"}, "off"), All(apps, "off"), All({"power", "saver"}, "off"),
          All({"appops"}, "off"),
          IF snap = None THEN All(BlindKey, "default") ELSE snap >>

Fault == faults < MaxFaults /\ faults' = faults + 1

Race(found) ==
  IF found THEN races < MaxRaces /\ races' = races + 1 ELSE UNCHANGED races

\* The tasks run, from the end of the probe to that of the process.
Alive == main \in {"up", "spawn", "store", "leaving"}

\* exec_detached: rish starts on the script.
Detach(script) ==
  /\ Len(scripts) < MaxScripts
  /\ scripts' = Append(scripts, script)

-----------------------------------------------------------------------------
(* apply_optimizations *)

\* A game came to the foreground.
ApplyCall(game) ==
  /\ Alive /\ apc = "idle"
  /\ apc' = "ensure"
  /\ target' = game
  /\ UNCHANGED <<dev, scripts, snapshot, capturing, secondary, active,
                 detected, restoreVars, mainVars, othersVars, faults>>

Ensure(captured, locked) ==
  /\ Alive /\ apc = "ensure"
  /\ apc' = IF captured THEN "check" ELSE "capture"
  /\ capturing' = locked
  /\ UNCHANGED <<dev, scripts, snapshot, secondary, active, target, detected,
                 restoreVars, mainVars, othersVars, faults>>

\* mutants: `if lock.is_none()` is missing; the lock is not held for the await
EnsureAlways == Ensure(FALSE, TRUE)
EnsureUnlocked == Ensure(snapshot # None, FALSE)

\* ensure_snapshot_captured up to the await of the capture script.
EnsureSnapshot == Ensure(snapshot # None, snapshot = None)

\* The capture script has answered, possibly without the value of some keys
\* (a failed `settings get` reads as unset), or it failed.
Captured ==
  /\ Alive /\ apc = "capture"
  /\ apc' = "check"
  /\ capturing' = FALSE
  /\ \/ snapshot' = [k \in Key |-> dev[k]] /\ UNCHANGED faults
     \/ Fault /\ \E missing \in SUBSET Key \ {{}} :
          snapshot' = [k \in Key |-> IF k \in missing THEN Unset ELSE dev[k]]
     \/ Fault /\ UNCHANGED snapshot
  /\ UNCHANGED <<dev, scripts, secondary, active, target, detected,
                 restoreVars, mainVars, othersVars>>

ApplyCheck ==
  /\ Alive /\ apc = "check"
  /\ apc' = IF active THEN "idle" ELSE "detect"
  /\ UNCHANGED <<dev, scripts, snapshot, capturing, secondary, active, target,
                 detected, restoreVars, mainVars, othersVars, faults>>

\* detect_secondary_visible_apps: none if the query fails.
Detect ==
  /\ Alive /\ apc = "detect"
  /\ apc' = "save"
  /\ detected' \in SUBSET App
  /\ UNCHANGED <<dev, scripts, snapshot, capturing, secondary, active, target,
                 restoreVars, mainVars, othersVars, faults>>

SaveSecondary ==
  /\ Alive /\ apc = "save"
  /\ apc' = "spawn"
  /\ secondary' = detected
  /\ UNCHANGED <<dev, scripts, snapshot, capturing, active, target, detected,
                 restoreVars, mainVars, othersVars, faults>>

SpawnApply ==
  /\ Alive /\ apc = "spawn"
  /\ \/ Detach(OptimizeScript(target, detected)) /\ apc' = "store"
        /\ UNCHANGED faults
     \/ Fault /\ apc' = "idle" /\ UNCHANGED scripts
  /\ UNCHANGED <<dev, snapshot, capturing, secondary, active, target,
                 detected, restoreVars, mainVars, othersVars>>

StoreActive ==
  /\ Alive /\ apc = "store"
  /\ apc' = "idle"
  /\ active' = TRUE
  /\ UNCHANGED <<dev, scripts, snapshot, capturing, secondary, target,
                 detected, restoreVars, mainVars, othersVars, faults>>

-----------------------------------------------------------------------------
(* restore_system(None) *)

RestoreTo(r, step) == rpc' = [rpc EXCEPT ![r] = step]

Called(r, guard) ==
  /\ Alive /\ rpc[r] = "idle"
  /\ guard
  /\ RestoreTo(r, "take")
  /\ Race(\E q \in Restorer : rpc[q] # "idle")
  /\ UNCHANGED <<dev, scripts, snapshot, capturing, secondary, active,
                 applyVars, rscript, mainVars, bench, benches, baseline, edits,
                 faults>>

\* mutant: the check of the active flag is missing
RestoreCallAlways(r) == Called(r, TRUE)

\* The last game was left; without the active flag the call returns at once.
RestoreCall(r) == Called(r, active)

\* Both locks: the snapshot is read, the list of secondary apps taken.
RestoreTake(r) ==
  /\ Alive /\ rpc[r] = "take" /\ ~capturing
  /\ RestoreTo(r, "spawn")
  /\ rscript' = [rscript EXCEPT ![r] =
                   RestoreScript(snapshot, secondary, FALSE)]
  /\ secondary' = {}
  /\ UNCHANGED <<dev, scripts, snapshot, capturing, active, applyVars,
                 mainVars, othersVars, faults>>

RestoreSpawn(r) ==
  /\ Alive /\ rpc[r] = "spawn"
  /\ \/ Detach(rscript[r]) /\ RestoreTo(r, "store") /\ UNCHANGED faults
     \/ Fault /\ RestoreTo(r, "idle") /\ UNCHANGED scripts
  /\ rscript' = [rscript EXCEPT ![r] = <<>>]
  /\ UNCHANGED <<dev, snapshot, capturing, secondary, active, applyVars,
                 mainVars, othersVars>>

Store(r, flag) ==
  /\ Alive /\ rpc[r] = "store"
  /\ RestoreTo(r, "idle")
  /\ active' = flag
  /\ UNCHANGED <<dev, scripts, snapshot, capturing, secondary, applyVars,
                 rscript, mainVars, othersVars, faults>>

\* mutant: active.store(false) is missing
RestoreStoreNothing(r) == Store(r, active)

RestoreStore(r) == Store(r, FALSE)

-----------------------------------------------------------------------------
(* probe_features, of a starting daemon and of a bench command: fixed        *)
(* performance mode and the thermal override are switched on and off.  The   *)
(* calls are awaited, the results of switching off discarded.                *)

Switch(state) ==
  \/ dev' = [dev EXCEPT !["power"] = state] /\ UNCHANGED faults
  \/ Fault /\ UNCHANGED dev

ProbeOn ==
  /\ main = "probe"
  /\ main' = "probed"
  /\ Switch("on")
  /\ UNCHANGED <<scripts, snapshot, capturing, secondary, active, applyVars,
                 restoreVars, mscript, mode, lives, othersVars>>

\* The rest of the start: in Performance mode the tweaks are applied at once.
ProbeOff ==
  /\ main = "probed"
  /\ main' = "up"
  /\ apc' = IF mode = "Performance" THEN "ensure" ELSE "idle"
  /\ Switch("off")
  /\ UNCHANGED <<scripts, snapshot, capturing, secondary, active, target,
                 detected, restoreVars, mscript, mode, lives, othersVars>>

BenchOn ==
  /\ bench = "idle" /\ benches < MaxBenches
  /\ bench' = "probed"
  /\ benches' = benches + 1
  /\ Switch("on")
  /\ UNCHANGED <<scripts, snapshot, capturing, secondary, active, applyVars,
                 restoreVars, mainVars, baseline, edits, races>>

BenchOff ==
  /\ bench = "probed"
  /\ bench' = "idle"
  /\ Switch("off")
  /\ UNCHANGED <<scripts, snapshot, capturing, secondary, active, applyVars,
                 restoreVars, mainVars, benches, baseline, edits, races>>

\* The user edits a setting, in Android's own menus.
UserEdits(k) ==
  /\ edits < MaxEdits
  /\ edits' = edits + 1
  /\ dev' = [dev EXCEPT ![k] = "edited"]
  /\ baseline' = [baseline EXCEPT ![k] = "edited"]
  /\ UNCHANGED <<scripts, snapshot, capturing, secondary, active, applyVars,
                 restoreVars, mainVars, bench, benches, races, faults>>

-----------------------------------------------------------------------------
(* main: full_restore_on_shutdown, the end of the process, a new life *)

\* main applies the tweaks of Performance mode before it listens to signals.
Booting == target = NoGame /\ apc # "idle"

\* A signal: both locks, whatever the active flag says.  The other tasks are
\* not stopped.
ShutdownTake ==
  /\ main = "up" /\ ~Booting /\ ~capturing
  /\ main' = "spawn"
  /\ mscript' = RestoreScript(snapshot, secondary, TRUE)
  /\ secondary' = {}
  /\ UNCHANGED <<dev, scripts, snapshot, capturing, active, applyVars,
                 restoreVars, mode, lives, othersVars, faults>>

\* The result of exec_detached is discarded.
ShutdownSpawn ==
  /\ main = "spawn"
  /\ main' = "store"
  /\ mscript' = <<>>
  /\ \/ Detach(mscript) /\ UNCHANGED faults
     \/ Fault /\ UNCHANGED scripts
  /\ UNCHANGED <<dev, snapshot, capturing, secondary, active, applyVars,
                 restoreVars, mode, lives, othersVars>>

ShutdownStore ==
  /\ main = "store"
  /\ main' = "leaving"
  /\ active' = FALSE
  /\ UNCHANGED <<dev, scripts, snapshot, capturing, secondary, applyVars,
                 restoreVars, mscript, mode, lives, othersVars, faults>>

\* main returns and the runtime drops every task.
Exit ==
  /\ main = "leaving"
  /\ main' = "exited"
  /\ UNCHANGED <<dev, scripts, snapshot, capturing, secondary, active,
                 applyVars, restoreVars, mscript, mode, lives, othersVars,
                 faults>>

\* The process is killed, by the low-memory killer or by a signal that comes
\* before main listens to any.
Kill ==
  /\ main # "exited" /\ lives < MaxLives
  /\ main' = "exited"
  /\ UNCHANGED <<dev, scripts, snapshot, capturing, secondary, active,
                 applyVars, restoreVars, mscript, mode, lives, othersVars,
                 faults>>

\* The daemon is started again, with nothing of its former state.
Restart ==
  /\ main = "exited" /\ lives < MaxLives
  /\ lives' = lives + 1
  /\ main' = "probe" /\ mscript' = <<>>
  /\ snapshot' = None /\ capturing' = FALSE
  /\ secondary' = {} /\ active' = FALSE
  /\ mode' \in Modes
  /\ apc' = "idle"
  /\ target' = NoGame /\ detected' = {}
  /\ rpc' = [r \in Restorer |-> "idle"]
  /\ rscript' = [r \in Restorer |-> <<>>]
  /\ UNCHANGED <<dev, scripts, othersVars, faults>>

-----------------------------------------------------------------------------
(* The device *)

Advance(i) ==
  scripts' = IF Len(scripts[i]) = 1
             THEN SubSeq(scripts, 1, i - 1) \o
                  SubSeq(scripts, i + 1, Len(scripts))
             ELSE [scripts EXCEPT ![i] = Tail(@)]

\* No older script has still to write what script i writes next.
Due(i) ==
  \A m \in 1..i - 1 : \A j \in DOMAIN scripts[m] :
    DOMAIN scripts[m][j] \cap DOMAIN Head(scripts[i]) = {}

\* Script i carries out its next group of writes.
RunScript(i) ==
  /\ LET writes == Head(scripts[i])
     IN  dev' = [item \in Item |-> IF item \in DOMAIN writes
                                   THEN writes[item] ELSE dev[item]]
  /\ Advance(i)
  /\ Race(~Due(i))
  /\ UNCHANGED <<snapshot, capturing, secondary, active, applyVars,
                 restoreVars, mainVars, bench, benches, baseline, edits,
                 faults>>

-----------------------------------------------------------------------------
Apply == \/ EnsureSnapshot \/ Captured \/ ApplyCheck \/ Detect
         \/ SaveSecondary \/ SpawnApply \/ StoreActive
Restore(r) == RestoreTake(r) \/ RestoreSpawn(r) \/ RestoreStore(r)
Probe == ProbeOn \/ ProbeOff \/ BenchOn \/ BenchOff
Shutdown == ShutdownTake \/ ShutdownSpawn \/ ShutdownStore \/ Exit

Next ==
  \/ \E game \in Game : ApplyCall(game)
  \/ Apply
  \/ \E r \in Restorer : RestoreCall(r) \/ Restore(r)
  \/ Shutdown
  \/ Probe
  \/ \E k \in Key : UserEdits(k)
  \/ Kill \/ Restart
  \/ \E i \in DOMAIN scripts : RunScript(i)

Spec == Init /\ [][Next]_vars

-----------------------------------------------------------------------------
(* Properties *)

\* No call, no script and no probe is in progress.
AtRest ==
  /\ main = "up"
  /\ apc = "idle"
  /\ \A r \in Restorer : rpc[r] = "idle"
  /\ scripts = <<>>
  /\ bench = "idle"

Stopped == main = "exited" /\ scripts = <<>> /\ bench = "idle"

KeysReverted == \A k \in Key : dev[k] = baseline[k]
\* Where the snapshot has no value the restoration writes the default.
KnobsReverted == \A i \in Knob : dev[i] \in {"off", baseline[i]}
WhitelistReverted == \A a \in App : dev[a] = "on" => baseline[a] = "on"

\* What the user edited after the capture is overwritten by the snapshot.
Reverted ==
  /\ \A k \in Key :
       \/ dev[k] = baseline[k]
       \/ edits > 0 /\ k \in DOMAIN snapshot /\ dev[k] = snapshot[k]
  /\ KnobsReverted /\ WhitelistReverted

\* What the user edits beside a game stays till its end; a bench takes the
\* power modes away.
GlobalTweaks ==
  /\ \A k \in Key : dev[k] = Tweak \/ (edits > 0 /\ dev[k] = baseline[k])
  /\ dev["power"] = "on" \/ benches > 0
  /\ dev["saver"] = "on" /\ dev["appops"] = "on"

Tweaked ==
  /\ GlobalTweaks
  /\ dev["doze"] = "on"
  /\ \A a \in secondary : dev[a] = "on"

\* No rish call failed, the daemon was not restarted, no script overtook an
\* older one in writing the same item, and no restoration began while another
\* was between its test of the flag and its end.  The code takes care of none
\* of the four.
Undisturbed == faults = 0 /\ lives = 1 /\ races = 0

\* Adaptive mode, undisturbed: when nothing is in progress the active flag, on
\* which every later call decides whether to do anything, tells what the
\* device is in: the tweaks with every secondary app whitelisted, or the
\* user's settings with no app left on the whitelist, whatever a bench and the
\* user have done to the device in the meantime.
FlagTellsDevice ==
  mode = "Adaptive" /\ AtRest /\ Undisturbed =>
    IF active THEN Tweaked ELSE Reverted

\* README: the snapshot is taken "prior to applying tweaks".
SnapshotIsPreTweak ==
  snapshot # None => \A k \in Key : snapshot[k] # Tweak

\* The snapshot of a life is captured once: no later call replaces it, with
\* whatever the device is in by then, even when calls, failures, overlapping
\* scripts and restarts interleave.
SnapshotKept ==
  [][snapshot # None => snapshot' = snapshot \/ lives' # lives]_vars

\* Whatever setting the script writes, it writes the snapshot's value.
WritesSnapshot(script) ==
  \A j \in DOMAIN script : \A k \in DOMAIN script[j] \cap Key :
    k \in DOMAIN snapshot /\ script[j][k] = snapshot[k]

\* README: "preventing blind defaults": as long as no rish call failed, a game
\* exit never resets a setting to a default, because nothing is active that
\* was not preceded by a capture.
NoBlindGameExit ==
  \A r \in Restorer :
    rpc[r] = "spawn" => faults > 0 \/ WritesSnapshot(rscript[r])

\* README: Performance mode "unforces Doze on game exit, but retains" the
\* global tweaks: undisturbed, they are there whenever nothing is in progress.
PerformanceRetained ==
  mode = "Performance" /\ AtRest /\ Undisturbed =>
    /\ GlobalTweaks
    /\ dev["doze"] = (IF active THEN "on" ELSE "off")
    /\ ~active => WhitelistReverted

-----------------------------------------------------------------------------
(* What the documents promise and the code does not keep *)

\* README: "reverts strictly to captured baseline values on shutdown",
\* "preventing blind defaults": once the daemon has exited and its scripts
\* are done, the settings are what they were before.
ShutdownReverts == Stopped => KeysReverted

\* README: stopping the daemon "triggers full snapshot restoration": no tweak
\* outlives the daemon and its scripts.
NoTweakSurvivesStop == Stopped => \A k \in Key : dev[k] # Tweak

\* README: "complete restoration" upon exiting the game: with the flag down
\* and nothing in progress, no game is left in performance mode...
GameModeReset == AtRest /\ ~active => \A game \in Game : dev[game] = "off"

\* ... no app is left on the whitelist ...
AppsUnlisted == AtRest /\ ~active => WhitelistReverted

\* ... and the settings are the user's.
GameExitReverts == AtRest /\ ~active => KeysReverted

\* README: no default overrides "user preferences": once the daemon has exited
\* and its scripts are done, the knobs are as the user had them.
UserKnobsKept == Stopped => \A i \in Knob : dev[i] = baseline[i]

\* README: fixed performance mode is enabled "during game sessions": a bench
\* beside the game does not end it.
PowerDuringGame == AtRest /\ active => dev["power"] = "on"

\* README: user preferences are not overridden: an app the user has
\* whitelisted stays whitelisted.
UserWhitelistKept ==
  AtRest => \A a \in App : baseline[a] = "on" => dev[a] = "on"

\* README: "enforces `cmd game mode performance`": the game for which the
\* tweaks were last requested is in performance mode while they are applied.
GameModeSet == AtRest /\ active /\ target \in Game => dev[target] = "on"
=============================================================================
