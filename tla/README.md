# rust-android-optimizer in TLA+

A verification project for the daemon in `src/src/`: TLA+ modules translated
from its Rust source, TLC configurations that check them on small instances,
and TLAPS proofs of the properties that matter most for every instance.
`PROJECT.json` maps each definition to the lines it models; line numbers below
are those of the files in `src/src/`.

## 1. The system

One process, a multi-threaded tokio runtime, and the commands that start and
stop it. Everything it does to the phone goes through `rish`, a shell with the
rights of adb: `shizuku::exec` awaits a command, `shizuku::exec_detached`
returns as soon as `rish` is spawned.

| Component | State | Operations | Talks to |
|---|---|---|---|
| AOT compilation worker and handle (`aot_compiler.rs`) | queue, index, compiled_count; the shared `suspended` flag and two `Notify` objects | `run`, `suspend`, `resume` | package manager (`exec`), `killall` (detached), called by the event loop |
| Event loop (`event_listener.rs`) | `active_games`, `any_game_foreground`, `pause_generation`, `game_cache` | resume task, pause task, debounce workers, `check_if_game` | two logcat processes, compiler handle, optimizer |
| Optimizer (`extreme_optimizer.rs`) | `active`, `snapshot`, `secondary_whitelisted_apps` | `apply_optimizations`, `restore_system`, `full_restore_on_shutdown` | device settings, through detached scripts |
| Daemon and commands (`main.rs`) | pid file, mode file, log file, signal handlers | `start`, `stop`, `status`, `daemon`, `bench` | each other, through files and signals only |
| Shizuku bridge (`shizuku.rs`) | cached availability | `exec`, `exec_detached` | everything above |
| Probes (`env_probe.rs`, `hw_probe.rs`) | none after start-up | queries and parsers; features probed by switching them on and off | start-up and `bench` |
| Discovery and parsers (`aot_compiler.rs`, `event_listener.rs`, `extreme_optimizer.rs`) | none | `discover_packages`, `extract_package`, the dumpsys parsers | whoever has asked Android |

What is hard about it:

* three kinds of tasks on different threads change the same atomics and
  mutexes, with awaits in between (`event_listener.rs` 258-376);
* events arrive through two independent streams, so their relative order is
  not that in which they happened;
* scripts are detached: the code never learns when, or whether, the device has
  carried them out;
* state that must survive a crash (the snapshot) is kept in memory, state that
  must be exclusive (the pid file) is read and written without a lock;
* every `rish` call can fail, and most failures are ignored;
* the device has other writers: `bench`, beside the daemon, and the user;
* what Android prints differs from version to version and from maker to maker,
  and two queries of the same thing may be read by two different parsers.

What makes each component correct:

* *worker*: no package lost, repeated or overtaken; compilation stopped while
  a game is active, resumed afterwards;
* *event loop*: suspended and tweaked exactly while a game is in the foreground,
  a cancelled debounce does nothing, nobody is left suspended for nobody;
* *optimizer*: the snapshot is what the user had, and comes back; the `active`
  flag tells what the device is in; Performance mode keeps its global tweaks;
* *commands*: one daemon, found by every command, which leaves no tweak when it ends;
* *log*: output can be found, and files are bounded;
* *parsers and scripts*: a line gives the package it is about, in whatever form;
  the queue is sorted and complete; the rate that is locked is one the panel has;
  the restore script undoes what the tweak script did, on every device.

## 2. The modules

```
CompileQueue  <--implemented by--  AotCompiler      <--  AotCompilerProofs
DaemonSlot    <--implemented by--  DaemonLifecycle  <--  DaemonLifecycleProofs
GameMonitor       <--  MCGameMonitor
GameMonitor       <--  GameSession, with AotCompiler (INSTANCE), sharing `suspended`
GameSession       <--  GameSessionProofs
ExtremeOptimizer  <--  ExtremeOptimizerProofs
LogFile           <--  LogFileProofs
GameDiscovery, DeviceProbe, TweakScripts  <--  MCFunctions
MCFunctions, with LeftFold (INSTANCE)     <--  DiscoveryProofs, ScriptsProofs
```

**AotCompiler** models `run` with the handle. `pc` is the place of the worker:
`check` (181-182), `park`/`parked` (before and inside `notified().await`, 183),
`begin` (186-194), `poll`/`select` (`select!` with its futures built, before and
after the first poll of `exec`), `done`. `Notify::notify_waiters` stores no
permit, so `wakeup` and `aborted` are raised only when the worker already holds
the future. `suspend` and `resume` take two steps each, as other threads see
them: the store and the notification (with the killall that is fired with
it). There is one caller of `suspend` (the resume task) and a set of callers of
`resume` (debounce workers). `select!` polls its branches in random order, so an
interruption may be taken before the command was spawned, and also when the
command has ended. `cmd` is the command that `run` awaits. An interruption drops
the future of `exec` and with it the child's handle; without `kill_on_drop`
(`shizuku.rs` 54-59) the command runs on: its package joins `strays`, the compiles
nobody awaits, until it ends (`StrayEnds`) or a killall hits it (`KillLands`, which
may also fail, or come before `dex2oat` runs, and then spares what it likes).
`current_package` only feeds log lines and is left out.

**CompileQueue** is what the worker promises: packages are settled once each, in
order, after any number of attempts. `AotCompiler` implements it with
`settled` = the outcomes before `idx`, `busy` = `pc = "select"`.

**GameMonitor** models `run_event_loop`. `log` is what Android has written to
the events buffer, per stream; `pos` is what each task has read. Each task has
its own `pc`; the debounce workers have `wpc` and the `generation_id` they were
given. `check_if_game` is split at its await, so both tasks may ask about the
same package, and a failed query is cached as "no game". A logcat that dies is
restarted and may skip or repeat lines (`Reconnect`). `suspended` and `tweaked`
stand for the compiler and the optimizer, reduced to their flags and to the
await between the test of `active` and its store.
`any_game_foreground` is written and never read by the code, although its
comment (21) says that the pause task reads it.

**GameSession** puts the two together: it extends GameMonitor and takes the
compiler as an instance. Its variables are those of both modules,
with one `suspended`; a step is a step of one part while the other stands still,
except for the two calls: `Suspend` is `ResumeSuspend` of the event loop and
`SuspendStore` of the compiler at once, `Resume` is `WorkerResume` and
`EnterResume` with `ClearFlag`. A caller goes on (to `apply_optimizations` or
`restore_system`) only when the second half of its call is done. The debounce
workers are the resumers. Three history variables record through which window
a call was lost: `raced` (the flag was last cleared by a worker whose generation
had been superseded since it compared it), `spared` (a compile survived the last
killall since the flag was set) and `missed` (the last notification came between the
compiler's look at the flag and its wait).

**ExtremeOptimizer** models the three calls, statement by statement between awaits and
locks, and the device. A script is a sequence of *groups of writes*: the commands that
stay together in `build_optimize_script` and `build_restore_script`, in their order.
`doze`, `power` (with the thermal override) and `appops` are the knobs without a
snapshot; a `Key` is a setting that is both in the snapshot and tweaked, and `BlindKey`
those of line 251; an `App` is on the idle whitelist or not; a `Game` is in game mode or
not. Of an API level below 33 the scripts lose commands and nothing else. The mode is
read once per life, at its start, from a file the user may have changed since (`Modes`).
Scripts run at the same time, group by group, as `exec_detached` allows. Two things can
happen out of turn, and `races` counts them, up to `MaxRaces`: a script overtakes an
older one, that is, it writes an item the older one has still to write (`Due`), and a
restoration begins within another. The user's device is not what the restoration
assumes: a key is set or not (`UserValues`), and the saver, the AppOps and the whitelist
may already be as the tweaks set them (`UserTweaks`). Two more writers touch the device:
`probe_features`, when a daemon starts and in every `bench` command, switches fixed
performance and the thermal override on and then off again (`ProbeOn`, `ProbeOff`,
`BenchOn`, `BenchOff`), and the user edits a setting at any time (`UserEdits`).
`baseline` is what the user wants: the device before the first daemon, with every edit
since.

**DaemonLifecycle** models `start`, `stop` and `status` against the daemon: the pid
file, `kill(pid, 0)`, SIGTERM before and after its handler is registered (419), the
three seconds `stop` waits, the removal of the pid file by whoever gets there, crashes
and pids that are given to another process. A shutdown begins with a SIGTERM
(`StopSignal`), or with a SIGINT or the end of the event task (`Interrupted`, 428-433).
It has the steps of `main`: one restore script, whose spawn may fail unseen and which a
script spawned earlier may outlast (`DaemonRestore`, `extreme_optimizer.rs` 337), the
removal of the pid file (`DaemonUnlink`, 438), the return (`DaemonExit`, 440). The
daemon's tasks are not stopped before that: `Tweak` may come at any of these places.
`tweaks` are the daemons with tweaks on the device when all scripts have ended, `vain`
those whose restore script was not the last word, `killed` those that crashed or were
signalled before they listened. `fs::write` is two steps, an empty file and then the
content (`StartOpen` and `StartWrite`, `DaemonOpen` and `DaemonWrite`); an empty file
reads as none (61). `writers` are those that have emptied the present file: when it is
removed under them they write in vain. `Foreground` allows `daemon` to be run by hand
(which does not look for a running one). The history variable `orderly` is true as long
as no command was entered while another was in progress or a daemon was shutting down,
no daemon was run by hand, none began to end by itself during a command, no `stop` gave
up waiting and the daemon wrote its pid within the 500 ms that `start` waits (194). A
daemon is its pid.

**DaemonSlot** is what `start` and `stop` promise in an orderly session: a slot that
is free or holds one daemon, which starts, listens, is stopped, restores the device,
perhaps in vain, and leaves, or is killed at any of these places. Only the daemon in
the slot touches the device, a slot is taken only when it is free, `start` refuses
only when it is taken (or when another process has the pid of a former daemon,
`ghosts`), and `stop` says "stopped" only when it is free. `DaemonLifecycle` implements
it with `daemon` = the process that lives, `phase` = its place and `answer` = what the
terminals show; when the session
ceases to be orderly the slot takes one last step (`Disorder`) and promises nothing
from then on.

**LogFile** models files as inodes: `start` rotates, opens and hands the
descriptor to the daemon, the watchdog renames the path under it.

**GameDiscovery**, **DeviceProbe** and **TweakScripts** are the pure functions, as
operators. Text is a sequence of tokens, of as many kinds as the code tells apart: a
valid package name is one token, and so is a numeral, whose value is kept in tenths of a
hertz. GameDiscovery has `extract_package` with its three paths,
`parse_visible_packages_from_dumpsys`, both classifiers of games behind the `grep` that
filters their query, and `discover_packages` with its stable sort. DeviceProbe has
`parse_refresh_rates_from_dumpsys` with its three patterns, the three queries of
`detect_display_info` with the `grep` of the first (210), and `parse_u32_branchless`
modulo `2^Width`. TweakScripts has the three scripts command by command, with their
guards on API level and maker, `parse_snapshot_output`, and what a script does to a
device; it is ExtremeOptimizer's `OptimizeScript` and `RestoreScript` in full.
**MCFunctions** builds inputs piece by piece (`function`, `input`) and states the
properties, each against a definition that does not mention the algorithm. For the
scripts the input is the user's device: as delivered, but for one thing of any kind, a
setting, an AppOp, a whitelist entry or a mode, that is the user's.
`build_restore_script` is run as its callers run it, without the game (`NoTarget`).
**LeftFold** holds no part of the system: it is how the proofs reason about the folds
that the loops over lines and commands have become.

The modules meet in the flags they share: `suspended` of GameMonitor is that of
AotCompiler (GameSession), `tweaked` is `active` of ExtremeOptimizer, and `tweaks` of
DaemonLifecycle stands for the device being tweaked by a daemon. Each module
leaves the other side as free as the code allows it to be: in AotCompiler
`suspend` and `resume` may be called at any time, in ExtremeOptimizer every call
may come at any time.

## 3. Runs that hold

| Run | Shows |
|---|---|
| `AotCompiler_worker` | packages are settled in order, exactly once, and counted (`QueueProgress`, `ImplementsQueue`); at most one compile starts between a `suspend` and the next `resume` (`AtMostOneLateStart`); a `resume` reaches a worker that was parked when it came (`ResumeReachesParked`); once nobody suspends it the worker stops retrying: end of queue or parked (`QueueDrains`) |
| `GameMonitor_loop` | at rest with no game active, compiler and foreground flag are released (`QuietWhenNoGame`); a cancelled debounce does nothing (`CancelledDoNothing`); when games are gone for good, the compiler is released for good (`ResumedWhenNoGame`) |
| `ExtremeOptimizer_orderly` | Adaptive: at rest `active` tells what the device is in, in both directions (`FlagTellsDevice`). Performance: the global tweaks stay between games, doze is forced exactly while `active` (`PerformanceRetained`); both whatever a `bench` and an edit by the user do in between, which those properties then allow for by name. Both: the snapshot never holds a tweak (`SnapshotIsPreTweak`). Scripts run at the same time, but in turn; the saver may be the user's |
| `ExtremeOptimizer_faults` | scripts and restorations out of turn, a fault, a crash: the snapshot of a life is never replaced (`SnapshotKept`), a game exit writes defaults only after a failed call (`NoBlindGameExit`) |
| `DaemonLifecycle_commands` | in an orderly session there is one daemon (`OneIfOrderly`), which the pid file names (`TrackedIfOrderly`), whatever crashes, stale, empty or removed files and pid reuse do; in any session a daemon leaves tweaks only in three ways: killed, by a crash or by a signal before it listened; its restore script refused or overtaken; a task that tweaks after the restoration (`TweaksLeftBehind`); step by step an orderly session is a single slot (`SlotImplemented`) |
| `LogFile_findable` | the running daemon's output is always in the log or in `.log.old` (`OutputFindable`) |
| `GameSession_play` | event loop and compiler together: at rest with a game active, a compile, awaited or not, runs beside it only through one of three windows: a superseded worker cleared the flag, the compiler had read it just before, the killall spared what was interrupted (`CompilesBesideGame`); at rest with no game active, the compiler waits for nobody unless its notification was missed (`WaitsForNobody`); when games are gone for good, the queue is finished or the notification was missed for good (`GamesOverQueueDone`) |
| `Functions_inputs` | a line gives the name before its first slash, and is never passed over if a name stands alone in it (`PackageExtracted`); the queue is sorted, complete and stable (`GamesFirst`); a package compiled as a game is one that suspends the compiler (`PrioritizedIsSuspended`); the whitelist gets every visible app and nothing else (`SecondaryAreUserApps`); the rates are the display's modes in any format (`RatesAreModes`), and the one locked is the fastest, if the grep or the second query shows one (`LockedRateIsMode`); a clock is the first number of the first line (`ClockExact`); leaving a game gives back every captured setting on any device, and what it does not give back is named (`GameUndone`); in Performance mode a game's end gives back a part and the shutdown the rest (`PerformanceUndone`) |

### Bounds, and why they are enough

* *AotCompiler*: three packages (one before, one at and one after the
  interruption), two resumers (two overlapping `resume` calls), two outstanding
  killalls (`MaxKills`; a late one and a new one). `suspend` waits when that
  many are outstanding.
* *GameMonitor*: two games, one recognised by name and one by its manifest, and a
  launcher. The logs begin with a game in front (`Front`), so two switches
  (`MaxSwitches`) suffice for two game pauses of which the second supersedes the
  first, for a resume that cancels a debounce, and for an end with no game. Two
  debounce workers (one superseded by another; the pause task waits when both are
  alive), one fault. The safety properties are also proved for every size. In
  `GameMonitor_toctou`, four switches and symmetric workers; symmetry is never
  used with a liveness property.
* *ExtremeOptimizer*: one key, with a blind default (a second without one in
  `ExtremeOptimizer_blind`), one app, one game (the code never
  compares two: which game it is shows only in `GameModeSet`), two scripts that the
  device has not finished (`MaxScripts`, a call waits when there are more), a bench
  and an edit (`MaxBenches`, `MaxEdits`) and a saver that may be the user's in
  `_orderly`; one fault, two lives, two restorers and one race in `_faults`. In
  `_orderly` nothing is out of turn (`MaxRaces = 0`): its properties excuse a race, so
  one would only add states. The device has as many scripts as `MaxScripts` in
  progress at once; a third would have to come within the run time of two.
* *DaemonLifecycle*: two terminals (two commands in a race), two daemons (at the
  same time or one after the other), two faults (a crash and a reuse of its pid);
  three daemons and one terminal in `DaemonLifecycle_untracked`. When no pid is
  left a `start` stays where it is.
* *LogFile*: three inodes (log, old and a new one), a cap of two units, bursts of
  two between two ticks.
* *GameSession*: one game known by its name and the launcher, two switches (the game
  is entered and left, and entered again over the end of a debounce when a
  reconnection repeats its lines), one
  debounce worker, one package, one outstanding killall, one fault. More workers
  than one differ in the event loop only, which `GameMonitor_loop` has. All three windows
  and a missed notification do occur: dropping any of the four disjuncts gives a
  counterexample.
* *Functions*: five tokens of text (both delimiters of a name, a slash and a second
  name), four lines of a dump (a header, its mark, a second header and its mark),
  three modes of a display (equal ones, out of order, out of range, on both ends of
  it) in seven formats, those of the tests and the comments of `env_probe.rs`; four bytes
  of a clock with 6 bits, which overflows at the second digit already (`Width`); one
  thing, of whatever kind, that the user has chosen, since a script treats each by
  itself.

Deadlock is checked for AotCompiler. It is not for the others: the daemon exits,
inputs are finite, and the bounds on switches, pids and sizes stop the models where
the system goes on.

### Fairness

Weak fairness for steps that the runtime or the device owes: a task that was woken
is polled, a call that has begun is carried through, a timer expires, a `rish`
call returns (Android's package manager has its own timeout), a process is
scheduled. Never for what the user or Android may choose: commands, activity
switches, crashes, reconnections, the calls of `suspend` and `resume`. GameSession
is fair to each task as a whole. DaemonLifecycle, ExtremeOptimizer, LogFile and
MCFunctions assume none: nothing but safety is asked of them.

One timing assumption is named: `SleepOutlastsHandler`, the resume task gets
from its insert into `active_games` to `suspend()` (`HandlerThrough`: three statements
with no await, 280-289) before a five-second sleep that began meanwhile ends. A sleep
that the resume has cancelled may end at any moment, in mid-handler too; that
this does no harm is `CancelledDoNothing`. Without the assumption a worker spawned after
the bump could pass its checks before the insert and clear the flag after the suspend,
with no resume superseding it: a window of its own beside those of
`CompilesBesideGame`. The proof of `QuietWhenNoGame` uses it too.

## 4. Disagreements between the code and what it says

Each module ends with the promises of the documents that the code does not
keep. Four of them have a run that ends in a counterexample (`PROJECT.json`
quotes the sentences):

| Run | What happens |
|---|---|
| `AotCompiler_lost` | a `resume` between the load of the flag and `notified()` wakes nobody: the worker waits although compilation was resumed |
| `GameMonitor_toctou` | a worker past its checks releases the compiler of a game that has just resumed, which then plays beside `dex2oat` |
| `ExtremeOptimizer_blind` | `stop` before the first game resets seven settings to defaults |
| `DaemonLifecycle_untracked` | a `stop` that reads the pid file while the daemon rewrites it takes the daemon for stopped and removes the file the pid is then written to; no command finds the daemon. An old, slow daemon that removes the pid file of the new one (438) gives the same |

TLC refutes the others as well; to see it, give the property to the
configuration named, with the change named:

| Property | Configuration | What happens |
|---|---|---|
| `SuspendedMeansStopped` | `AotCompiler_lost`, `Spec` | a `suspend` between the load of the flag and `select!` interrupts nothing, and the compile starts beside the game; or the interruption only drops the future, the killall fails and the compile runs on (`shizuku.rs` 54) |
| `KilledIsRetried` | `AotCompiler_lost`, `Spec` | a killall that hits a compile whose interruption was missed, or the one after a `resume`, settles it as failed; it is not retried |
| `RestoredAfterGame` | `GameMonitor_toctou` | the game is left while its `apply_optimizations` awaits: the restore sees nothing active, the tweaks come later and stay |
| `ActiveIsForeground` | `GameMonitor_toctou` | the pause of a game is read before its resume: it stays active |
| `SnapshotIsPreTweak` | `ExtremeOptimizer_blind`, `MaxFaults = 1` | after a failed first capture the tweaks become the snapshot |
| `GameModeReset` | `ExtremeOptimizer_blind` | callers pass `None`: game mode is never reset |
| `NoTweakSurvivesStop` | `ExtremeOptimizer_blind` | the tasks are not stopped before the final restoration: a call in progress spawns its tweaks after it (`main.rs` 437) |
| `PowerDuringGame` | `ExtremeOptimizer_orderly` | a `bench` beside a game switches its fixed performance mode off (`env_probe.rs` 327) |
| `GameModeSet` | `ExtremeOptimizer_orderly`, `Game = {quest, arcade}` | a second game never gets its game mode while tweaks are active |
| `AppsUnlisted` | `ExtremeOptimizer_blind`, `MaxFaults = 1` | the secondary list is taken before a spawn that fails: apps stay whitelisted |
| `UserWhitelistKept` | `ExtremeOptimizer_blind` | the user's own whitelist entry is removed |
| `GameExitReverts` | `ExtremeOptimizer_blind`, `MaxRaces = 2` | the restoration overtakes the tweaks, at the AppOps and at the settings, which then stay |
| `UserKnobsKept` | `ExtremeOptimizer_blind` | a saver or a vendor's service that the user had as the tweaks set it is put to a fixed value at the end (230-238) |
| `CompletelyRestored` | `Functions_inputs` | README's "complete restoration": the game's own mode stays, since no caller names the game (`event_listener.rs` 360, `extreme_optimizer.rs` 333), and choices that have no place in the snapshot are lost |
| `LogCapped` | `LogFile_findable` | the daemon's descriptor follows the renamed file, which then grows without bound (`main.rs` 33) |
| `SuspendedIsPrioritized` | `Functions_inputs` | a game marked only by `CATEGORY_GAME` suspends the compiler but is not compiled as a game: one `grep` ignores case, the other does not (`aot_compiler.rs` 122) |
| `OneDaemon` | `DaemonLifecycle_commands` | two concurrent `start`s, or a `daemon` by hand, give two daemons |
| `StopMeansRestored` | `DaemonLifecycle_untracked`, `Mode = "Performance"` | SIGTERM before its handler: killed with tweaks applied, success reported |
| `RefusedMeansRunning` | `DaemonLifecycle_untracked`, `MaxFaults = 2` | a reused pid passes for a running daemon |

## 5. Proofs

All of them hold for every value of the constants that satisfies the named
assumptions of the module (`QueueLen` and `MaxKills` natural numbers; `Named`
within `Games` within `Packages`, `Front` a package, bounds natural numbers; the
things a script writes distinct, a setting of the snapshot, an app's whitelist entry,
a game's game mode and a knob being different items of the device, `ItemsAssumption`;
`NoPid` not a pid, and a pid not a terminal, `WritersAssumption`; `NoFile` not a file;
the packages finite in number and none of them a delimiter, `NameAssumption`; Termux
no app beside a game, since `SYSTEM_EXCLUDED_PACKAGES` has it, `TargetAssumption`).

*AotCompilerProofs.* `TypeCorrect` needs more than the types: `idx` stays in
range because a command is awaited only inside the queue, so the invariant is
`TypeOK /\ InQueue`, with `InQueue` saying that past `check` the index is a
package's. `LateStartBound` rests on `LateStartInv`: no late start is on record while
the flag is down, nor between the load of the flag (`begin`, `poll`) and the start
of the command. `NothingLost` is inductive with the typing, once
`SettleCounts` (settling one pending package adds one to the cardinality exactly
if it ended "ok") is known. `WorkerImplementsQueue` maps every step to a step of
CompileQueue or to a stutter; `SettledLength` and `SettledGrows` say what the
mapping's sequence is after one more package.

*GameSessionProofs, the event loop alone.* `GameMonitorTypeCorrect`.
`CancelledStaysCancelled` rests on `DebouncesOrdered` (`DebounceInv`): the generation of
a worker never exceeds `pause_generation`, and that of a cancelled one is strictly below
it, so the comparison at 345 fails. `NobodyLeftSuspended` rests on `QuietInv`: as long
as a release is owed (the compiler's flag or the foreground flag is set, or about to be)
somebody holds the debt: an active game, the resume task about to insert one, the pause
task about to spawn a worker, or a worker that nothing has superseded. Superseding a
debounce moves the obligation, it never drops it. This is the argument one would make
about the generation counter in a review, for any number of workers.

*ExtremeOptimizerProofs, the snapshot.* `SnapshotStays` needs `CaptureInv`: while a
capture is awaited there is no snapshot yet, because only one call at a time is past the
lock. `GameExitWritesSnapshot` needs to know where the snapshot must already be there:
`ExitInv` says that, as long as nothing failed, it is there from `ApplyCheck` on,
whenever `active` is set, and while a `restore_system` is in progress; and that the
script a restoration has built writes nothing but its values
(`RestoreScriptWritesSnapshot`, for both modes). The failures are what the invariant
turns on: after a failed capture `active` is set without a snapshot.

*ExtremeOptimizerProofs, the device.* Both theorems rest on `Writes(V)`: the device holds
values of a set V only, and so do the scripts in progress and those a restoration or
main has built and not yet spawned. `WritesKept` shows that every step keeps it when V
has the values the probe, a blind restoration and the user write and the snapshot is
typed by V; the one script that needs more is that of `SpawnApply`. With V all values
this gives `OptimizerTypeCorrect`. With V all values but the tweak it gives
`SnapshotIsPristine`: until there is a snapshot no tweak is on the device or on its
way there, since `Captures` puts every `SpawnApply` behind a capture, so the capture
reads none; afterwards the snapshot stays. The premise `faults = 0 /\ lives = 1` is
needed: after a failed capture, or a daemon killed during a game, the tweaks are
what the next capture reads (`ExtremeOptimizer_blind` with `MaxFaults = 1`).

*ExtremeOptimizerProofs, the flag.* `FlagMatchesDevice` and `PerformanceKeepsTweaks` are
about states at rest, but between them the device is in the middle of a script. The
invariant therefore speaks of `Final`, the value each item will have when the scripts
in progress are done: that of the last group that writes it, or the device's if no
script does (`Quiet`). `RunKeepsFinal`: a script that works in turn changes nothing
of it. `DetachChangesFinal`: spawning a script overrides what it writes and keeps the
rest. `WriteChangesFinal`: a probe or an edit counts for an item no script writes.
`OptimizeLeaves` and `RestoreLeaves` say what the two scripts leave on each item;
they need that no item is in two groups. `FlagInv` then says: whoever spawned the last
script, tweaks or restoration (`Tweaking`), decides what the device will be in
(`DozeInv`, `AppInv`, `GlobalInv`); tweaks are spawned with the flag down and a
restoration with the flag up, so each spawn finds the device going the other way
(`ExclInv`); and the snapshot is what the user had, or has edited since
(`SnapInv`). An app that will be whitelisted is the user's, or in the secondary list,
or in the script of the restoration that has taken the list. There is a lemma per
action, and `FlagStep` puts them together for the states (`Orderly`) with no failed
call, in the first life, before the shutdown.

Neither theorem asks more of the constants than the others: any number of scripts run at the
same time and any number of restorations may be called. What the properties excuse is
on record in the state (`Undisturbed`), and each of the four is something the code does
not take care of. After a failed call or a restart the flag and the device differ by
design. A script that overtakes an older one decides against the order in which the
flag was set: row `GameExitReverts` of section 4. And when a restoration begins within
another (`ExtremeOptimizer_orderly` with `Restorer = {r1, r2}` and `MaxRaces = 1`, the
excuse dropped) both pass the test of the flag (301), one ends, a game sets the flag
again, and the other then stores FALSE over tweaks that are on the device, or takes
them back under a game. As long as none of this has happened `RunKeepsFinal` needs no
order of the scripts but `Due`: working on a script whose next items no older one has
still to write changes nothing of what each item will be.

*GameSessionProofs, with the compiler.* `SessionRunsMonitor` and `SessionRunsCompiler`:
every step of the composition is a step of each part or leaves its variables alone, for
the calls by splitting them into the halves the parts know; so every behaviour of the
session is one of GameMonitor and one of AotCompiler, and their theorems hold in it;
fairness is left out. `OnlyThreeWindows` needs an invariant of each part. Of the
compiler (`StoppedInv`): a command that is awaited with the flag up is a late start or
is about to be interrupted. Of the composition, `SparedInv`: a compile that nobody
awaits, beside a flag that is up, has a killall coming or has been spared by one; and
`FlagInv`: a game has the flag up unless it was lost to a superseded worker, which rests
on `CurrentInv` of the event loop (a worker that nothing has superseded finds no game
past its sleep). `SessionWaitsForNobody` joins `NobodyLeftSuspended` with `WaitInv`: a
compiler that waits without the flag has been woken, will be by a caller past its store,
or missed the notification.

*DaemonLifecycleProofs.* `DaemonTypeCorrect` includes that a command past its
probe holds a pid; `FileTyping` says once what the three steps on the pid file do
to its type. `OnlyThreeWaysLeaveTweaks` rests on `TweakInv`: a daemon
whose tweaks are on the device and which is excused by neither `killed` nor `vain` has
not come past its restoration. It asks nothing of the session: any number of terminals,
daemons by hand, crashes, in both modes.
`OrderlyHasOne` and `OrderlyIsTracked` rest on `OrderInv`: in an orderly session one
command is in progress at most, and at each of its places it knows what lives
(`Undisturbed`). After a probe that found a daemon that is the only one and the pid file
names it (`Probed`); after a probe that found none, none lives (`Vacated`);
while `start` writes the pid, its child is the only process and either the file
has the child's pid or the child is still to write it (`Spawned`); after SIGTERM only
the process that got it may live (`Signalled`). Between commands a live daemon is past
its start and named by the file. The order in which parent and child write
the file does not matter because they write the same pid, and an empty file
has a writer that is still at it.

`DaemonImplementsSlot` shows each step to be one of DaemonSlot or a stutter, and turns
on the same invariant: a `start` that spawns its child finds no living daemon, so the
child takes a free slot; whatever else changes the state of a process changes that of
the only one, so the mapping of its place (`PhaseOf`) moves as the slot does. The
refinement mapping chooses the living process, and `OrderInv` makes it unique; a step
that loses the order maps to `Disorder`, and as order never returns every later one is
a stutter. The steps on the pid file are stutters: the slot is what the pid file is there to
protect. Of the commands those are not in which they answer: a `start` that refuses has
probed a process that is the daemon or a ghost (`RefusalSteps`), a `stop` that reports
success has waited for its daemon to go (`CommandSteps`).

*LogFileProofs.* `OutputStaysFindable` rests on `PrintsInv`: the daemon writes to
the log or, if to the old file, there is no log. The watchdog renames a log only,
so it never renames one file over the other that the daemon is writing to.

*LeftFold.* The loops of the parsers are left folds, and what a loop computes for an
input of any length is an induction on the input. The library's induction theorems
take a predicate as parameter, which no installed prover can instantiate; a module
with the folded operator as its CONSTANT can be instantiated instead (`INSTANCE
LeftFold WITH Op <- ...`), and a predicate becomes a set. `FoldTrace` unrolls
`FoldLeft`: there is a sequence of states, each the operator's result on the one
before. It needs that the recursion under the fold is well defined
(`RecursionExists`), from the well-foundedness of the order of numbers.
The lemma `FoldInvariant`, what the base is in and each element preserves, the result is
in, is then proved once, for families of sets indexed by the length done; `FoldConcat` says
that folding a concatenation is folding twice.

*DiscoveryProofs.* Each fold has an invariant that says, for the lines read so far,
what the state stands for. `ExtractsThePackage` needs none: it follows
`extract_package` through its paths, the word before the slash, the braced text, the
token, each found by `FindFirst`. `WhitelistsTheVisible` (`VisibleFound`): the list so
far has the candidates of the lines so far, once each. `GamesFound` is the heart of
the other two: the set the category parser returns is the packages of `GameByItself`,
where the parser's "current package" is the last header seen. From it, `GamesSuspend`
says that a package compiled as a game suspends the compiler: the marks that pass the
case-sensitive `grep` pass the other. `GamesGoFirst` adds what filtering keeps
(`KeepIs`: order and members), that each package is listed once with one category
(`ListsOnce`, `SystemListed`), and what the concatenation of the three categories is
(`SortedIs`).

*ScriptsProofs.* A script is run part by part (`RunConcat`), so the device after it is
known thing by thing: `Optimized` and `Restored` say what each script leaves, on any
device. The scripts' settings are those of the snapshot (`RateSettings`,
`LatencySettings`: on every maker the keys that are set are among the keys that are
captured), and the kinds of things are disjoint (`KindsDiffer`). `AdaptiveUndone` and
`ShutdownUndone` then compare the two for each kind, on a device that has a value of the
user's in any place: the captured settings are the user's again, what is reset blindly
is as delivered, and what stays on is the game's own mode, Termux and the debug
properties, since the restoration is called without the game. `GameApart` is why the
game's things are nobody else's.

Only model-checked: liveness (`ResumeReachesParked`, `QueueDrains`, `ResumedWhenNoGame`,
`GamesOverQueueDone`: TLAPS has no rules for fairness here that its installed backends
can use), three properties of the probes, and all counterexamples. `RatesAreModes` and
`LockedRateIsMode` speak of a sorted sequence that the community modules choose by an
operator the provers do not see into (`SetToSortSeq`), over seven text formats;
`ClockExact` is about powers of two and ten, which the SMT backend leaves uninterpreted,
summed over a set of positions.

## 6. Not modelled

* `detect_soc`, `detect_oem` and `get_prop` (`env_probe.rs`): tables of names that
  nothing but the choice of two commands depends on; `Oem` takes every value.
* The list of name fragments (`is_known_emulator_or_game_name`) and the search for
  them: the constant `Named`. The grammar of a package name (`is_valid_package_name`)
  beyond its use: the set `Name`. `contains_ignore_ascii_case`: part of the marks a
  line carries.
* The splitting of a snapshot line at its first blank and equals sign; the open and
  the `pread` of a sysfs descriptor.
* The phantom-process setting and the appops and whitelist entries of Termux and
  Shizuku, but for Termux's in the tweak script: written once and never restored by
  any code path (the setprop tweaks, `debug.*`, are in TweakScripts).
* Mode file, boot script, wake lock, OOM protection: written and not read back
  by the running daemon, the mode excepted: read once per life, it is a variable
  of ExtremeOptimizer set at each start and the constant `Mode` of DaemonLifecycle.
* The report of `bench`.
* `install.sh`.

## 7. Plan

Done: AotCompiler with its abstract queue, GameMonitor, the composition of the two,
ExtremeOptimizer with the device's other writers, DaemonLifecycle with the pid file
written in two steps and its abstract slot, LogFile, and the pure functions; proofs of
both refinements and of every safety invariant the runs check, the three of the probes
excepted. What could come next is the composition of GameSession with ExtremeOptimizer
in place of `tweaked`, and an abstract specification of what the daemon promises a
game.
