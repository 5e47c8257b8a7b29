---------------------------- MODULE TweakScripts ----------------------------
(***************************************************************************)
(* What the scripts of ExtremeOptimizer say: build_snapshot_capture_script *)
(* with parse_snapshot_output, build_optimize_script and                   *)
(* build_restore_script, on a device whose maker, API level and settings   *)
(* vary.  Module ExtremeOptimizer has the calls that run these scripts,    *)
(* with the settings reduced to a few.                                     *)
(*                                                                         *)
(* A command sets one thing of the device.  A device is a function from    *)
(* things to values, and a script a sequence of such functions, each for   *)
(* some commands in a row.  The settings carry their names in the code.    *)
(***************************************************************************)
EXTENDS Naturals, Sequences, SequencesExt

CONSTANTS
  UserApp,    \* apps that may be visible beside a game
  GameApp,    \* games
  NoTarget,   \* target_pkg = None
  Rate        \* max_refresh_rate, as it is printed

\* Termux is in SYSTEM_EXCLUDED_PACKAGES: it is no app beside a game.
ASSUME TargetAssumption ==
  /\ NoTarget \notin GameApp /\ UserApp \cap GameApp = {}
  /\ "com.termux" \notin UserApp

Oem == {"XiaomiMiuiHyperOs", "OplusColorRealmeOxygen", "other"}
ThrottlePackages ==
  {"com.samsung.android.game.gos", "com.xiaomi.joyose", "com.miui.powerkeeper",
   "com.oplus.cosa", "com.oplus.games", "com.motorola.gamemode.service",
   "com.transsion.gamezone"}

Unset == "unset"   \* of a setting: the user never set it

Whitelisted(app) == <<"whitelist", app>>
GameMode(game) == <<"game mode", game>>
Overlay(game) == <<"game_overlay", game>>
AppOps(package) == <<"appops", package>>
Doze == <<"deviceidle", "forced">>
FixedPerformance == <<"power", "fixed performance">>
PowerSaver == <<"power", "adaptive saver">>
Thermal == <<"thermalservice", "override">>
DebugProperties == <<"setprop", "debug">>

SetOf(things, value) == << [t \in things |-> value] >>
When(condition, script) == IF condition THEN script ELSE <<>>

\* The device after some commands in a row, and after a script.
Set(commands, device) ==
  [t \in DOMAIN commands \cup DOMAIN device |->
     IF t \in DOMAIN commands THEN commands[t] ELSE device[t]]
Run(script, device) ==
  FoldLeft(LAMBDA d, commands : Set(commands, d), device, script)

-----------------------------------------------------------------------------
(* The snapshot *)

CapturedKeys ==
  {<<"system", k>> : k \in
     {"min_refresh_rate", "peak_refresh_rate", "user_refresh_rate",
      "force_peak_refresh_rate", "miui_refresh_rate", "pointer_speed"}} \cup
  {<<"secure", k>> : k \in
     {"long_press_timeout", "multi_press_timeout", "tap_duration_threshold",
      "touch_blocking_period", "accessibility_reduce_transparency"}} \cup
  {<<"global", k>> : k \in
     {"oneplus_screen_refresh_rate", "window_animation_scale",
      "transition_animation_scale", "animator_duration_scale",
      "wifi_scan_throttle_enabled", "wifi_power_save", "network_boost",
      "touch_performance_mode", "touch_response_high",
      "input_latency_reduction", "gpu_latency_mode", "disable_window_blurs",
      "heads_up_notifications_enabled", "ram_expand_size"}}

\* What `settings get` prints; a key that is not set prints null.
Printed(value) == IF value = Unset THEN "null" ELSE value

\* mutant: "null" is taken for a value
ParseNull(text) == IF text = "" THEN Unset ELSE text

\* parse_snapshot_output, of one value: empty, null and error texts are None,
\* which the restoration deletes.
ParseValue(text) ==
  IF text \in {"", "null", "Failed to find", "Invalid"} THEN Unset ELSE text

\* The snapshot, of the keys that were printed.
Snapshot(device) ==
  [k \in CapturedKeys |-> ParseValue(Printed(device[k]))]
NoSnapshot == <<>>

-----------------------------------------------------------------------------
(* build_optimize_script *)

\* The refresh rate settings; two makers have one of their own.
RateCommands(oem) ==
  SetOf({<<"system", "min_refresh_rate">>, <<"system", "peak_refresh_rate">>,
         <<"system", "user_refresh_rate">>}, Rate) \o
  SetOf({<<"system", "force_peak_refresh_rate">>}, "1") \o
  When(oem = "XiaomiMiuiHyperOs",
       SetOf({<<"system", "miui_refresh_rate">>}, Rate)) \o
  When(oem = "OplusColorRealmeOxygen",
       SetOf({<<"global", "oneplus_screen_refresh_rate">>}, "2"))

\* Touch, graphics, animations, notifications, network and swap.
LatencyCommands ==
  SetOf({<<"secure", "long_press_timeout">>, <<"secure", "multi_press_timeout">>},
        "200") \o
  SetOf({<<"secure", "tap_duration_threshold">>,
         <<"secure", "touch_blocking_period">>}, "0.0") \o
  SetOf({<<"system", "pointer_speed">>}, "7") \o
  SetOf({<<"global", "gpu_latency_mode">>, <<"global", "touch_performance_mode">>,
         <<"global", "touch_response_high">>, <<"global", "input_latency_reduction">>,
         <<"global", "disable_window_blurs">>,
         <<"secure", "accessibility_reduce_transparency">>,
         <<"global", "wifi_scan_throttle_enabled">>, <<"global", "network_boost">>},
        "1") \o
  SetOf({<<"global", "window_animation_scale">>,
         <<"global", "transition_animation_scale">>,
         <<"global", "animator_duration_scale">>,
         <<"global", "heads_up_notifications_enabled">>,
         <<"global", "wifi_power_save">>, <<"global", "ram_expand_size">>}, "0")

OptimizeScript(api, oem, target, apps) ==
  SetOf({Whitelisted("com.termux")} \cup {Whitelisted(a) : a \in apps}, "on") \o
  SetOf({Doze}, "on") \o
  When(api >= 30, SetOf({FixedPerformance}, "on")) \o
  SetOf({PowerSaver}, "off") \o SetOf({Thermal}, "on") \o
  When(target # NoTarget /\ api >= 31, SetOf({GameMode(target)}, "on")) \o
  When(target # NoTarget /\ api >= 33, SetOf({Overlay(target)}, "on")) \o
  SetOf({DebugProperties}, "on") \o
  RateCommands(oem) \o LatencyCommands \o
  SetOf({AppOps(p) : p \in ThrottlePackages}, "ignore")

-----------------------------------------------------------------------------
(* build_restore_script *)

BlindCommands ==
  SetOf({<<"global", "window_animation_scale">>,
         <<"global", "transition_animation_scale">>,
         <<"global", "animator_duration_scale">>, <<"global", "wifi_power_save">>,
         <<"global", "heads_up_notifications_enabled">>}, "1") \o
  SetOf({<<"global", "disable_window_blurs">>,
         <<"secure", "accessibility_reduce_transparency">>}, "0")

\* Every caller passes None for the target.
ResetTarget(api, target) ==
  When(target # NoTarget /\ api >= 31, SetOf({GameMode(target)}, "off")) \o
  When(target # NoTarget /\ api >= 33, SetOf({Overlay(target)}, "off"))

\* mutant: the test for the shutdown is missing
RestoreScriptKeeping(api, mode, target, snapshot, apps, full) ==
  SetOf({Doze}, "off") \o
  SetOf({Whitelisted(a) : a \in apps}, "off") \o
  ResetTarget(api, target) \o
  When(mode # "Performance", SetOf({Thermal}, "off") \o SetOf({PowerSaver}, "on") \o
       When(api >= 30, SetOf({FixedPerformance}, "off")) \o
       SetOf({AppOps(p) : p \in ThrottlePackages}, "allow") \o
       IF snapshot = NoSnapshot THEN BlindCommands
       ELSE <<snapshot>>)

RestoreScript(api, mode, target, snapshot, apps, full) ==
  SetOf({Doze}, "off") \o
  SetOf({Whitelisted(a) : a \in apps}, "off") \o
  ResetTarget(api, target) \o
  When(mode # "Performance" \/ full,
       SetOf({Thermal}, "off") \o SetOf({PowerSaver}, "on") \o
       When(api >= 30, SetOf({FixedPerformance}, "off")) \o
       SetOf({AppOps(p) : p \in ThrottlePackages}, "allow") \o
       IF snapshot = NoSnapshot THEN BlindCommands
       ELSE <<snapshot>>)
=============================================================================
