--------------------------- MODULE ScriptsProofs ----------------------------
(***************************************************************************)
(* The scripts that enter and leave a game, for every maker, API level,    *)
(* game, set of apps beside it and setting the user chose: what leaving    *)
(* undoes of what entering did.                                            *)
(*                                                                         *)
(* A script is run part by part (RunConcat), so that the device after it   *)
(* is known thing by thing: Optimized and Restored say what each script    *)
(* makes of any device.  What is left of the one after the other is then a *)
(* comparison for each kind of thing.                                      *)
(***************************************************************************)
EXTENDS MCFunctions, SequenceTheorems, TLAPS

Scripts == INSTANCE LeftFold WITH
             Op <- LAMBDA param, device, commands : Set(commands, device)

LEMMA RunIsFold ==
  ASSUME NEW script, NEW device
  PROVE  Run(script, device) = Scripts!Fold(0, device, script)
BY DEF Run, Scripts!Fold, Scripts!FoldLeft, FoldLeft,
       Scripts!MapThenFoldSet, MapThenFoldSet, Scripts!Max, Max

IsScript(s) == \E S : s \in Seq(S)
IsDevice(d) == d = [t \in Thing |-> d[t]]

\* The device with some things set to a value.
Put(things, value, d) == [t \in Thing |-> IF t \in things THEN value ELSE d[t]]

\* A script is run part by part.
LEMMA RunConcat ==
  ASSUME NEW r, IsScript(r), NEW s, IsScript(s), NEW device
  PROVE  /\ IsScript(r \o s)
         /\ Run(r \o s, device) = Run(s, Run(r, device))
<1>1. PICK R : r \in Seq(R)
  BY DEF IsScript
<1>2. PICK S : s \in Seq(S)
  BY DEF IsScript
<1> DEFINE T == R \cup S
<1>3. r \in Seq(T) /\ s \in Seq(T)
  <2>1. \A i \in 1..Len(r) : r[i] \in T
    BY <1>1
  <2>2. \A i \in 1..Len(s) : s[i] \in T
    BY <1>2
  <2>3. Len(r) \in Nat /\ Len(s) \in Nat
    BY <1>1, <1>2
  <2>4. r = [i \in 1..Len(r) |-> r[i]] /\ s = [i \in 1..Len(s) |-> s[i]]
    BY <1>1, <1>2
  <2> QED
    BY <2>1, <2>2, <2>3, <2>4, SeqDef
<1> HIDE DEF T
<1>4. IsScript(r \o s)
  <2>1. r \o s \in Seq(T)
    BY <1>3
  <2> QED
    BY <2>1 DEF IsScript
<1>5. Scripts!Fold(0, device, r \o s) =
        Scripts!Fold(0, Scripts!Fold(0, device, r), s)
  BY <1>3, Scripts!FoldConcat
<1> QED
  BY <1>4, <1>5, RunIsFold

LEMMA RunShort ==
  ASSUME NEW device, NEW commands
  PROVE  /\ IsScript(<<>>) /\ IsScript(<<commands>>)
         /\ Run(<<>>, device) = device
         /\ Run(<<commands>>, device) = Set(commands, device)
<1>1. <<>> \in Seq({}) /\ <<commands>> \in Seq({commands})
  OBVIOUS
<1>2. IsScript(<<>>) /\ IsScript(<<commands>>)
  BY <1>1 DEF IsScript
<1>3. /\ Scripts!Fold(0, device, <<>>) = device
      /\ Scripts!Fold(0, device, <<commands>>) = Set(commands, device)
  BY Scripts!FoldShort
<1> QED
  BY <1>2, <1>3, RunIsFold

LEMMA RunSetOf ==
  ASSUME NEW things \in SUBSET Thing, NEW value, NEW device, IsDevice(device)
  PROVE  /\ IsScript(SetOf(things, value))
         /\ Run(SetOf(things, value), device) = Put(things, value, device)
<1> DEFINE commands == [t \in things |-> value]
<1>1. Set(commands, device) = Put(things, value, device)
  BY DEF Set, Put, IsDevice
<1> QED
  BY <1>1, RunShort DEF SetOf

LEMMA RunWhen ==
  ASSUME NEW condition \in BOOLEAN, NEW script, NEW device,
         condition => IsScript(script)
  PROVE  /\ IsScript(When(condition, script))
         /\ Run(When(condition, script), device) =
              IF condition THEN Run(script, device) ELSE device
BY RunShort DEF When

LEMMA PutDevice ==
  ASSUME NEW things, NEW value, NEW device
  PROVE  IsDevice(Put(things, value, device))
BY DEF IsDevice, Put

\* Settings that are captured, with their values.
Over(settings, device) ==
  [t \in Thing |-> IF t \in DOMAIN settings THEN settings[t] ELSE device[t]]

\* A script that only sets captured settings, to the same on every device.
Sets(script, settings) ==
  /\ DOMAIN settings \subseteq CapturedKeys
  /\ IsScript(script)
  /\ \A device : IsDevice(device) => Run(script, device) = Over(settings, device)

LEMMA SetsSetOf ==
  ASSUME NEW things \in SUBSET CapturedKeys, NEW value
  PROVE  \E settings : Sets(SetOf(things, value), settings)
<1> DEFINE settings == [t \in things |-> value]
<1>1. things \in SUBSET Thing
  BY DEF Thing
<1>2. IsScript(SetOf(things, value))
  BY RunShort DEF SetOf
<1>3. ASSUME NEW device, IsDevice(device)
      PROVE  Run(SetOf(things, value), device) = Over(settings, device)
  <2>1. Run(SetOf(things, value), device) = Put(things, value, device)
    BY <1>1, <1>3, RunSetOf
  <2>2. Put(things, value, device) = Over(settings, device)
    BY DEF Put, Over
  <2> QED
    BY <2>1, <2>2
<1>4. DOMAIN settings \subseteq CapturedKeys
  OBVIOUS
<1> HIDE DEF settings
<1> QED
  BY <1>2, <1>3, <1>4 DEF Sets

LEMMA SetsConcat ==
  ASSUME NEW r, \E settings : Sets(r, settings),
         NEW s, \E settings : Sets(s, settings)
  PROVE  \E settings : Sets(r \o s, settings)
<1>1. PICK M : Sets(r, M)
  OBVIOUS
<1>2. PICK N : Sets(s, N)
  OBVIOUS
<1> DEFINE settings == [t \in DOMAIN M \cup DOMAIN N |->
                          IF t \in DOMAIN N THEN N[t] ELSE M[t]]
<1>3. IsScript(r) /\ IsScript(s)
  BY <1>1, <1>2 DEF Sets
<1>4. ASSUME NEW device, IsDevice(device)
      PROVE  Run(r \o s, device) = Over(settings, device)
  <2>1. Run(r, device) = Over(M, device)
    BY <1>1, <1>4 DEF Sets
  <2>2. IsDevice(Over(M, device))
    BY DEF IsDevice, Over
  <2>3. Run(s, Over(M, device)) = Over(N, Over(M, device))
    BY <1>2, <2>2 DEF Sets
  <2>4. Over(N, Over(M, device)) = Over(settings, device)
    BY DEF Over
  <2> QED
    BY <1>3, <2>1, <2>3, <2>4, RunConcat
<1>5. DOMAIN settings \subseteq CapturedKeys
  BY <1>1, <1>2 DEF Sets
<1>6. IsScript(r \o s)
  BY <1>3, RunConcat
<1> HIDE DEF settings
<1> QED
  BY <1>4, <1>5, <1>6 DEF Sets

LEMMA SetsWhen ==
  ASSUME NEW condition \in BOOLEAN, NEW s, \E settings : Sets(s, settings)
  PROVE  \E settings : Sets(When(condition, s), settings)
<1>1. CASE condition
  BY <1>1 DEF When
<1>2. CASE ~condition
  <2> DEFINE settings == [t \in {} |-> t]
  <2>1. IsScript(<<>>) /\ \A device : Run(<<>>, device) = device
    BY RunShort
  <2>2. \A device : IsDevice(device) => device = Over(settings, device)
    BY DEF IsDevice, Over
  <2>3. DOMAIN settings \subseteq CapturedKeys
    OBVIOUS
  <2> HIDE DEF settings
  <2>4. Sets(<<>>, settings)
    BY <2>1, <2>2, <2>3 DEF Sets
  <2> QED
    BY <1>2, <2>4 DEF When
<1> QED
  BY <1>1, <1>2

LEMMA RateSettings ==
  ASSUME NEW oem
  PROVE  \E settings : Sets(RateCommands(oem), settings)
<1> DEFINE a == SetOf({<<"system", "min_refresh_rate">>,
                       <<"system", "peak_refresh_rate">>,
                       <<"system", "user_refresh_rate">>}, Rate)
           b == SetOf({<<"system", "force_peak_refresh_rate">>}, "1")
           c == When(oem = "XiaomiMiuiHyperOs",
                     SetOf({<<"system", "miui_refresh_rate">>}, Rate))
           d == When(oem = "OplusColorRealmeOxygen",
                     SetOf({<<"global", "oneplus_screen_refresh_rate">>}, "2"))
<1>1. {<<"system", "min_refresh_rate">>, <<"system", "peak_refresh_rate">>,
       <<"system", "user_refresh_rate">>} \in SUBSET CapturedKeys
  BY DEF CapturedKeys
<1>2. {<<"system", "force_peak_refresh_rate">>} \in SUBSET CapturedKeys
  BY DEF CapturedKeys
<1>3. {<<"system", "miui_refresh_rate">>} \in SUBSET CapturedKeys
  BY DEF CapturedKeys
<1>4. {<<"global", "oneplus_screen_refresh_rate">>} \in SUBSET CapturedKeys
  BY DEF CapturedKeys
<1>5. \E settings : Sets(a, settings)
  BY <1>1, SetsSetOf
<1>6. \E settings : Sets(b, settings)
  BY <1>2, SetsSetOf
<1>7. \E settings : Sets(c, settings)
  BY <1>3, SetsSetOf, SetsWhen
<1>8. \E settings : Sets(d, settings)
  BY <1>4, SetsSetOf, SetsWhen
<1>9. RateCommands(oem) = a \o b \o c \o d
  BY DEF RateCommands
<1> HIDE DEF a, b, c, d
<1>10. \E settings : Sets(a \o b, settings)
  BY <1>5, <1>6, SetsConcat
<1>11. \E settings : Sets(a \o b \o c, settings)
  BY <1>10, <1>7, SetsConcat
<1>12. \E settings : Sets(a \o b \o c \o d, settings)
  BY <1>11, <1>8, SetsConcat
<1> QED
  BY <1>9, <1>12

LEMMA LatencySettings == \E settings : Sets(LatencyCommands, settings)
<1> DEFINE A == {<<"secure", "long_press_timeout">>,
                 <<"secure", "multi_press_timeout">>}
           B == {<<"secure", "tap_duration_threshold">>,
                 <<"secure", "touch_blocking_period">>}
           C == {<<"system", "pointer_speed">>}
           D == {<<"global", "gpu_latency_mode">>,
                 <<"global", "touch_performance_mode">>,
                 <<"global", "touch_response_high">>,
                 <<"global", "input_latency_reduction">>,
                 <<"global", "disable_window_blurs">>,
                 <<"secure", "accessibility_reduce_transparency">>,
                 <<"global", "wifi_scan_throttle_enabled">>,
                 <<"global", "network_boost">>}
           E == {<<"global", "window_animation_scale">>,
                 <<"global", "transition_animation_scale">>,
                 <<"global", "animator_duration_scale">>,
                 <<"global", "heads_up_notifications_enabled">>,
                 <<"global", "wifi_power_save">>,
                 <<"global", "ram_expand_size">>}
<1>1. A \in SUBSET CapturedKeys /\ B \in SUBSET CapturedKeys
  BY DEF CapturedKeys
<1>2. C \in SUBSET CapturedKeys /\ D \in SUBSET CapturedKeys
  BY DEF CapturedKeys
<1>3. E \in SUBSET CapturedKeys
  BY DEF CapturedKeys
<1>4. LatencyCommands = SetOf(A, "200") \o SetOf(B, "0.0") \o SetOf(C, "7") \o
                        SetOf(D, "1") \o SetOf(E, "0")
  BY DEF LatencyCommands
<1> HIDE DEF A, B, C, D, E
<1> DEFINE a == SetOf(A, "200")
           b == SetOf(B, "0.0")
           c == SetOf(C, "7")
           d == SetOf(D, "1")
           e == SetOf(E, "0")
<1>5. /\ \E settings : Sets(a, settings)
      /\ \E settings : Sets(b, settings)
      /\ \E settings : Sets(c, settings)
      /\ \E settings : Sets(d, settings)
      /\ \E settings : Sets(e, settings)
  BY <1>1, <1>2, <1>3, SetsSetOf
<1> HIDE DEF a, b, c, d, e
<1>6. \E settings : Sets(a \o b, settings)
  BY <1>5, SetsConcat
<1>7. \E settings : Sets(a \o b \o c, settings)
  BY <1>5, <1>6, SetsConcat
<1>8. \E settings : Sets(a \o b \o c \o d, settings)
  BY <1>5, <1>7, SetsConcat
<1>9. \E settings : Sets(a \o b \o c \o d \o e, settings)
  BY <1>5, <1>8, SetsConcat
<1> QED
  BY <1>4, <1>9 DEF a, b, c, d, e

\* What a game switches on in every mode; its end, given the game, switches it
\* off.
OfTheGame(api, target, apps) ==
  {Doze} \cup WhitelistOf(apps) \cup GameThings(api, target)

\* Things of different kinds are different.
LEMMA KindsDiffer ==
  ASSUME NEW api \in Api, NEW target, NEW apps \in SUBSET UserApp
  PROVE  /\ CapturedKeys \cap AppThings = {}
         /\ PowerSaver \notin CapturedKeys \cup AppThings
         /\ OfTheMode(api) \cap (CapturedKeys \cup AppThings \cup {PowerSaver}) = {}
         /\ OfTheGame(api, target, apps) \cap
              (CapturedKeys \cup AppThings \cup {PowerSaver} \cup OfTheMode(api)) = {}
         /\ ForGood \cap
              (CapturedKeys \cup AppThings \cup {PowerSaver} \cup OfTheMode(api) \cup
               OfTheGame(api, target, apps)) = {}
<1>1. \A t \in CapturedKeys : t[1] \in {"system", "secure", "global"}
  BY DEF CapturedKeys
<1>2. \A t \in AppThings : t[1] = "appops"
  BY DEF AppThings, AppOps
<1>3. PowerSaver[1] = "power" /\ PowerSaver[2] = "adaptive saver"
  BY DEF PowerSaver
<1>4. \A t \in OfTheMode(api) :
        \/ t[1] = "thermalservice"
        \/ t[1] = "power" /\ t[2] = "fixed performance"
  <2>1. Thermal[1] = "thermalservice"
    BY DEF Thermal
  <2>2. FixedPerformance[1] = "power" /\ FixedPerformance[2] = "fixed performance"
    BY DEF FixedPerformance
  <2>3. OfTheMode(api) \subseteq {Thermal, FixedPerformance}
    BY DEF OfTheMode
  <2> QED
    BY <2>1, <2>2, <2>3
<1>5. \A t \in OfTheGame(api, target, apps) :
        \/ t[1] \in {"deviceidle", "game mode", "game_overlay"}
        \/ t[1] = "whitelist" /\ t[2] # "com.termux"
  <2>1. Doze[1] = "deviceidle"
    BY DEF Doze
  <2>2. \A t \in WhitelistOf(apps) : t[1] = "whitelist" /\ t[2] # "com.termux"
    BY TargetAssumption DEF WhitelistOf, Whitelisted
  <2>3. \A t \in GameThings(api, target) : t[1] \in {"game mode", "game_overlay"}
    <3>1. GameMode(target)[1] = "game mode" /\ Overlay(target)[1] = "game_overlay"
      BY DEF GameMode, Overlay
    <3>2. GameThings(api, target) \subseteq {GameMode(target), Overlay(target)}
      BY DEF GameThings
    <3> QED
      BY <3>1, <3>2
  <2> QED
    BY <2>1, <2>2, <2>3 DEF OfTheGame
<1>6. \A t \in ForGood :
        t[1] = "setprop" \/ (t[1] = "whitelist" /\ t[2] = "com.termux")
  BY DEF ForGood, DebugProperties, Whitelisted
<1>7. CapturedKeys \cap AppThings = {}
  BY <1>1, <1>2
<1>8. PowerSaver \notin CapturedKeys \cup AppThings
  BY <1>1, <1>2, <1>3
<1>9. OfTheMode(api) \cap (CapturedKeys \cup AppThings \cup {PowerSaver}) = {}
  BY <1>1, <1>2, <1>3, <1>4
<1>10. OfTheGame(api, target, apps) \cap
         (CapturedKeys \cup AppThings \cup {PowerSaver} \cup OfTheMode(api)) = {}
  BY <1>1, <1>2, <1>3, <1>4, <1>5
<1>11. ForGood \cap
         (CapturedKeys \cup AppThings \cup {PowerSaver} \cup OfTheMode(api) \cup
          OfTheGame(api, target, apps)) = {}
  BY <1>1, <1>2, <1>3, <1>4, <1>5, <1>6
<1> QED
  BY <1>7, <1>8, <1>9, <1>10, <1>11

LEMMA ThingsOf ==
  ASSUME NEW api \in Api, NEW target \in GameApp \cup {NoTarget},
         NEW apps \in SUBSET UserApp
  PROVE  /\ AppThings \in SUBSET Thing
         /\ OfTheGame(api, target, apps) \in SUBSET Thing
         /\ OfTheMode(api) \in SUBSET Thing
         /\ ForGood \in SUBSET Thing
         /\ {PowerSaver} \in SUBSET Thing
<1>1. AppThings \in SUBSET Thing
  BY DEF AppThings, Thing
<1>2. OfTheGame(api, target, apps) \in SUBSET Thing
  BY DEF OfTheGame, WhitelistOf, GameThings, Thing
<1>3. OfTheMode(api) \in SUBSET Thing /\ {PowerSaver} \in SUBSET Thing
  BY DEF OfTheMode, Thing
<1>4. ForGood \in SUBSET Thing
  BY DEF ForGood, WhitelistOf, Thing
<1> QED
  BY <1>1, <1>2, <1>3, <1>4

\* A device after the tweaks.
Tweaked(settings, api, target, apps, device) ==
  [t \in Thing |->
     IF t \in AppThings THEN "ignore"
     ELSE IF t \in DOMAIN settings THEN settings[t]
     ELSE IF t = PowerSaver THEN "off"
     ELSE IF t \in ForGood \cup OfTheGame(api, target, apps) \cup OfTheMode(api)
       THEN "on"
     ELSE device[t]]

LEMMA Optimized ==
  ASSUME NEW oem
  PROVE  \E settings :
           /\ DOMAIN settings \subseteq CapturedKeys
           /\ \A api \in Api, target \in GameApp \cup {NoTarget},
                 apps \in SUBSET UserApp :
                \A device : IsDevice(device) =>
                  Run(OptimizeScript(api, oem, target, apps), device) =
                    Tweaked(settings, api, target, apps, device)
<1>1. PICK M : Sets(RateCommands(oem), M)
  BY RateSettings
<1>2. PICK N : Sets(LatencyCommands, N)
  BY LatencySettings
<1> DEFINE settings == [t \in DOMAIN M \cup DOMAIN N |->
                          IF t \in DOMAIN N THEN N[t] ELSE M[t]]
<1>3. DOMAIN settings \subseteq CapturedKeys
  BY <1>1, <1>2 DEF Sets
<1>4. ASSUME NEW api \in Api, NEW target \in GameApp \cup {NoTarget},
             NEW apps \in SUBSET UserApp, NEW device, IsDevice(device)
      PROVE  Run(OptimizeScript(api, oem, target, apps), device) =
               Tweaked(settings, api, target, apps, device)
  <2> DEFINE c1 == {Whitelisted("com.termux")} \cup {Whitelisted(a) : a \in apps}
             c3 == api >= 30
             c6 == target # NoTarget /\ api >= 31
             c7 == target # NoTarget /\ api >= 33
             s1 == SetOf(c1, "on")
             s2 == SetOf({Doze}, "on")
             s3 == When(c3, SetOf({FixedPerformance}, "on"))
             s4 == SetOf({PowerSaver}, "off")
             s5 == SetOf({Thermal}, "on")
             s6 == When(c6, SetOf({GameMode(target)}, "on"))
             s7 == When(c7, SetOf({Overlay(target)}, "on"))
             s8 == SetOf({DebugProperties}, "on")
             s9 == RateCommands(oem)
             s10 == LatencyCommands
             s11 == SetOf(AppThings, "ignore")
             d1 == Put(c1, "on", device)
             d2 == Put({Doze}, "on", d1)
             d3 == IF c3 THEN Put({FixedPerformance}, "on", d2) ELSE d2
             d4 == Put({PowerSaver}, "off", d3)
             d5 == Put({Thermal}, "on", d4)
             d6 == IF c6 THEN Put({GameMode(target)}, "on", d5) ELSE d5
             d7 == IF c7 THEN Put({Overlay(target)}, "on", d6) ELSE d6
             d8 == Put({DebugProperties}, "on", d7)
             d9 == Over(M, d8)
             d10 == Over(N, d9)
             d11 == Put(AppThings, "ignore", d10)
  <2>1. /\ IsDevice(d1) /\ IsDevice(d2) /\ IsDevice(d3) /\ IsDevice(d4)
        /\ IsDevice(d5) /\ IsDevice(d6) /\ IsDevice(d7) /\ IsDevice(d8)
        /\ IsDevice(d9) /\ IsDevice(d10)
    <3>1. IsDevice(d1) /\ IsDevice(d2) /\ IsDevice(d4) /\ IsDevice(d5) /\ IsDevice(d8)
      BY PutDevice
    <3>2. IsDevice(d9) /\ IsDevice(d10)
      BY DEF IsDevice, Over
    <3> HIDE DEF d1, d2, d4, d5
    <3>3. IsDevice(d3) /\ IsDevice(d6)
      BY <3>1, PutDevice
    <3> HIDE DEF d6
    <3>4. IsDevice(d7)
      BY <3>3, PutDevice
    <3> QED
      BY <3>1, <3>2, <3>3, <3>4
  <2>2. c1 \in SUBSET Thing
    BY DEF Thing, WhitelistOf
  <2>3. /\ {Doze} \in SUBSET Thing /\ {FixedPerformance} \in SUBSET Thing
        /\ {PowerSaver} \in SUBSET Thing /\ {Thermal} \in SUBSET Thing
        /\ {DebugProperties} \in SUBSET Thing
    BY DEF Thing
  <2>4. /\ c6 => {GameMode(target)} \in SUBSET Thing
        /\ c7 => {Overlay(target)} \in SUBSET Thing
    BY DEF Thing
  <2>5. c3 \in BOOLEAN /\ c6 \in BOOLEAN /\ c7 \in BOOLEAN
    BY DEF Api
  <2>6. OptimizeScript(api, oem, target, apps) =
          s1 \o s2 \o s3 \o s4 \o s5 \o s6 \o s7 \o s8 \o s9 \o s10 \o s11
    BY DEF OptimizeScript, AppThings
  <2> HIDE DEF c1, c3, c6, c7
  <2>7. IsScript(s1) /\ Run(s1, device) = d1
    BY <1>4, <2>2, RunSetOf
  <2>8. IsScript(s2) /\ Run(s2, d1) = d2
    BY <2>1, <2>3, RunSetOf
  <2>9. IsScript(s3) /\ Run(s3, d2) = d3
    BY <2>1, <2>3, <2>5, RunSetOf, RunWhen
  <2>10. IsScript(s4) /\ Run(s4, d3) = d4
    BY <2>1, <2>3, RunSetOf
  <2>11. IsScript(s5) /\ Run(s5, d4) = d5
    BY <2>1, <2>3, RunSetOf
  <2>12. IsScript(s6) /\ Run(s6, d5) = d6
    BY <2>1, <2>4, <2>5, RunSetOf, RunWhen
  <2>13. IsScript(s7) /\ Run(s7, d6) = d7
    BY <2>1, <2>4, <2>5, RunSetOf, RunWhen
  <2>14. IsScript(s8) /\ Run(s8, d7) = d8
    BY <2>1, <2>3, RunSetOf
  <2>15. IsScript(s9) /\ Run(s9, d8) = d9
    BY <1>1, <2>1 DEF Sets
  <2>16. IsScript(s10) /\ Run(s10, d9) = d10
    BY <1>2, <2>1 DEF Sets
  <2>17. IsScript(s11) /\ Run(s11, d10) = d11
    BY <2>1, ThingsOf, RunSetOf
  <2>18. Run(s1 \o s2 \o s3 \o s4 \o s5 \o s6 \o s7 \o s8 \o s9 \o s10 \o s11,
             device) = d11
    <3> HIDE DEF s1, s2, s3, s4, s5, s6, s7, s8, s9, s10, s11,
                 d1, d2, d3, d4, d5, d6, d7, d8, d9, d10, d11
    <3>1. IsScript(s1 \o s2) /\ Run(s1 \o s2, device) = d2
      BY <2>7, <2>8, RunConcat
    <3> DEFINE t2 == s1 \o s2
               t3 == t2 \o s3
               t4 == t3 \o s4
               t5 == t4 \o s5
               t6 == t5 \o s6
               t7 == t6 \o s7
               t8 == t7 \o s8
               t9 == t8 \o s9
               t10 == t9 \o s10
               t11 == t10 \o s11
    <3> HIDE DEF t2
    <3>2. IsScript(t3) /\ Run(t3, device) = d3
      BY <3>1, <2>9, RunConcat DEF t2
    <3> HIDE DEF t3
    <3>3. IsScript(t4) /\ Run(t4, device) = d4
      BY <3>2, <2>10, RunConcat
    <3> HIDE DEF t4
    <3>4. IsScript(t5) /\ Run(t5, device) = d5
      BY <3>3, <2>11, RunConcat
    <3> HIDE DEF t5
    <3>5. IsScript(t6) /\ Run(t6, device) = d6
      BY <3>4, <2>12, RunConcat
    <3> HIDE DEF t6
    <3>6. IsScript(t7) /\ Run(t7, device) = d7
      BY <3>5, <2>13, RunConcat
    <3> HIDE DEF t7
    <3>7. IsScript(t8) /\ Run(t8, device) = d8
      BY <3>6, <2>14, RunConcat
    <3> HIDE DEF t8
    <3>8. IsScript(t9) /\ Run(t9, device) = d9
      BY <3>7, <2>15, RunConcat
    <3> HIDE DEF t9
    <3>9. IsScript(t10) /\ Run(t10, device) = d10
      BY <3>8, <2>16, RunConcat
    <3> HIDE DEF t10
    <3>10. Run(t11, device) = d11
      BY <3>9, <2>17, RunConcat
    <3> QED
      BY <3>10 DEF t11, t10, t9, t8, t7, t6, t5, t4, t3, t2
  <2>19. d11 = Tweaked(settings, api, target, apps, device)
    <3> DEFINE r == Tweaked(settings, api, target, apps, device)
    <3>1. ASSUME NEW t \in Thing
          PROVE  d8[t] = IF t = PowerSaver THEN "off"
                         ELSE IF t \in ForGood \cup OfTheGame(api, target, apps)
                                       \cup OfTheMode(api) THEN "on"
                         ELSE device[t]
      <4>1. PowerSaver \notin ForGood \cup OfTheGame(api, target, apps)
                                       \cup OfTheMode(api)
        BY KindsDiffer
      <4>2. PowerSaver # Doze /\ PowerSaver # Thermal /\ PowerSaver # DebugProperties
        BY <4>1 DEF ForGood, OfTheGame, OfTheMode
      <4> QED
        BY <4>1, <4>2 DEF c1, c3, c6, c7, Put, ForGood, OfTheGame, OfTheMode,
           WhitelistOf, GameThings
    <3>2. ASSUME NEW t \in Thing PROVE d11[t] = r[t]
      <4>1. t \in DOMAIN M \cup DOMAIN N => t \in CapturedKeys
        BY <1>1, <1>2 DEF Sets
      <4>2. t \in CapturedKeys => t # PowerSaver /\ t \notin AppThings
        BY KindsDiffer
      <4>3. d11[t] = IF t \in AppThings THEN "ignore"
                     ELSE IF t \in DOMAIN N THEN N[t]
                     ELSE IF t \in DOMAIN M THEN M[t] ELSE d8[t]
        <5> HIDE DEF d8
        <5> QED
          BY DEF Put, Over
      <4> HIDE DEF d8, d11
      <4> QED
        BY <3>1, <4>1, <4>2, <4>3 DEF Tweaked
    <3>3. d11 = [t \in Thing |-> d11[t]] /\ r = [t \in Thing |-> r[t]]
      <4> HIDE DEF d10, settings
      <4> QED
        BY DEF Put, Tweaked
    <3> HIDE DEF d11, r
    <3>4. d11 = r
      BY <3>2, <3>3
    <3> QED
      BY <3>4 DEF r
  <2> QED
    BY <2>6, <2>18, <2>19
<1> HIDE DEF settings
<1> QED
  BY <1>3, <1>4

\* A device after the commands that every mode ends a game with, and after
\* those that end the mode too.
GameLeft(api, target, apps, device) ==
  Put(OfTheGame(api, target, apps), "off", device)
ModeLeft(api, snapshot, device) ==
  [t \in Thing |->
     IF t \in CapturedKeys THEN snapshot[t]
     ELSE IF t \in AppThings THEN "allow"
     ELSE IF t = PowerSaver THEN "on"
     ELSE IF t \in OfTheMode(api) THEN "off"
     ELSE device[t]]

\* The commands that end the mode.
LEMMA ModeRestored ==
  ASSUME NEW api \in Api, NEW snapshot, DOMAIN snapshot = CapturedKeys,
         NEW device, IsDevice(device)
  PROVE  LET script == SetOf({Thermal}, "off") \o SetOf({PowerSaver}, "on") \o
                       When(api >= 30, SetOf({FixedPerformance}, "off")) \o
                       SetOf({AppOps(p) : p \in ThrottlePackages}, "allow") \o
                       <<snapshot>>
         IN  /\ IsScript(script)
             /\ Run(script, device) = ModeLeft(api, snapshot, device)
<1> DEFINE c3 == api >= 30
           s1 == SetOf({Thermal}, "off")
           s2 == SetOf({PowerSaver}, "on")
           s3 == When(c3, SetOf({FixedPerformance}, "off"))
           s4 == SetOf(AppThings, "allow")
           s5 == <<snapshot>>
           d1 == Put({Thermal}, "off", device)
           d2 == Put({PowerSaver}, "on", d1)
           d3 == IF c3 THEN Put({FixedPerformance}, "off", d2) ELSE d2
           d4 == Put(AppThings, "allow", d3)
           d5 == Over(snapshot, d4)
<1>1. IsDevice(d1) /\ IsDevice(d2) /\ IsDevice(d3) /\ IsDevice(d4)
  <2>1. IsDevice(d1) /\ IsDevice(d2) /\ IsDevice(d4)
    BY PutDevice
  <2> HIDE DEF d2
  <2> QED
    BY <2>1, PutDevice
<1>2. /\ {Thermal} \in SUBSET Thing /\ {PowerSaver} \in SUBSET Thing
      /\ {FixedPerformance} \in SUBSET Thing /\ AppThings \in SUBSET Thing
  BY ThingsOf DEF Thing, AppThings
<1>3. c3 \in BOOLEAN
  BY DEF Api
<1>4. {AppOps(p) : p \in ThrottlePackages} = AppThings
  BY DEF AppThings
<1> HIDE DEF c3
<1>5. IsScript(s1) /\ Run(s1, device) = d1
  BY <1>2, RunSetOf
<1>6. IsScript(s2) /\ Run(s2, d1) = d2
  BY <1>1, <1>2, RunSetOf
<1>7. IsScript(s3) /\ Run(s3, d2) = d3
  BY <1>1, <1>2, <1>3, RunSetOf, RunWhen
<1>8. IsScript(s4) /\ Run(s4, d3) = d4
  BY <1>1, <1>2, RunSetOf
<1>9. IsScript(s5) /\ Run(s5, d4) = d5
  <2>1. Set(snapshot, d4) = d5
    <3>1. CapturedKeys \subseteq Thing
      BY DEF Thing
    <3> HIDE DEF d4
    <3> QED
      BY <1>1, <3>1 DEF Set, Over, IsDevice
  <2> QED
    BY <2>1, RunShort
<1>10. IsScript(s1 \o s2 \o s3 \o s4 \o s5)
       /\ Run(s1 \o s2 \o s3 \o s4 \o s5, device) = d5
  <2> HIDE DEF s1, s2, s3, s4, s5, d1, d2, d3, d4, d5
  <2> DEFINE t2 == s1 \o s2
             t3 == t2 \o s3
             t4 == t3 \o s4
             t5 == t4 \o s5
  <2>1. IsScript(t2) /\ Run(t2, device) = d2
    BY <1>5, <1>6, RunConcat
  <2> HIDE DEF t2
  <2>2. IsScript(t3) /\ Run(t3, device) = d3
    BY <2>1, <1>7, RunConcat
  <2> HIDE DEF t3
  <2>3. IsScript(t4) /\ Run(t4, device) = d4
    BY <2>2, <1>8, RunConcat
  <2> HIDE DEF t4
  <2>4. IsScript(t5) /\ Run(t5, device) = d5
    BY <2>3, <1>9, RunConcat
  <2> QED
    BY <2>4 DEF t5, t4, t3, t2
<1>11. d5 = ModeLeft(api, snapshot, device)
  <2> DEFINE r == ModeLeft(api, snapshot, device)
  <2>1. ASSUME NEW t \in Thing
        PROVE  d3[t] = IF t = PowerSaver THEN "on"
                       ELSE IF t \in OfTheMode(api) THEN "off"
                       ELSE device[t]
    <3>1. PowerSaver \notin OfTheMode(api)
      BY KindsDiffer
    <3> QED
      BY <3>1 DEF c3, Put, OfTheMode
  <2>2. ASSUME NEW t \in Thing PROVE d5[t] = r[t]
    <3> HIDE DEF d3
    <3>1. d5[t] = IF t \in CapturedKeys THEN snapshot[t]
                  ELSE IF t \in AppThings THEN "allow" ELSE d3[t]
      BY DEF Put, Over
    <3> HIDE DEF d5
    <3> QED
      BY <2>1, <3>1 DEF ModeLeft
  <2>3. d5 = [t \in Thing |-> d5[t]] /\ r = [t \in Thing |-> r[t]]
    <3> HIDE DEF d4
    <3> QED
      BY DEF Over, ModeLeft
  <2> HIDE DEF d5, r
  <2>4. d5 = r
    BY <2>2, <2>3
  <2> QED
    BY <2>4 DEF r
<1> QED
  BY <1>4, <1>10, <1>11 DEF c3

LEMMA Restored ==
  ASSUME NEW api \in Api, NEW mode, NEW target \in GameApp \cup {NoTarget},
         NEW snapshot, DOMAIN snapshot = CapturedKeys,
         NEW apps \in SUBSET UserApp, NEW full \in BOOLEAN,
         NEW device, IsDevice(device)
  PROVE  Run(RestoreScript(api, mode, target, snapshot, apps, full), device) =
           LET left == GameLeft(api, target, apps, device)
           IN  IF mode # "Performance" \/ full THEN ModeLeft(api, snapshot, left)
               ELSE left
<1> DEFINE c2 == WhitelistOf(apps)
           c3 == target # NoTarget /\ api >= 31
           c4 == target # NoTarget /\ api >= 33
           c5 == mode # "Performance" \/ full
           s1 == SetOf({Doze}, "off")
           s2 == SetOf(c2, "off")
           s3 == When(c3, SetOf({GameMode(target)}, "off"))
           s4 == When(c4, SetOf({Overlay(target)}, "off"))
           end == SetOf({Thermal}, "off") \o SetOf({PowerSaver}, "on") \o
                  When(api >= 30, SetOf({FixedPerformance}, "off")) \o
                  SetOf({AppOps(p) : p \in ThrottlePackages}, "allow") \o
                  <<snapshot>>
           s5 == When(c5, end)
           d1 == Put({Doze}, "off", device)
           d2 == Put(c2, "off", d1)
           d3 == IF c3 THEN Put({GameMode(target)}, "off", d2) ELSE d2
           d4 == IF c4 THEN Put({Overlay(target)}, "off", d3) ELSE d3
           d5 == IF c5 THEN ModeLeft(api, snapshot, d4) ELSE d4
<1>1. IsDevice(d1) /\ IsDevice(d2) /\ IsDevice(d3) /\ IsDevice(d4)
  <2>1. IsDevice(d1) /\ IsDevice(d2)
    BY PutDevice
  <2> HIDE DEF d2
  <2>2. IsDevice(d3)
    BY <2>1, PutDevice
  <2> HIDE DEF d3
  <2> QED
    BY <2>1, <2>2, PutDevice
<1>2. /\ {Doze} \in SUBSET Thing /\ c2 \in SUBSET Thing
      /\ c3 => {GameMode(target)} \in SUBSET Thing
      /\ c4 => {Overlay(target)} \in SUBSET Thing
  BY DEF Thing, WhitelistOf
<1>3. c3 \in BOOLEAN /\ c4 \in BOOLEAN /\ c5 \in BOOLEAN
  BY DEF Api
<1>4. RestoreScript(api, mode, target, snapshot, apps, full) =
        s1 \o s2 \o (s3 \o s4) \o s5
  <2>1. snapshot # NoSnapshot
    <3>1. <<"system", "pointer_speed">> \in DOMAIN snapshot
      BY DEF CapturedKeys
    <3> QED
      BY <3>1 DEF NoSnapshot
  <2> QED
    BY <2>1 DEF RestoreScript, ResetTarget, WhitelistOf
<1>5. IsScript(end) /\ Run(end, d4) = ModeLeft(api, snapshot, d4)
  <2> HIDE DEF d4
  <2> QED
    BY <1>1, ModeRestored
<1> HIDE DEF c2, c3, c4, c5, end
<1>6. IsScript(s1) /\ Run(s1, device) = d1
  BY <1>2, RunSetOf
<1>7. IsScript(s2) /\ Run(s2, d1) = d2
  BY <1>1, <1>2, RunSetOf
<1>8. IsScript(s3) /\ Run(s3, d2) = d3
  BY <1>1, <1>2, <1>3, RunSetOf, RunWhen
<1>9. IsScript(s4) /\ Run(s4, d3) = d4
  BY <1>1, <1>2, <1>3, RunSetOf, RunWhen
<1>10. IsScript(s5) /\ Run(s5, d4) = d5
  <2> HIDE DEF d4
  <2> QED
    BY <1>3, <1>5, RunWhen
<1>11. Run(s1 \o s2 \o (s3 \o s4) \o s5, device) = d5
  <2> HIDE DEF s1, s2, s3, s4, s5, d1, d2, d3, d4, d5
  <2> DEFINE t2 == s1 \o s2
             t3 == s3 \o s4
             t4 == t2 \o t3
             t5 == t4 \o s5
  <2>1. IsScript(t2) /\ Run(t2, device) = d2
    BY <1>6, <1>7, RunConcat
  <2>2. IsScript(t3) /\ Run(t3, d2) = d4
    BY <1>8, <1>9, RunConcat
  <2> HIDE DEF t2, t3
  <2>3. IsScript(t4) /\ Run(t4, device) = d4
    BY <2>1, <2>2, RunConcat
  <2> HIDE DEF t4
  <2>4. IsScript(t5) /\ Run(t5, device) = d5
    BY <2>3, <1>10, RunConcat
  <2> QED
    BY <2>4 DEF t5, t4, t3, t2
<1>12. d4 = GameLeft(api, target, apps, device)
  <2> DEFINE r == GameLeft(api, target, apps, device)
  <2>1. ASSUME NEW t \in Thing PROVE d4[t] = r[t]
    BY DEF c2, c3, c4, Put, GameLeft, OfTheGame, GameThings
  <2>2. r = [t \in Thing |-> r[t]]
    BY DEF GameLeft, Put
  <2> HIDE DEF d4, r
  <2>3. d4 = r
    BY <1>1, <2>1, <2>2 DEF IsDevice
  <2> QED
    BY <2>3 DEF r
<1> QED
  BY <1>4, <1>11, <1>12 DEF c5

\* The same for the two ways a game ends.
LEMMA RestoredByMode ==
  ASSUME NEW api \in Api, NEW target \in GameApp \cup {NoTarget},
         NEW snapshot, DOMAIN snapshot = CapturedKeys, NEW apps \in SUBSET UserApp
  PROVE  \A device :
           IsDevice(device) =>
             LET gone == GameLeft(api, target, apps, device)
             IN  /\ Run(RestoreScript(api, "Adaptive", target, snapshot, apps,
                                      FALSE), device) =
                      ModeLeft(api, snapshot, gone)
                 /\ Run(RestoreScript(api, "Performance", target, snapshot, apps,
                                      FALSE), device) = gone
                 /\ Run(RestoreScript(api, "Performance", target, snapshot, apps,
                                      TRUE), device) =
                      ModeLeft(api, snapshot, gone)
<1> SUFFICES ASSUME NEW device, IsDevice(device)
             PROVE  LET gone == GameLeft(api, target, apps, device)
                    IN  /\ Run(RestoreScript(api, "Adaptive", target, snapshot,
                                             apps, FALSE), device) =
                             ModeLeft(api, snapshot, gone)
                        /\ Run(RestoreScript(api, "Performance", target, snapshot,
                                             apps, FALSE), device) = gone
                        /\ Run(RestoreScript(api, "Performance", target, snapshot,
                                             apps, TRUE), device) =
                             ModeLeft(api, snapshot, gone)
  OBVIOUS
<1> DEFINE gone == GameLeft(api, target, apps, device)
<1>1. \A mode, full :
        full \in BOOLEAN =>
          Run(RestoreScript(api, mode, target, snapshot, apps, full), device) =
            IF mode # "Performance" \/ full THEN ModeLeft(api, snapshot, gone)
            ELSE gone
  BY Restored
<1> HIDE DEF gone
<1>2. Run(RestoreScript(api, "Adaptive", target, snapshot, apps, FALSE), device) =
        ModeLeft(api, snapshot, gone)
  BY <1>1, "Adaptive" # "Performance"
<1>3. Run(RestoreScript(api, "Performance", target, snapshot, apps, FALSE),
          device) = gone
  BY <1>1
<1>4. Run(RestoreScript(api, "Performance", target, snapshot, apps, TRUE),
          device) = ModeLeft(api, snapshot, gone)
  BY <1>1
<1> QED
  BY <1>2, <1>3, <1>4 DEF gone

\* ... and as the daemon calls for them, without the game: between two games of
\* Performance mode, and at the end.
LEMMA RestoredMeanwhile ==
  ASSUME NEW api \in Api, NEW snapshot, DOMAIN snapshot = CapturedKeys,
         NEW apps \in SUBSET UserApp
  PROVE  \A device :
           IsDevice(device) =>
             Run(RestoreScript(api, "Performance", NoTarget, snapshot, apps, FALSE),
                 device) =
               GameLeft(api, NoTarget, apps, device)
<1> SUFFICES ASSUME NEW device, IsDevice(device)
             PROVE  Run(RestoreScript(api, "Performance", NoTarget, snapshot,
                                      apps, FALSE), device) =
                      GameLeft(api, NoTarget, apps, device)
  OBVIOUS
<1> DEFINE gone == GameLeft(api, NoTarget, apps, device)
<1>1. NoTarget \in GameApp \cup {NoTarget}
  OBVIOUS
<1>2. \A mode, full :
        full \in BOOLEAN =>
          Run(RestoreScript(api, mode, NoTarget, snapshot, apps, full), device) =
            IF mode # "Performance" \/ full THEN ModeLeft(api, snapshot, gone)
            ELSE gone
  BY <1>1, Restored
<1> HIDE DEF gone
<1>3. Run(RestoreScript(api, "Performance", NoTarget, snapshot, apps, FALSE),
          device) = gone
  BY <1>2
<1> QED
  BY <1>3 DEF gone

LEMMA RestoredAtTheEnd ==
  ASSUME NEW api \in Api, NEW snapshot, DOMAIN snapshot = CapturedKeys
  PROVE  \A device :
           IsDevice(device) =>
             Run(RestoreScript(api, "Performance", NoTarget, snapshot, {}, TRUE),
                 device) =
               ModeLeft(api, snapshot, GameLeft(api, NoTarget, {}, device))
<1>1. NoTarget \in GameApp \cup {NoTarget} /\ {} \in SUBSET UserApp
  OBVIOUS
<1>2. \A target \in GameApp \cup {NoTarget}, apps \in SUBSET UserApp :
        \A device : IsDevice(device) =>
          Run(RestoreScript(api, "Performance", target, snapshot, apps, TRUE),
              device) =
            ModeLeft(api, snapshot, GameLeft(api, target, apps, device))
  BY RestoredByMode
<1> QED
  BY <1>1, <1>2

\* The device before the daemon, and its snapshot.
LEMMA BeforeTheDaemon ==
  /\ IsDevice(UserDevice)
  /\ DOMAIN Snapshot(UserDevice) = CapturedKeys
  /\ \A k \in CapturedKeys : Snapshot(UserDevice)[k] = UserDevice[k]
<1>1. IsDevice(UserDevice)
  BY DEF IsDevice, UserDevice
<1>2. DOMAIN Snapshot(UserDevice) = CapturedKeys
  BY DEF Snapshot
<1>3. ASSUME NEW k \in CapturedKeys
      PROVE  Snapshot(UserDevice)[k] = UserDevice[k]
  <2>1. UserDevice[k] \in {"user", "unset"}
    BY DEF Thing, UserDevice, Usual, Unset
  <2>2. Snapshot(UserDevice)[k] = ParseValue(Printed(UserDevice[k]))
    BY DEF Snapshot
  <2> QED
    BY <2>1, <2>2 DEF ParseValue, Printed, Unset
<1> QED
  BY <1>1, <1>2, <1>3

\* The things of a game, and what each kind of thing usually is.
LEMMA GameApart ==
  ASSUME NEW api \in Api, NEW game, NEW apps \in SUBSET UserApp
  PROVE  LET things == GameThings(api, game)
             beside == {Doze} \cup WhitelistOf(apps)
             mode == OfTheMode(api)
         IN  /\ OfTheGame(api, game, apps) = beside \cup things
             /\ OfTheGame(api, NoTarget, apps) = beside
             /\ Blind(api, apps) =
                  beside \cup {PowerSaver} \cup AppThings \cup mode
             /\ (ForGood \cup things) \cap (CapturedKeys \cup AppThings \cup
                  {PowerSaver} \cup mode \cup beside) = {}
             /\ ForGood \cap things = {} /\ PowerSaver \notin AppThings
             /\ (beside \cup mode \cup AppThings \cup {PowerSaver}) \cap
                  CapturedKeys = {}
             /\ (beside \cup mode) \cap (AppThings \cup {PowerSaver}) = {}
             /\ beside \cap mode = {}
             /\ \A t \in beside \cup mode : Usual(t) = "off"
             /\ \A t \in AppThings : Usual(t) = "allow"
             /\ Usual(PowerSaver) = "on"
<1> DEFINE things == GameThings(api, game)
           beside == {Doze} \cup WhitelistOf(apps)
           mode == OfTheMode(api)
<1>1. /\ OfTheGame(api, game, apps) = beside \cup things
      /\ OfTheGame(api, NoTarget, apps) = beside
  BY DEF OfTheGame, GameThings
<1>2. Blind(api, apps) = beside \cup {PowerSaver} \cup AppThings \cup mode
  BY DEF Blind
<1>3. things \cap beside = {}
  <2>1. \A t \in things : t[1] \in {"game mode", "game_overlay"}
    <3>1. GameMode(game)[1] = "game mode" /\ Overlay(game)[1] = "game_overlay"
      BY DEF GameMode, Overlay
    <3>2. things \subseteq {GameMode(game), Overlay(game)}
      BY DEF GameThings
    <3> QED
      BY <3>1, <3>2
  <2>2. \A t \in beside : t[1] \in {"deviceidle", "whitelist"}
    BY DEF Doze, WhitelistOf, Whitelisted
  <2> QED
    BY <2>1, <2>2
<1>4. /\ mode \cap (CapturedKeys \cup AppThings \cup {PowerSaver}) = {}
      /\ (beside \cup things) \cap
           (CapturedKeys \cup AppThings \cup {PowerSaver} \cup mode) = {}
      /\ ForGood \cap (CapturedKeys \cup AppThings \cup {PowerSaver} \cup mode
                       \cup (beside \cup things)) = {}
      /\ CapturedKeys \cap AppThings = {}
      /\ PowerSaver \notin CapturedKeys \cup AppThings
  BY <1>1, KindsDiffer
<1> HIDE DEF things, beside, mode
<1>5. /\ \A t \in beside \cup mode : Usual(t) = "off"
      /\ \A t \in AppThings : Usual(t) = "allow"
      /\ Usual(PowerSaver) = "on"
  BY <1>4 DEF Usual
<1> QED
  BY <1>1, <1>2, <1>3, <1>4, <1>5 DEF things, beside, mode

\* On every maker's device, whatever the user has chosen and whatever apps are
\* beside the game, leaving a game in Adaptive mode gives back every captured
\* setting, resets what is not captured, and leaves the game's own mode.
THEOREM AdaptiveUndone == Spec => []GameUndone
<1>1. GameUndone
  <2> SUFFICES ASSUME NEW api \in Api, NEW oem \in Oem, NEW game \in GameApp,
                      NEW apps \in SUBSET UserApp
               PROVE  Left(api, oem, game, apps) = AfterGame(api, game, apps)
    BY DEF GameUndone
  <2>1. PICK settings :
          /\ DOMAIN settings \subseteq CapturedKeys
          /\ Run(OptimizeScript(api, oem, game, apps), UserDevice) =
               Tweaked(settings, api, game, apps, UserDevice)
    BY Optimized, BeforeTheDaemon
  <2> DEFINE tweaked == Tweaked(settings, api, game, apps, UserDevice)
             gone == GameLeft(api, NoTarget, apps, tweaked)
             left == ModeLeft(api, Snapshot(UserDevice), gone)
             after == AfterGame(api, game, apps)
  <2>2. IsDevice(tweaked)
    BY DEF IsDevice, Tweaked
  <2>3. Run(RestoreScript(api, "Adaptive", NoTarget, Snapshot(UserDevice), apps,
                          FALSE), tweaked) = left
    <3> HIDE DEF tweaked
    <3>1. PICK snapshot : snapshot = Snapshot(UserDevice)
      OBVIOUS
    <3>2. DOMAIN snapshot = CapturedKeys /\ NoTarget \in GameApp \cup {NoTarget}
      BY <3>1, BeforeTheDaemon
    <3> QED
      BY <2>2, <3>1, <3>2, RestoredByMode
  <2>4. ASSUME NEW t \in Thing PROVE left[t] = after[t]
    <3> DEFINE beside == {Doze} \cup WhitelistOf(apps)
               things == GameThings(api, game)
               mode == OfTheMode(api)
    <3>1. /\ OfTheGame(api, game, apps) = beside \cup things
          /\ OfTheGame(api, NoTarget, apps) = beside
          /\ Blind(api, apps) = beside \cup {PowerSaver} \cup AppThings \cup mode
          /\ (ForGood \cup things) \cap (CapturedKeys \cup AppThings \cup
               {PowerSaver} \cup mode \cup beside) = {}
          /\ (beside \cup mode \cup AppThings \cup {PowerSaver}) \cap
               CapturedKeys = {}
          /\ (beside \cup mode) \cap (AppThings \cup {PowerSaver}) = {}
          /\ PowerSaver \notin AppThings
          /\ \A u \in beside \cup mode : Usual(u) = "off"
          /\ \A u \in AppThings : Usual(u) = "allow"
          /\ Usual(PowerSaver) = "on"
      BY GameApart
    <3> HIDE DEF beside, things, mode
    <3>2. tweaked[t] = IF t \in AppThings THEN "ignore"
                       ELSE IF t \in DOMAIN settings THEN settings[t]
                       ELSE IF t = PowerSaver THEN "off"
                       ELSE IF t \in ForGood \cup (beside \cup things) \cup mode
                         THEN "on"
                       ELSE UserDevice[t]
      BY <3>1 DEF Tweaked, mode
    <3>3. gone[t] = IF t \in beside THEN "off" ELSE tweaked[t]
      <4> HIDE DEF tweaked
      <4> QED
        BY <3>1 DEF GameLeft, Put
    <3>4. left[t] = IF t \in CapturedKeys THEN UserDevice[t]
                    ELSE IF t \in AppThings THEN "allow"
                    ELSE IF t = PowerSaver THEN "on"
                    ELSE IF t \in mode THEN "off"
                    ELSE gone[t]
      <4> HIDE DEF gone
      <4> QED
        BY BeforeTheDaemon DEF ModeLeft, mode
    <3>5. after[t] = IF t \in ForGood \cup things THEN "on"
                     ELSE IF t \in beside \cup {PowerSaver} \cup AppThings \cup mode
                       THEN Usual(t)
                     ELSE UserDevice[t]
      BY <3>1 DEF AfterGame, things
    <3> HIDE DEF tweaked, gone, left, after
    <3> QED
      BY <2>1, <3>1, <3>2, <3>3, <3>4, <3>5
  <2>5. left = [t \in Thing |-> left[t]]
    <3> HIDE DEF gone
    <3> QED
      BY DEF ModeLeft
  <2>6. after = [t \in Thing |-> after[t]]
    BY DEF AfterGame
  <2>7. left = after
    <3> HIDE DEF left, after
    <3> QED
      BY <2>4, <2>5, <2>6
  <2> QED
    BY <2>1, <2>3, <2>7 DEF Left
<1> QED
  BY <1>1, PTL

\* In Performance mode a game's end gives back the whitelist and doze, however
\* the mode was started, and the shutdown leaves what Adaptive mode would.
THEOREM ShutdownUndone == Spec => []PerformanceUndone
<1>1. PerformanceUndone
  <2> SUFFICES ASSUME NEW api \in Api, NEW oem \in Oem, NEW game \in GameApp,
                      NEW first \in SUBSET UserApp, NEW apps \in SUBSET UserApp
               PROVE  LET snapshot == Snapshot(UserDevice)
                          started == Run(OptimizeScript(api, oem, NoTarget, first),
                                         UserDevice)
                          idle == Run(RestoreScript(api, "Performance", NoTarget,
                                                    snapshot, first, FALSE),
                                      started)
                          tweaked == Run(OptimizeScript(api, oem, game, apps),
                                         idle)
                          left == Run(RestoreScript(api, "Performance", NoTarget,
                                                    snapshot, apps, FALSE),
                                      tweaked)
                          stopped == Run(RestoreScript(api, "Performance",
                                                       NoTarget, snapshot, {},
                                                       TRUE), left)
                      IN  /\ left = [t \in Thing |->
                                     IF t \in GameThings(api, game) THEN "on"
                                     ELSE IF t \in WhitelistOf(apps) THEN "off"
                                     ELSE idle[t]]
                          /\ stopped = AfterGame(api, game, first \cup apps)
    BY DEF PerformanceUndone
  <2>1. PICK settings :
          /\ DOMAIN settings \subseteq CapturedKeys
          /\ \A a \in Api, target \in GameApp \cup {NoTarget},
                beside \in SUBSET UserApp :
               \A device : IsDevice(device) =>
                 Run(OptimizeScript(a, oem, target, beside), device) =
                   Tweaked(settings, a, target, beside, device)
    BY Optimized
  <2> DEFINE started == Tweaked(settings, api, NoTarget, first, UserDevice)
             idle == GameLeft(api, NoTarget, first, started)
             tweaked == Tweaked(settings, api, game, apps, idle)
             left == GameLeft(api, NoTarget, apps, tweaked)
             over == GameLeft(api, NoTarget, {}, left)
             stopped == ModeLeft(api, Snapshot(UserDevice), over)
             ended == [t \in Thing |-> IF t \in GameThings(api, game) THEN "on"
                                      ELSE IF t \in WhitelistOf(apps) THEN "off"
                                      ELSE idle[t]]
             after == AfterGame(api, game, first \cup apps)
  <2>2. /\ IsDevice(started) /\ IsDevice(idle) /\ IsDevice(tweaked)
        /\ IsDevice(left) /\ IsDevice(over)
    <3>1. IsDevice(started)
      BY DEF IsDevice, Tweaked
    <3> HIDE DEF started
    <3>2. IsDevice(idle)
      BY PutDevice DEF GameLeft
    <3> HIDE DEF idle
    <3>3. IsDevice(tweaked)
      BY DEF IsDevice, Tweaked
    <3> HIDE DEF tweaked
    <3>4. IsDevice(left)
      BY PutDevice DEF GameLeft
    <3> HIDE DEF left
    <3>5. IsDevice(over)
      BY PutDevice DEF GameLeft
    <3> QED
      BY <3>1, <3>2, <3>3, <3>4, <3>5
  <2>3. Run(OptimizeScript(api, oem, NoTarget, first), UserDevice) = started
    BY <2>1, BeforeTheDaemon
  <2>4. \A beside \in SUBSET UserApp : \A device : IsDevice(device) =>
          Run(RestoreScript(api, "Performance", NoTarget, Snapshot(UserDevice),
                            beside, FALSE), device) =
            GameLeft(api, NoTarget, beside, device)
    <3>1. PICK snapshot : snapshot = Snapshot(UserDevice)
      OBVIOUS
    <3>2. DOMAIN snapshot = CapturedKeys /\ NoTarget \in GameApp \cup {NoTarget}
      BY <3>1, BeforeTheDaemon
    <3>3. ASSUME NEW beside \in SUBSET UserApp, NEW device, IsDevice(device)
          PROVE  Run(RestoreScript(api, "Performance", NoTarget, snapshot,
                                   beside, FALSE), device) =
                   GameLeft(api, NoTarget, beside, device)
      BY <3>2, <3>3, RestoredMeanwhile
    <3> QED
      BY <3>1, <3>3
  <2>5. Run(RestoreScript(api, "Performance", NoTarget, Snapshot(UserDevice),
                          first, FALSE), started) = idle
    <3> HIDE DEF started
    <3> QED
      BY <2>2, <2>4
  <2>6. Run(OptimizeScript(api, oem, game, apps), idle) = tweaked
    <3> HIDE DEF idle
    <3> QED
      BY <2>1, <2>2
  <2>7. Run(RestoreScript(api, "Performance", NoTarget, Snapshot(UserDevice),
                          apps, FALSE), tweaked) = left
    <3> HIDE DEF tweaked
    <3> QED
      BY <2>2, <2>4
  <2>8. Run(RestoreScript(api, "Performance", NoTarget, Snapshot(UserDevice), {},
                          TRUE), left) = stopped
    <3> HIDE DEF left
    <3>1. PICK snapshot : snapshot = Snapshot(UserDevice)
      OBVIOUS
    <3>2. DOMAIN snapshot = CapturedKeys
      BY <3>1, BeforeTheDaemon
    <3> QED
      BY <2>2, <3>1, <3>2, RestoredAtTheEnd
  <2> DEFINE all == {Doze} \cup WhitelistOf(first \cup apps)
             things == GameThings(api, game)
             mode == OfTheMode(api)
             one == WhitelistOf(first)
             two == WhitelistOf(apps)
  <2>9. /\ OfTheGame(api, NoTarget, first) = {Doze} \cup one
        /\ OfTheGame(api, NoTarget, apps) = {Doze} \cup two
        /\ OfTheGame(api, NoTarget, {}) = {Doze}
        /\ OfTheGame(api, game, apps) = {Doze} \cup two \cup things
        /\ all = {Doze} \cup one \cup two
    BY DEF OfTheGame, GameThings, WhitelistOf
  <2>10. /\ Blind(api, first \cup apps) =
              all \cup {PowerSaver} \cup AppThings \cup mode
         /\ (ForGood \cup things) \cap (CapturedKeys \cup AppThings \cup
              {PowerSaver} \cup mode \cup all) = {}
         /\ ForGood \cap things = {}
         /\ (all \cup mode \cup AppThings \cup {PowerSaver}) \cap
              CapturedKeys = {}
         /\ (all \cup mode) \cap (AppThings \cup {PowerSaver}) = {}
         /\ all \cap mode = {}
         /\ PowerSaver \notin AppThings
         /\ \A t \in all \cup mode : Usual(t) = "off"
         /\ \A t \in AppThings : Usual(t) = "allow"
         /\ Usual(PowerSaver) = "on"
    BY GameApart
  <2> HIDE DEF all, things, mode, one, two
  <2>11. ASSUME NEW t \in Thing
         PROVE  started[t] = IF t \in AppThings THEN "ignore"
                             ELSE IF t \in DOMAIN settings THEN settings[t]
                             ELSE IF t = PowerSaver THEN "off"
                             ELSE IF t \in ForGood \cup ({Doze} \cup one) \cup mode
                               THEN "on"
                             ELSE UserDevice[t]
    BY <2>9 DEF Tweaked, mode
  <2>12. ASSUME NEW t \in Thing
         PROVE  idle[t] = IF t \in {Doze} \cup one THEN "off" ELSE started[t]
    <3> HIDE DEF started
    <3> QED
      BY <2>9 DEF GameLeft, Put
  <2>13. ASSUME NEW t \in Thing
         PROVE  tweaked[t] = IF t \in AppThings THEN "ignore"
                             ELSE IF t \in DOMAIN settings THEN settings[t]
                             ELSE IF t = PowerSaver THEN "off"
                             ELSE IF t \in ForGood \cup mode \cup
                                         ({Doze} \cup two \cup things)
                               THEN "on"
                             ELSE idle[t]
    <3> HIDE DEF idle
    <3> QED
      BY <2>9 DEF Tweaked, mode
  <2>14. ASSUME NEW t \in Thing
         PROVE  left[t] = IF t \in {Doze} \cup two THEN "off" ELSE tweaked[t]
    <3> HIDE DEF tweaked
    <3> QED
      BY <2>9 DEF GameLeft, Put
  <2>15. ASSUME NEW t \in Thing
         PROVE  stopped[t] = IF t \in CapturedKeys THEN UserDevice[t]
                             ELSE IF t \in AppThings THEN "allow"
                             ELSE IF t = PowerSaver THEN "on"
                             ELSE IF t \in mode THEN "off"
                             ELSE IF t = Doze THEN "off"
                             ELSE left[t]
    <3> HIDE DEF left
    <3>1. over[t] = IF t = Doze THEN "off" ELSE left[t]
      BY <2>9 DEF GameLeft, Put
    <3> HIDE DEF over
    <3> QED
      BY <3>1, BeforeTheDaemon DEF ModeLeft, mode
  <2>16. ASSUME NEW t \in Thing
         PROVE  ended[t] = IF t \in things THEN "on" ELSE IF t \in two THEN "off"
                           ELSE idle[t]
    <3> HIDE DEF idle
    <3> QED
      BY DEF things, two
  <2>17. ASSUME NEW t \in Thing
         PROVE  after[t] = IF t \in ForGood \cup things THEN "on"
                           ELSE IF t \in all \cup {PowerSaver} \cup AppThings \cup
                                        mode THEN Usual(t)
                           ELSE UserDevice[t]
    BY <2>10 DEF AfterGame, things
  <2>18. /\ left = [t \in Thing |-> left[t]] /\ ended = [t \in Thing |-> ended[t]]
         /\ stopped = [t \in Thing |-> stopped[t]]
         /\ after = [t \in Thing |-> after[t]]
    <3>1. left = [t \in Thing |-> left[t]]
      BY <2>2 DEF IsDevice
    <3>2. ended = [t \in Thing |-> ended[t]]
      <4> HIDE DEF idle
      <4> QED
        OBVIOUS
    <3>3. stopped = [t \in Thing |-> stopped[t]]
      <4> HIDE DEF over
      <4> QED
        BY DEF ModeLeft
    <3>4. after = [t \in Thing |-> after[t]]
      BY DEF AfterGame
    <3> QED
      BY <3>1, <3>2, <3>3, <3>4
  <2> HIDE DEF started, idle, tweaked, left, over, stopped, ended, after
  <2>19. left = ended
    <3>1. ASSUME NEW t \in Thing PROVE left[t] = ended[t]
      BY <2>1, <2>9, <2>10, <2>11, <2>12, <2>13, <2>14, <2>16
    <3> QED
      BY <2>18, <3>1
  <2>20. stopped = after
    <3>1. ASSUME NEW t \in Thing PROVE stopped[t] = after[t]
      BY <2>1, <2>9, <2>10, <2>11, <2>12, <2>13, <2>14, <2>15, <2>17
    <3> QED
      BY <2>18, <3>1
  <2> QED
    BY <2>3, <2>5, <2>6, <2>7, <2>8, <2>19, <2>20 DEF ended, after
<1> QED
  BY <1>1, PTL
=============================================================================
