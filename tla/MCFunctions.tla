----------------------------- MODULE MCFunctions -----------------------------
(***************************************************************************)
(* The pure functions of the daemon over bounded inputs: an input of one   *)
(* function is built piece by piece, and each property compares what the   *)
(* function makes of it with a definition that does not mention its        *)
(* algorithm.                                                              *)
(***************************************************************************)
EXTENDS GameDiscovery, DeviceProbe, TweakScripts

CONSTANTS
  MaxText,   \* bound: pieces of a line of text
  MaxLines,  \* bound: lines of a dump, bytes of a clock
  MaxModes   \* bound: modes of a display

MCTenths ==
  "29.7" :> 297 @@ "30" :> 300 @@ "59.94" :> 599 @@ "60.000004" :> 600 @@
  "120.0" :> 1200 @@ "360" :> 3600 @@ "360.4" :> 3604

VARIABLES
  function,  \* the function whose input is built
  input      \* the pieces so far

vars == <<function, input>>

\* What the scripts of the tweaks set.
AppThings == {AppOps(p) : p \in ThrottlePackages}
WhitelistOf(apps) == {Whitelisted(a) : a \in apps}
Thing ==
  CapturedKeys \cup AppThings \cup WhitelistOf(UserApp \cup {"com.termux"}) \cup
  {GameMode(g) : g \in GameApp} \cup {Overlay(g) : g \in GameApp} \cup
  {Doze, FixedPerformance, Thermal, PowerSaver, DebugProperties}

Piece ==
  [text |-> Name \cup Word \cup {"/", "{", ",", "[", "="},
   categories |->
     [header : Name, marks : {{}}] \cup
     [header : {NoName},
      marks : {{"category"}, {"CATEGORY"}, {"flags", "GAME"},
               {"other", "flags"}, {"other", "GAME"}, {"GAME"}}],
   visible |->
     [kind : {"package"}, name : Name, text : {<<>>}] \cup
     [kind : {"record"}, name : {NoName},
      text : UNION {{<<p, "/", p>>, <<"{", p, ",">>} : p \in Name}],
   rates |-> Numeral,
   clock |-> 0..9 \cup {Newline, Blank},
   scripts |-> Thing]

\* Two words next to each other would be one.
Fits(piece) ==
  CASE function = "text" ->
         /\ Len(input) < MaxText
         /\ ~ (input # <<>> /\ {piece, Last(input)} \subseteq Name \cup Word)
    [] function = "rates" -> Len(input) < MaxModes
    [] function = "scripts" -> Len(input) < 1
    [] OTHER -> Len(input) < MaxLines

Init == function \in DOMAIN Piece /\ input = <<>>
Next ==
  \E piece \in Piece[function] :
    /\ Fits(piece)
    /\ input' = Append(input, piece)
    /\ UNCHANGED function
Spec == Init /\ [][Next]_vars

-----------------------------------------------------------------------------
(* Event lines and dumps of packages *)

\* A package name that stands for itself: between delimiters, or up to a slash.
Standalone(line, i) ==
  /\ line[i] \in Name
  /\ i = 1 \/ line[i - 1] \in TokenEnd
  /\ i = Len(line) \/ line[i + 1] \in TokenEnd \cup {"/"}

\* Resume and pause lines give the same package, though they are written
\* differently: the name before the first slash, wherever there is one; the
\* package is one the line names; and a line with a standalone name is never
\* passed over.
PackageExtracted ==
  function = "text" =>
    LET package == extract_package(input)
        slash == Find(input, {"/"})
    IN  /\ package \in ToSet(input) \cup {NoName}
        /\ slash > 1 /\ input[slash - 1] \in Name => package = input[slash - 1]
        /\ package = NoName => \A i \in DOMAIN input : ~Standalone(input, i)

\* The lines of a dump that belong to a package: those after one of its
\* headers with no other header in between.
OwnLines(dump, package) ==
  {i \in DOMAIN dump :
     /\ dump[i].header = NoName
     /\ \E h \in 1..i - 1 :
          /\ dump[h].header = package
          /\ \A j \in h + 1..i - 1 : dump[j].header = NoName}

\* A package that says it is a game, in a line that passes the grep, or one
\* that is known by its name and listed in the dump or not.
GameByItself(dump, package) ==
  \/ package \in Named
  \/ \E i \in OwnLines(dump, package) :
       GrepPasses(dump[i].marks) /\ MeansGame(dump[i].marks)

Before(s, p, q) == \E i, j \in DOMAIN s : i < j /\ s[i] = p /\ s[j] = q

\* README: "automatically prioritizes discovered games first": games are
\* compiled before every other app, apps before system packages, no listed
\* app is lost or repeated, and packages of one kind keep the order in which
\* they were listed.
GamesFirst ==
  function = "categories" =>
    \A user \in SetToSeqs(Name \ Safe) :
      LET queue == discover_packages(input, user, SetToSeq(Safe))
          packages == [i \in DOMAIN queue |-> queue[i].package]
          rank(p) == IF p \in Safe THEN 3
                     ELSE IF GameByItself(input, p) THEN 1 ELSE 2
      IN  /\ ToSet(packages) = Name /\ Len(packages) = Cardinality(Name)
          /\ \A p, q \in Name :
               \/ rank(p) < rank(q)
               \/ rank(p) = rank(q) /\ p \notin Safe /\ Before(user, p, q)
               => Before(packages, p, q)

\* A package that is compiled as a game is one for which the event loop
\* suspends: the two classifiers read different dumps of the same lines.
PrioritizedIsSuspended ==
  function = "categories" =>
    \A p \in GamePackages(input) :
      IsGame(p, {input[i].marks : i \in OwnLines(input, p)})

\* The converse fails: README's "automatically prioritizes discovered games
\* first" does not reach a game that only CATEGORY_GAME marks, which the grep
\* of discover_packages drops and that of the event loop does not.
SuspendedIsPrioritized ==
  function = "categories" =>
    \A p \in Name :
      IsGame(p, {input[i].marks : i \in OwnLines(input, p)}) =>
        GameByItself(input, p)

\* The whitelist of a game session gets every user app that is visible beside
\* the game once, and never the game itself or the system, whatever mixture of
\* windows and activities is printed.
SecondaryAreUserApps ==
  function = "visible" =>
    \A game \in Name :
      LET found == VisiblePackages(input, game)
          names == {p \in Name : \E i \in DOMAIN input :
                      p = input[i].name \/ p \in ToSet(input[i].text)}
      IN  /\ ToSet(found) = names \ (Excluded \cup {game})
          /\ Len(found) = Cardinality(ToSet(found))

-----------------------------------------------------------------------------
(* The display and the clock *)

Join(parts) == FoldLeft(LAMBDA s, t : s \o t, <<>>, parts)
EachMode(modes, Shown(_)) == Join([i \in DOMAIN modes |-> Shown(modes[i])])

\* A list of modes as the comment on the third format has it.
ListOf(modes) ==
  <<"supportedRefreshRates", " ", "[">> \o
  EachMode(modes, LAMBDA n : <<n, ",", " ">>) \o <<"]">>

\* The formats of the tests and of the comments, per list of modes.
Formats(modes) ==
  { << <<"word", " ", "supportedModes", " ", "[">> \o
       EachMode(modes, LAMBDA n : <<"word", ",", " ", "fps", "=", n, ",", " ",
                                    "word", "=", n, "}", ",", " ">>) \o <<"]">>,
       ListOf(modes) >>,
    <<ListOf(modes)>>,
    [i \in DOMAIN modes |->
       <<"word", ",", " ", "renderFrameRate", " ", modes[i], " ", "fps", ",",
         " ", "word", " ", modes[i], " ", "word">>],
    << <<"mSupportedModes", "=", "[">> \o
       EachMode(modes, LAMBDA n : <<"word", " ", "fps", "=", n, "}", "}", ",">>) \o
       <<"]">> >>,
    [i \in DOMAIN modes |-> <<"word", " ", "renderFrameRate", "=", modes[i], ",">>],
    [i \in DOMAIN modes |-> <<"fps", ":", " ", modes[i]>>],
    [i \in DOMAIN modes |-> <<"word", " ", "fps", " ", modes[i]>>] }

Modes(modes) == {n \in {Tenths[m] : m \in ToSet(modes)} : InRange(n)}
Nearest(n) == CHOOSE r \in {10 * k : k \in 0..500} : r - 5 <= n /\ n < r + 5

\* Whatever format the device prints its modes in, and in whatever order, the
\* rates found are its modes between 30 and 360 Hz, to the nearest hertz,
\* ascending and each once.
RatesAreModes ==
  function = "rates" =>
    \A dump \in Formats(input) :
      LET rates == ParseRates(dump)
      IN  /\ ToSet(rates) = {Nearest(n) : n \in Modes(input)}
          /\ \A i, j \in DOMAIN rates : i < j => rates[i] < rates[j]

\* The rate that the tweaks lock is the fastest mode of the panel if either
\* dump prints one, in a line that the grep lets through, whatever the setting
\* says and whichever query fails.
LockedRateIsMode ==
  function = "rates" /\ Modes(input) # {} =>
    \A display, flinger \in Formats(input) \cup {<<>>},
       setting \in Range(Tenths) \cup {NotANumeral} :
      Grepped(display) # <<>> \/ flinger # <<>> =>
        MaxRate(DisplayRates(display, flinger, setting)) =
          Nearest(Max(Modes(input)))

\* The clock read is the first number of the first line, exact as long as it
\* fits the integer and modulo its range beyond.
ClockExact ==
  function = "clock" =>
    LET newlines == {i \in DOMAIN input : input[i] = Newline}
        line == IF newlines = {} THEN input
                ELSE SubSeq(input, 1, Min(newlines) - 1)
        digits == {i \in DOMAIN line : line[i] \in 0..9}
        first == Min(digits)
        end == Max({i \in digits : first..i \subseteq digits})
        number == MapThenSumSet(LAMBDA i : line[i] * 10^(end - i), first..end)
    IN  ParseClock(input) = IF digits = {} THEN NoClock ELSE number % 2^Width

-----------------------------------------------------------------------------
(* The scripts *)

Api == {29, 30, 31, 33}

\* A device before the daemon: as it is delivered, but for one thing (or none)
\* that has a value of the user's own.
Usual(t) ==
  IF t \in CapturedKeys THEN Unset ELSE IF t \in AppThings THEN "allow"
  ELSE IF t = PowerSaver THEN "on" ELSE "off"
UserDevice == [t \in Thing |-> IF t \in ToSet(input) THEN "user" ELSE Usual(t)]

\* The tweaks that no restoration undoes: every one is called without the game,
\* Termux stays whitelisted, and debug properties last until the next boot.
GameThings(api, target) ==
  (IF target # NoTarget /\ api >= 31 THEN {GameMode(target)} ELSE {}) \cup
  (IF target # NoTarget /\ api >= 33 THEN {Overlay(target)} ELSE {})
ForGood == {Whitelisted("com.termux"), DebugProperties}

\* What a restoration resets without knowing what the user had.
OfTheMode(api) ==
  {Thermal} \cup (IF api >= 30 THEN {FixedPerformance} ELSE {})
Blind(api, apps) ==
  {Doze, PowerSaver} \cup AppThings \cup WhitelistOf(apps) \cup OfTheMode(api)

\* The device after a game, by what the user had: all else is as it was.
AfterGame(api, game, apps) ==
  [t \in Thing |-> IF t \in ForGood \cup GameThings(api, game) THEN "on"
                   ELSE IF t \in Blind(api, apps) THEN Usual(t)
                   ELSE UserDevice[t]]

\* The device after the script that enters a game and the one that leaves it.
Left(api, oem, game, apps) ==
  Run(RestoreScript(api, "Adaptive", NoTarget, Snapshot(UserDevice), apps, FALSE),
      Run(OptimizeScript(api, oem, game, apps), UserDevice))

\* README: "complete restoration": on every API level and every maker's
\* device, and whatever the user has chosen, leaving a game in Adaptive mode
\* gives back every setting that entering it wrote, a key that was not set
\* among them.  What is neither in the snapshot nor reset is exactly the game's
\* own mode, Termux and the debug properties; the services' AppOps, the saver,
\* the power modes and the whitelist come back as the device was delivered.
GameUndone ==
  function = "scripts" =>
    \A api \in Api, oem \in Oem, game \in GameApp, apps \in SUBSET UserApp :
      Left(api, oem, game, apps) = AfterGame(api, game, apps)

\* Performance mode, from the start without a game, over the first game's end,
\* to a game that is entered and left: the game's end gives back the whitelist
\* and doze and nothing else, and the shutdown all that Adaptive mode would.
PerformanceUndone ==
  function = "scripts" =>
    \A api \in Api, oem \in Oem, game \in GameApp,
       first, apps \in SUBSET UserApp :
      LET snapshot == Snapshot(UserDevice)
          started == Run(OptimizeScript(api, oem, NoTarget, first), UserDevice)
          idle == Run(RestoreScript(api, "Performance", NoTarget, snapshot,
                                    first, FALSE), started)
          tweaked == Run(OptimizeScript(api, oem, game, apps), idle)
          left == Run(RestoreScript(api, "Performance", NoTarget, snapshot,
                                    apps, FALSE), tweaked)
          stopped == Run(RestoreScript(api, "Performance", NoTarget, snapshot,
                                       {}, TRUE), left)
      IN  /\ left = [t \in Thing |->
                     IF t \in GameThings(api, game) THEN "on"
                     ELSE IF t \in WhitelistOf(apps) THEN "off" ELSE idle[t]]
          /\ stopped = AfterGame(api, game, first \cup apps)

\* The restoration is not complete as README has it: a tweak is left on, and a
\* choice of the user's that has no place in the snapshot is lost.
CompletelyRestored ==
  function = "scripts" =>
    \A api \in Api, oem \in Oem, game \in GameApp, apps \in SUBSET UserApp :
      Left(api, oem, game, apps) = UserDevice
=============================================================================
