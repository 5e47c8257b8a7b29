----------------------------- MODULE DeviceProbe -----------------------------
(***************************************************************************)
(* What the probes make of the device's answers: the refresh rates of the  *)
(* display, from any of three formats in which Android versions and        *)
(* vendors print them (parse_refresh_rates_from_dumpsys), the rate to lock *)
(* (detect_display_info), and a clock read from sysfs                      *)
(* (parse_u32_branchless).                                                 *)
(*                                                                         *)
(* A line of a dump is a sequence of tokens: "renderFrameRate", "fps",     *)
(* "supportedRefreshRates", "supportedModes", "mSupportedModes", "=", ":", *)
(* " ", ",", "}" for the other characters trimmed from the end of a value  *)
(* (; ) }), "[", "]", other words, and numerals, whose values are kept in  *)
(* tenths of a hertz: no test or rounding looks at a later decimal.        *)
(***************************************************************************)
EXTENDS Integers, Sequences, FiniteSets, SequencesExt, FiniteSetsExt

CONSTANTS
  Tenths,    \* the value of each numeral the dumps contain
  Width      \* bits of the clock's integer

Numeral == DOMAIN Tenths
ASSUME TenthsAssumption == \A n \in Numeral : Tenths[n] \in Nat
ASSUME WidthAssumption == Width \in Nat \ {0}

-----------------------------------------------------------------------------
(* parse_refresh_rates_from_dumpsys *)

InRange(n) == 300 <= n /\ n <= 3600

\* f32::round, half away from zero.
Round(n) == ((n + 5) \div 10) * 10

IsNumeral(text) == Len(text) = 1 /\ text[1] \in Numeral

\* The text of line from i up to the first token of a set, and what follows.
UpTo(line, i, stops) ==
  LET rest == SubSeq(line, i, Len(line))
      stop == SelectInSeq(rest, LAMBDA t : t \in stops)
  IN  IF stop = 0 THEN rest ELSE SubSeq(rest, 1, stop - 1)

\* The first position from i on whose token is not in a set.
SkipFrom(line, i, skipped) ==
  Min({j \in i..Len(line) + 1 : j = Len(line) + 1 \/ line[j] \notin skipped})

TrimEnd(text, ends) ==
  SubSeq(text, 1, Max({0} \cup {j \in DOMAIN text : text[j] \notin ends}))

\* Pattern 1: a word that is renderFrameRate, followed by a word that is a
\* numeral, or renderFrameRate=<numeral>.
RenderFrameRates(line) ==
  {n \in Numeral : \E i \in DOMAIN line :
     /\ line[i] = "renderFrameRate"
     /\ i = 1 \/ line[i - 1] = " "
     /\ LET this == UpTo(line, i, {" "})
            next == UpTo(line, SkipFrom(line, i + 1, {" "}), {" "})
        IN  \/ Len(this) = 1 /\ next = <<n>>
            \/ Len(this) > 1 /\ this[2] = "="
               /\ TrimEnd(Tail(Tail(this)), {",", "}"}) = <<n>>}

\* mutant: only "fps=" is known
FpsEqual(line) ==
  {n \in Numeral : \E i \in DOMAIN line :
     /\ line[i] = "fps" /\ i + 1 < Len(line)
     /\ line[i + 1] = "=" /\ line[i + 2] = n}

\* Pattern 2: fps, any of = : and spaces, a numeral.
FpsRates(line) ==
  {n \in Numeral : \E i \in DOMAIN line :
     /\ line[i] = "fps"
     /\ LET start == SkipFrom(line, i + 1, {"=", ":", " "})
        IN  start <= Len(line) /\ line[start] = n}

\* Pattern 3: the first bracket of a line about rates or modes, up to where
\* the first bracket after it closes; if none does there is no list.
ListedRates(line) ==
  LET open == SelectInSeq(line, LAMBDA t : t = "[")
      inner == UpTo(line, open + 1, {"]"})
      part(i) == UpTo(inner, i, {","})
      starts == {1} \cup {i + 1 : i \in {j \in DOMAIN inner : inner[j] = ","}}
  IN  {n \in Numeral :
         /\ {"supportedRefreshRates", "supportedModes"} \cap ToSet(line) # {}
         /\ open # 0
         /\ open + Len(inner) < Len(line)
         /\ \E i \in starts :
              SelectSeq(part(i), LAMBDA t : t # " ") = <<n>>}

RatesOf(line) == RenderFrameRates(line) \cup FpsRates(line) \cup ListedRates(line)

\* Sorted, each once.
ParseRates(lines) ==
  LET found == UNION {RatesOf(lines[i]) : i \in DOMAIN lines}
  IN  SetToSortSeq({Round(Tenths[n]) : n \in
                     {m \in found : InRange(Tenths[m])}}, <)

-----------------------------------------------------------------------------
(* detect_display_info.  An answer is a dump, or the empty one of a query   *)
(* that failed; the setting is a value, or not a number.                    *)

NotANumeral == -1

\* The lines of `dumpsys display` that its grep lets through: a list of
\* supportedRefreshRates alone is not among them.
Grepped(lines) ==
  SelectSeq(lines, LAMBDA line :
    {"mSupportedModes", "supportedModes", "fps", "renderFrameRate"} \cap
      ToSet(line) # {})

\* mutant: the setting is asked even if the display answered
DisplayRatesAlways(display, flinger, setting) ==
  LET first == ParseRates(Grepped(display))
      dumps == IF first # <<>> THEN first ELSE ParseRates(flinger)
  IN  IF InRange(setting)
      THEN SetToSortSeq(ToSet(dumps) \cup {setting}, <) ELSE dumps

DisplayRates(display, flinger, setting) ==
  LET first == ParseRates(Grepped(display))
      dumps == IF first # <<>> THEN first ELSE ParseRates(flinger)
  IN  IF dumps = <<>> /\ InRange(setting) THEN <<setting>> ELSE dumps

MaxRate(rates) == IF rates = <<>> THEN 600 ELSE Last(rates)

-----------------------------------------------------------------------------
(* parse_u32_branchless, of the bytes that one pread returns: a digit is    *)
(* its value                                                                *)

Newline == 10
Blank == 11   \* any other byte

NoClock == -1

NextValue(value, digit) == (value * 10 + digit) % 2^Width

\* mutant: an empty line does not end the number's line
ReadByteOn(state, b) ==
  IF state.done THEN state
  ELSE IF b \in 0..9
  THEN [state EXCEPT !.value = NextValue(@, b), !.found = TRUE]
  ELSE [state EXCEPT !.done = state.found]

ReadByte(state, b) ==
  IF state.done THEN state
  ELSE IF b \in 0..9
  THEN [state EXCEPT !.value = NextValue(@, b), !.found = TRUE]
  ELSE [state EXCEPT !.done = state.found \/ b = Newline]

ParseClock(buf) ==
  LET end == FoldLeft(ReadByte,
                      [value |-> 0, found |-> FALSE, done |-> FALSE], buf)
  IN  IF end.found THEN end.value ELSE NoClock
=============================================================================
