---------------------------- MODULE GameDiscovery ----------------------------
(***************************************************************************)
(* What the daemon reads out of Android's text: the package an event line  *)
(* is about (extract_package), the apps visible beside a game              *)
(* (parse_visible_packages_from_dumpsys), which packages are games, by two *)
(* classifiers, one for the event loop (check_if_game) and one for the     *)
(* compile queue (parse_package_categories_from_dumpsys), and the queue    *)
(* that discover_packages builds with the latter.                          *)
(*                                                                         *)
(* A line of text is a sequence of words, the longest runs of letters,     *)
(* digits, '.' and '_', and of the characters between them.  Of those, "," *)
(* stands for the ones that end both a braced text and a token (} , : and  *)
(* the space), "[" for those that only end a token ([ ] ( ) ;) and "=" for *)
(* those that end neither (tabs, which are trimmed, are left out).         *)
(***************************************************************************)
EXTENDS Naturals, Sequences, FiniteSets, SequencesExt

CONSTANTS
  Name,      \* words that are valid package names
  Word,      \* other words
  NoName,    \* None
  Named,     \* packages recognized by their name alone
  Excluded,  \* packages whose name begins with one in SYSTEM_EXCLUDED_PACKAGES
  Safe       \* SAFE_SYSTEM_APPS

ASSUME NameAssumption ==
  /\ Named \cup Excluded \cup Safe \subseteq Name
  /\ IsFiniteSet(Name) /\ NoName \notin Name /\ Name \cap Word = {}
  /\ Name \cap {"/", "{", ",", "[", "="} = {}

-----------------------------------------------------------------------------
(* extract_package *)

\* Is the text a valid package name?
IsName(text) == Len(text) = 1 /\ text[1] \in Name

\* Where the first of these characters is, 0 if there is none.
Find(line, chars) == SelectInSeq(line, LAMBDA c : c \in chars)

\* The text after position i up to the first of these characters.
Between(line, i, chars) ==
  LET rest == SubSeq(line, i + 1, Len(line))
      end == Find(rest, chars)
  IN  IF end = 0 THEN rest ELSE SubSeq(rest, 1, end - 1)

TokenEnd == {",", "[", "{"}
TokenStarts(line) ==
  {i \in 0..Len(line) : i = 0 \/ line[i] \in TokenEnd}

\* The candidates, in the order in which they are tried: the word before the
\* first slash, the text after the first brace, each token up to a slash.
WordBeforeSlash(line) ==
  LET slash == Find(line, {"/"})
  IN  IF slash > 1 THEN <<line[slash - 1]>> ELSE <<>>
BraceText(line) ==
  LET brace == Find(line, {"{"})
  IN  IF brace = 0 THEN <<>> ELSE Between(line, brace, {",", "/"})

\* mutant: the slash is looked for in the whole line only
TokenWhole(line, i) == Between(line, i, TokenEnd)
Token(line, i) == Between(line, i, TokenEnd \cup {"/"})

extract_package(line) ==
  LET tokens == {i \in TokenStarts(line) : IsName(Token(line, i))}
      first == CHOOSE i \in tokens : \A j \in tokens : i <= j
  IN  IF IsName(WordBeforeSlash(line)) THEN WordBeforeSlash(line)[1]
      ELSE IF IsName(BraceText(line)) THEN BraceText(line)[1]
      ELSE IF tokens # {} THEN Token(line, first)[1]
      ELSE NoName

-----------------------------------------------------------------------------
(* parse_visible_packages_from_dumpsys: a line names a package outright, is  *)
(* about a window or an activity, or neither                                *)

Candidate(l) ==
  CASE l.kind = "package" -> l.name
    [] l.kind = "record" -> extract_package(l.text)
    [] OTHER -> NoName

\* mutant: the name of the game is not looked for in the records
VisibleGame(lines, game) ==
  FoldLeft(LAMBDA found, l :
             IF \/ Candidate(l) \in Excluded \cup {NoName}
                \/ l.kind = "package" /\ Candidate(l) = game
                \/ Candidate(l) \in ToSet(found)
             THEN found ELSE Append(found, Candidate(l)),
           <<>>, lines)

VisiblePackages(lines, game) ==
  FoldLeft(LAMBDA found, l :
             IF \/ Candidate(l) \in Excluded \cup {NoName, game}
                \/ Candidate(l) \in ToSet(found)
             THEN found ELSE Append(found, Candidate(l)),
           <<>>, lines)

-----------------------------------------------------------------------------
(* Which packages are games.  Of a line of dumpsys package it matters       *)
(* whether it begins a package's section and which marks it carries:        *)
(* "category" for a spelling that means a game, "CATEGORY" for one in       *)
(* capitals (CATEGORY_GAME), "other" for a category of another kind,        *)
(* "flags" for flags=[ and "GAME".  Both queries are filtered by a grep on  *)
(* the device, of which only that of the event loop ignores case.           *)

Mark == {"category", "CATEGORY", "other", "flags", "GAME"}

GrepPasses(marks) ==
  marks \cap {"category", "other"} # {} \/ {"flags", "GAME"} \subseteq marks
GrepIgnoringCasePasses(marks) == GrepPasses(marks) \/ "CATEGORY" \in marks

MeansGame(marks) ==
  marks \cap {"category", "CATEGORY"} # {} \/ {"flags", "GAME"} \subseteq marks

\* mutant: the section of a package known by its name is not entered
ReadLineKnown(state, l) ==
  IF l.header \in Named
  THEN [state EXCEPT !.games = @ \cup {l.header}]
  ELSE IF l.header # NoName THEN [state EXCEPT !.current = l.header]
  ELSE IF GrepPasses(l.marks) /\ MeansGame(l.marks) /\ state.current # NoName
  THEN [state EXCEPT !.games = @ \cup {state.current}]
  ELSE state

ReadLine(state, l) ==
  IF l.header # NoName
  THEN [current |-> l.header, games |-> state.games \cup ({l.header} \cap Named)]
  ELSE IF GrepPasses(l.marks) /\ MeansGame(l.marks) /\ state.current # NoName
  THEN [state EXCEPT !.games = @ \cup {state.current}]
  ELSE state

GamePackages(dump) ==
  FoldLeft(ReadLine, [current |-> NoName, games |-> {}], dump).games

\* mutant: the flags are not looked at
IsGameByCategory(package, lines) ==
  LET printed == UNION {m \in lines : GrepIgnoringCasePasses(m)}
  IN  package \in Named \/ printed \cap {"category", "CATEGORY"} # {}

\* check_if_game past its cache: all that is printed for the package is one
\* text, so that a mark of one line and a mark of another come together, in
\* whatever order.
IsGame(package, lines) ==
  LET printed == UNION {m \in lines : GrepIgnoringCasePasses(m)}
  IN  package \in Named \/ MeansGame(printed)

-----------------------------------------------------------------------------
(* discover_packages: a query that fails counts as one that prints nothing *)

Category == <<"Game", "UserApp", "SystemSafe">>   \* in their order

UserTarget(package, games) ==
  [package |-> package,
   category |-> IF package \in games \cup Named THEN "Game" ELSE "UserApp"]

\* What is left of a list when only the members of a set are kept.
Keep(s, set) ==
  FoldLeft(LAMBDA kept, e : IF e \in set THEN Append(kept, e) ELSE kept, <<>>, s)

\* Lines that list no package are passed over.
Targets(dump, user, system) ==
  LET games == GamePackages(dump)
      listed == Keep(user, Name)
      safe == Keep(system, Safe)
  IN  [i \in DOMAIN listed |-> UserTarget(listed[i], games)] \o
      [i \in DOMAIN safe |-> [package |-> safe[i], category |-> "SystemSafe"]]

\* sort_by is stable.
SortByCategory(targets) ==
  LET Of(category) == Keep(targets, {t \in ToSet(targets) : t.category = category})
  IN  Of(Category[1]) \o Of(Category[2]) \o Of(Category[3])

discover_packages(dump, user, system) ==
  SortByCategory(Targets(dump, user, system))
=============================================================================
