-------------------------- MODULE DiscoveryProofs ---------------------------
(***************************************************************************)
(* What the daemon reads out of Android's text, for lines and dumps of     *)
(* every length and every finite set of packages: the package of an event  *)
(* line, the apps visible beside a game, the games among the packages and  *)
(* the order in which they are compiled.                                   *)
(*                                                                         *)
(* The functions fold over lines; each is an instance of LeftFold, whose   *)
(* FoldInvariant takes for every prefix the states the fold may be in.     *)
(***************************************************************************)
EXTENDS MCFunctions, FiniteSetTheorems, SequenceTheorems,
        NaturalsInduction, WellFoundedInduction, TLAPS

\* An input consists of pieces.
InputOK == input \in Seq(Piece[function])

LEMMA InputStays == Spec => []InputOK
<1>1. Init => InputOK
  BY DEF Init, InputOK
<1>2. InputOK /\ [Next]_vars => InputOK'
  <2> SUFFICES ASSUME InputOK, [Next]_vars PROVE InputOK'
    OBVIOUS
  <2>1. CASE Next
    <3>1. PICK piece \in Piece[function] : input' = Append(input, piece)
      BY <2>1 DEF Next
    <3>2. function' = function
      BY <2>1 DEF Next
    <3> QED
      BY <3>1, <3>2 DEF InputOK
  <2>2. CASE UNCHANGED vars
    BY <2>2 DEF vars, InputOK
  <2> QED
    BY <2>1, <2>2
<1> QED
  BY <1>1, <1>2, PTL DEF Spec

-----------------------------------------------------------------------------
(* extract_package *)

\* A set of positions has a first one.
LEMMA MinExists ==
  ASSUME NEW t, t \subseteq Nat, t # {}
  PROVE  Min(t) \in t /\ \A i \in t : Min(t) <= i
<1>1. PICK m \in t : \A k \in t : ~(<<k, m>> \in OpToRel(<, Nat))
  BY NatLessThanWellFounded, WFMin, t \subseteq Nat, t # {}, Zenon
<1>2. ASSUME NEW k \in t PROVE m <= k
  <2>1. ~(<<k, m>> \in OpToRel(<, Nat)) /\ k \in Nat /\ m \in Nat
    BY <1>1
  <2>2. <<k, m>> \in Nat \X Nat
    BY <2>1
  <2> QED
    BY <2>1, <2>2 DEF OpToRel
<1> QED
  BY <1>2, Zenon DEF Min

\* Find gives the first of the characters.
LEMMA FindFirst ==
  ASSUME NEW T, NEW line \in Seq(T), NEW chars
  PROVE  /\ Find(line, chars) \in 0..Len(line)
         /\ Find(line, chars) = 0 =>
              \A i \in 1..Len(line) : line[i] \notin chars
         /\ Find(line, chars) # 0 =>
              /\ line[Find(line, chars)] \in chars
              /\ \A i \in 1..Find(line, chars) - 1 : line[i] \notin chars
<1> DEFINE I == {i \in 1..Len(line) : line[i] \in chars}
<1>1. Find(line, chars) = IF I # {} THEN Min(I) ELSE 0
  BY DEF Find, SelectInSeq
<1>2. CASE I = {}
  BY <1>1, <1>2
<1>3. CASE I # {}
  <2>1. Min(I) \in I /\ \A i \in I : Min(I) <= i
    BY <1>3, MinExists, I \subseteq Nat
  <2>2. PICK m : m = Find(line, chars)
    OBVIOUS
  <2>3. m \in I /\ \A i \in I : m <= i
    BY <1>1, <1>3, <2>1, <2>2
  <2>4. /\ m \in 1..Len(line) /\ line[m] \in chars
        /\ \A i \in 1..m - 1 : line[i] \notin chars
    BY <2>3
  <2> QED
    BY <2>2, <2>4
<1> QED
  BY <1>2, <1>3

\* The text up to a delimiter is part of the line.
LEMMA BetweenIs ==
  ASSUME NEW T, NEW line \in Seq(T), NEW i \in 0..Len(line), NEW chars
  PROVE  /\ Between(line, i, chars) \in Seq(T)
         /\ \A j \in 1..Len(Between(line, i, chars)) :
              i + j \in 1..Len(line) /\ Between(line, i, chars)[j] = line[i + j]
<1> DEFINE rest == SubSeq(line, i + 1, Len(line))
           end == Find(rest, chars)
<1>1. /\ rest \in Seq(T) /\ Len(rest) = Len(line) - i
      /\ \A j \in 1..Len(rest) : i + j \in 1..Len(line) /\ rest[j] = line[i + j]
  OBVIOUS
<1>2. end \in 0..Len(rest)
  BY <1>1, FindFirst
<1>3. Between(line, i, chars) =
        IF end = 0 THEN rest ELSE SubSeq(rest, 1, end - 1)
  BY DEF Between
<1> HIDE DEF rest, end
<1>4. CASE end = 0
  BY <1>1, <1>3, <1>4
<1>5. CASE end # 0
  <2>1. /\ SubSeq(rest, 1, end - 1) \in Seq(T)
        /\ Len(SubSeq(rest, 1, end - 1)) = end - 1
        /\ \A j \in 1..end - 1 : SubSeq(rest, 1, end - 1)[j] = rest[j]
    BY <1>1, <1>2, <1>5
  <2> QED
    BY <1>1, <1>2, <1>3, <1>5, <2>1
<1> QED
  BY <1>4, <1>5

\* The names, the other words and the delimiters a line consists of.
Character == Name \cup Word \cup {"/", "{", ",", "[", "="}

\* A text that is a name is a word of the line.
LEMMA NameInLine ==
  ASSUME NEW line \in Seq(Character), NEW i \in 0..Len(line), NEW chars,
         IsName(Between(line, i, chars))
  PROVE  Between(line, i, chars)[1] \in ToSet(line) \cap Name
<1>1. Between(line, i, chars)[1] \in Name /\ Len(Between(line, i, chars)) = 1
  BY DEF IsName
<1>2. i + 1 \in 1..Len(line) /\ Between(line, i, chars)[1] = line[i + 1]
  <2>1. \A j \in 1..Len(Between(line, i, chars)) :
          i + j \in 1..Len(line) /\ Between(line, i, chars)[j] = line[i + j]
    BY BetweenIs
  <2>2. 1 \in 1..1
    OBVIOUS
  <2> QED
    BY <1>1, <2>1, <2>2, Zenon
<1> QED
  BY <1>1, <1>2 DEF ToSet

\* A name that stands for itself is a token.
LEMMA StandaloneIsToken ==
  ASSUME NEW line \in Seq(Character), NEW i \in DOMAIN line, Standalone(line, i)
  PROVE  i - 1 \in TokenStarts(line) /\ IsName(Token(line, i - 1))
<1> DEFINE chars == TokenEnd \cup {"/"}
           rest == SubSeq(line, i, Len(line))
<1>0. i \in 1..Len(line) /\ i - 1 \in 0..Len(line) /\ i - 1 + 1 = i
  OBVIOUS
<1>1. /\ line[i] \in Name /\ line[i] \notin chars
      /\ i = 1 \/ line[i - 1] \in TokenEnd
      /\ i = Len(line) \/ line[i + 1] \in chars
  <2>1. Name \cap chars = {}
    BY NameAssumption DEF TokenEnd
  <2> QED
    BY <2>1 DEF Standalone
<1>2. i - 1 \in TokenStarts(line)
  BY <1>0, <1>1 DEF TokenStarts
<1>3. /\ rest \in Seq(Character) /\ Len(rest) = Len(line) - i + 1
      /\ 1 \in 1..Len(rest) /\ rest[1] = line[i]
      /\ i # Len(line) => 2 \in 1..Len(rest) /\ rest[2] = line[i + 1]
  BY <1>0
<1>4. Token(line, i - 1) = IF Find(rest, chars) = 0 THEN rest
                           ELSE SubSeq(rest, 1, Find(rest, chars) - 1)
  BY <1>0 DEF Token, Between
<1> HIDE DEF rest, chars
<1>5. PICK end : end = Find(rest, chars)
  OBVIOUS
<1>6. /\ end \in 0..Len(rest)
      /\ end = 0 => \A j \in 1..Len(rest) : rest[j] \notin chars
      /\ end # 0 => /\ rest[end] \in chars
                    /\ \A j \in 1..end - 1 : rest[j] \notin chars
  BY <1>3, <1>5, FindFirst
<1>7. IF i = Len(line) THEN end = 0 ELSE end = 2
  <2>1. end # 1
    BY <1>1, <1>3, <1>6
  <2>2. CASE i = Len(line)
    BY <1>0, <1>3, <1>6, <2>1, <2>2
  <2>3. CASE i # Len(line)
    <3>1. end # 0
      BY <1>1, <1>3, <1>6, <2>3
    <3>2. ~(2 \in 1..end - 1)
      BY <1>1, <1>3, <1>6, <2>3, <3>1
    <3> QED
      BY <1>0, <1>3, <1>6, <2>1, <2>3, <3>1, <3>2
  <2> QED
    BY <2>2, <2>3
<1>8. Len(Token(line, i - 1)) = 1 /\ Token(line, i - 1)[1] = line[i]
  <2>1. CASE i = Len(line)
    BY <1>0, <1>3, <1>4, <1>5, <1>7, <2>1
  <2>2. CASE i # Len(line)
    <3>1. Token(line, i - 1) = SubSeq(rest, 1, 1)
      <4>1. Find(rest, chars) = 2
        BY <1>5, <1>7, <2>2
      <4>2. Token(line, i - 1) = SubSeq(rest, 1, 2 - 1)
        BY <1>4, <4>1
      <4> QED
        BY <4>2
    <3>2. Len(SubSeq(rest, 1, 1)) = 1 /\ SubSeq(rest, 1, 1)[1] = rest[1]
      BY <1>3
    <3> QED
      BY <1>3, <3>1, <3>2
  <2> QED
    BY <2>1, <2>2
<1> QED
  BY <1>1, <1>2, <1>8 DEF IsName

\* What extract_package makes of a line.
LEMMA ExtractPackage ==
  ASSUME NEW line \in Seq(Character)
  PROVE  LET package == extract_package(line)
             slash == Find(line, {"/"})
         IN  /\ package \in (ToSet(line) \cap Name) \cup {NoName}
             /\ slash > 1 /\ line[slash - 1] \in Name =>
                  package = line[slash - 1]
             /\ package = NoName => \A i \in DOMAIN line : ~Standalone(line, i)
<1> DEFINE package == extract_package(line)
           slash == Find(line, {"/"})
           tokens == {i \in TokenStarts(line) : IsName(Token(line, i))}
<1> HIDE DEF package, slash, tokens
<1>1. slash \in 0..Len(line) /\ Find(line, {"{"}) \in 0..Len(line)
  BY FindFirst DEF slash
<1>0. package = IF IsName(WordBeforeSlash(line)) THEN WordBeforeSlash(line)[1]
                ELSE IF IsName(BraceText(line)) THEN BraceText(line)[1]
                ELSE IF tokens # {}
                THEN Token(line, CHOOSE i \in tokens : \A j \in tokens : i <= j)[1]
                ELSE NoName
  BY DEF package, tokens, extract_package
<1>2. CASE IsName(WordBeforeSlash(line))
  <2>1. slash > 1 /\ WordBeforeSlash(line) = <<line[slash - 1]>>
    BY <1>2 DEF WordBeforeSlash, IsName, slash
  <2>2. package = line[slash - 1] /\ package \in Name
    BY <1>0, <1>2, <2>1 DEF IsName
  <2>3. line[slash - 1] \in ToSet(line)
    <3>1. slash > 1
      BY <2>1
    <3>2. slash - 1 \in DOMAIN line
      <4>1. \A k \in 0..Len(line) : k > 1 => k - 1 \in DOMAIN line
        OBVIOUS
      <4> QED
        BY <1>1, <3>1, <4>1, Zenon
    <3> QED
      BY <3>2 DEF ToSet
  <2> QED
    BY <2>2, <2>3, NameAssumption DEF package, slash
<1>3. CASE ~IsName(WordBeforeSlash(line))
  <2>1. ~(slash > 1 /\ line[slash - 1] \in Name)
    BY <1>3 DEF WordBeforeSlash, IsName, slash
  <2>2. CASE IsName(BraceText(line))
    <3>1. BraceText(line) = Between(line, Find(line, {"{"}), {",", "/"})
      <4>1. BraceText(line) # <<>>
        BY <2>2 DEF IsName
      <4> QED
        BY <4>1 DEF BraceText
    <3>2. package = BraceText(line)[1]
      BY <1>0, <1>3, <2>2
    <3>3. package \in ToSet(line) \cap Name
      BY <1>1, <2>2, <3>1, <3>2, NameInLine
    <3> QED
      BY <2>1, <3>3, NameAssumption DEF package, slash
  <2>3. CASE ~IsName(BraceText(line)) /\ tokens # {}
    <3>1. tokens \subseteq Nat /\ tokens \subseteq 0..Len(line)
      BY DEF tokens, TokenStarts
    <3>2. PICK m \in tokens : \A j \in tokens : m <= j
      BY <2>3, <3>1, MinExists
    <3>3. PICK first \in tokens : package = Token(line, first)[1]
      BY <1>0, <1>3, <2>3, <3>2, Zenon
    <3>4. package \in ToSet(line) \cap Name
      <4>1. IsName(Token(line, first)) /\ first \in 0..Len(line)
        BY <3>1 DEF tokens
      <4> QED
        BY <3>3, <4>1, NameInLine DEF Token
    <3> QED
      BY <2>1, <3>4, NameAssumption DEF package, slash
  <2>4. CASE ~IsName(BraceText(line)) /\ tokens = {}
    <3>1. package = NoName
      BY <1>0, <1>3, <2>4
    <3>2. \A i \in DOMAIN line : ~Standalone(line, i)
      BY <2>4, StandaloneIsToken DEF tokens
    <3> QED
      BY <2>1, <3>1, <3>2 DEF package, slash
  <2> QED
    BY <2>2, <2>3, <2>4
<1> QED
  BY <1>2, <1>3

\* A line of any length gives the name before its first slash, gives only what
\* it names, and is never passed over if a name stands alone in it.
THEOREM ExtractsThePackage == Spec => []PackageExtracted
<1>1. InputOK => PackageExtracted
  <2> SUFFICES ASSUME InputOK, function = "text" PROVE PackageExtracted
    BY DEF PackageExtracted
  <2>1. input \in Seq(Character)
    BY DEF InputOK, Piece, Character
  <2> QED
    BY <2>1, ExtractPackage DEF PackageExtracted
<1> QED
  BY <1>1, InputStays, PTL

-----------------------------------------------------------------------------
(* parse_visible_packages_from_dumpsys *)

\* The folds of the functions, as module LeftFold reasons about them.
Visible == INSTANCE LeftFold WITH
  Op <- LAMBDA game, found, l :
          IF \/ Candidate(l) \in Excluded \cup {NoName, game}
             \/ Candidate(l) \in ToSet(found)
          THEN found ELSE Append(found, Candidate(l))

LEMMA VisibleIsFold ==
  ASSUME NEW lines, NEW game
  PROVE  VisiblePackages(lines, game) = Visible!Fold(game, <<>>, lines)
BY DEF VisiblePackages, Visible!Fold, Visible!FoldLeft, FoldLeft,
       Visible!MapThenFoldSet, MapThenFoldSet, Visible!Max, Max

\* The members of a sequence that grows.
LEMMA ToSetAppend ==
  ASSUME NEW T, NEW s \in Seq(T), NEW e \in T
  PROVE  ToSet(Append(s, e)) = ToSet(s) \cup {e}
<1>1. /\ DOMAIN Append(s, e) = 1..Len(s) + 1 /\ DOMAIN s = 1..Len(s)
      /\ \A i \in 1..Len(s) : Append(s, e)[i] = s[i]
      /\ Append(s, e)[Len(s) + 1] = e /\ Len(s) \in Nat
  OBVIOUS
<1>2. ASSUME NEW x PROVE x \in ToSet(Append(s, e)) <=> x \in ToSet(s) \cup {e}
  <2>1. x \in ToSet(Append(s, e)) <=>
          \E i \in 1..Len(s) + 1 : Append(s, e)[i] = x
    BY <1>1 DEF ToSet
  <2>2. x \in ToSet(s) <=> \E i \in 1..Len(s) : s[i] = x
    BY <1>1 DEF ToSet
  <2> QED
    BY <1>1, <2>1, <2>2
<1> QED
  BY <1>2

LEMMA OfThree ==
  ASSUME NEW a, NEW b, NEW c
  PROVE  /\ ToSet(<<a, b, c>>) = {a, b, c}
         /\ \A T : {a, b, c} \subseteq T => <<a, b, c>> \in Seq(T)
<1>1. ToSet(<<a, b, c>>) = {a, b, c}
  BY DEF ToSet
<1> QED
  BY <1>1

\* A record names one package, which is the one that is read.
LEMMA SlashRecord ==
  ASSUME NEW p \in Name
  PROVE  /\ extract_package(<<p, "/", p>>) = p
         /\ ToSet(<<p, "/", p>>) \cap Name = {p}
<1>1. p \in Character /\ "/" \in Character
  BY DEF Character
<1>2. <<p, "/", p>> \in Seq(Character)
  BY <1>1
<1>3. ToSet(<<p, "/", p>>) \cap Name = {p}
  <2>1. ToSet(<<p, "/", p>>) = {p, "/"}
    BY DEF ToSet
  <2> QED
    BY <2>1, NameAssumption
<1>4. 1 \in DOMAIN <<p, "/", p>> /\ Standalone(<<p, "/", p>>, 1)
  BY DEF Standalone
<1> QED
  BY <1>2, <1>3, <1>4, ExtractPackage

LEMMA BraceRecord ==
  ASSUME NEW p \in Name
  PROVE  /\ extract_package(<<"{", p, ",">>) = p
         /\ ToSet(<<"{", p, ",">>) \cap Name = {p}
<1>1. {p, "{", ","} \subseteq Character
  BY DEF Character
<1>2. <<"{", p, ",">> \in Seq(Character)
  BY <1>1, OfThree, Zenon
<1>3. ToSet(<<"{", p, ",">>) \cap Name = {p}
  <2>1. ToSet(<<"{", p, ",">>) = {"{", p, ","}
    BY OfThree, Zenon
  <2> QED
    BY <2>1, NameAssumption
<1>4. 2 \in DOMAIN <<"{", p, ",">> /\ Standalone(<<"{", p, ",">>, 2)
  BY DEF Standalone, TokenEnd
<1> QED
  BY <1>2, <1>3, <1>4, ExtractPackage

\* A line of either kind names one package, which is the one that is read.
LEMMA CandidateNamed ==
  ASSUME NEW l \in Piece["visible"]
  PROVE  /\ Candidate(l) \in Name
         /\ \A p \in Name : p = l.name \/ p \in ToSet(l.text) <=> p = Candidate(l)
<1>1. \/ l.kind = "package" /\ l.name \in Name /\ l.text = <<>>
      \/ /\ l.kind = "record" /\ l.name = NoName
         /\ \E p \in Name : l.text = <<p, "/", p>> \/ l.text = <<"{", p, ",">>
  BY DEF Piece
<1>2. CASE l.kind = "package" /\ l.name \in Name /\ l.text = <<>>
  BY <1>2 DEF Candidate, ToSet
<1>3. ASSUME l.kind = "record", l.name = NoName,
             NEW p \in Name, l.text = <<p, "/", p>> \/ l.text = <<"{", p, ",">>
      PROVE  /\ Candidate(l) \in Name
             /\ \A q \in Name :
                  q = l.name \/ q \in ToSet(l.text) <=> q = Candidate(l)
  <2>2. extract_package(l.text) = p /\ ToSet(l.text) \cap Name = {p}
    BY <1>3, SlashRecord, BraceRecord, Zenon
  <2>5. Candidate(l) = p
    BY <1>3, <2>2 DEF Candidate
  <2> QED
    <3>1. \A q \in Name : q \in ToSet(l.text) <=> q = p
      BY <2>2
    <3>2. \A q \in Name : q # l.name
      BY <1>3, NameAssumption
    <3> QED
      BY <2>5, <3>1, <3>2, Zenon
<1> QED
  BY <1>1, <1>2, <1>3

\* What is found after each line: every visible app so far, once.
LEMMA VisibleFound ==
  ASSUME NEW lines \in Seq(Piece["visible"]), NEW game \in Name
  PROVE  LET found == VisiblePackages(lines, game)
             names == {p \in Name : \E i \in DOMAIN lines :
                         p = lines[i].name \/ p \in ToSet(lines[i].text)}
         IN  /\ ToSet(found) = names \ (Excluded \cup {game})
             /\ Len(found) = Cardinality(ToSet(found))
<1> DEFINE named(k) == {p \in Name : \E i \in 1..k :
                          p = lines[i].name \/ p \in ToSet(lines[i].text)}
           Found(k) == {found \in Seq(Name) :
                          /\ ToSet(found) = named(k) \ (Excluded \cup {game})
                          /\ IsFiniteSet(ToSet(found))
                          /\ Len(found) = Cardinality(ToSet(found))}
           I == [k \in 0..Len(lines) |-> Found(k)]
           Step(found, l) == IF \/ Candidate(l) \in Excluded \cup {NoName, game}
                                \/ Candidate(l) \in ToSet(found)
                             THEN found ELSE Append(found, Candidate(l))
<1>1. <<>> \in Found(0)
  <2>1. ToSet(<<>>) = {} /\ named(0) = {}
    BY DEF ToSet
  <2>2. <<>> \in Seq(Name) /\ Len(<<>>) = 0
    OBVIOUS
  <2> HIDE DEF named
  <2> QED
    BY <2>1, <2>2, FS_EmptySet
<1>2. ASSUME NEW k \in 1..Len(lines), NEW found \in Found(k - 1)
      PROVE  Step(found, lines[k]) \in Found(k)
  <2>1. PICK c \in Name : c = Candidate(lines[k])
    BY CandidateNamed
  <2>2. named(k) = named(k - 1) \cup {c}
    <3>1. \A p \in Name :
            p = lines[k].name \/ p \in ToSet(lines[k].text) <=> p = c
      BY <2>1, CandidateNamed
    <3>2. \A i \in Int : i \in 1..k <=> i \in 1..k - 1 \/ i = k
      OBVIOUS
    <3> QED
      BY <3>1, <3>2
  <2> HIDE DEF named
  <2>3. CASE c \in Excluded \cup {game} \/ c \in ToSet(found)
    <3>1. Step(found, lines[k]) = found
      BY <2>1, <2>3
    <3> QED
      BY <2>2, <2>3, <3>1
  <2>4. CASE ~(c \in Excluded \cup {game} \/ c \in ToSet(found))
    <3>1. Step(found, lines[k]) = Append(found, c)
      BY <2>1, <2>4, NameAssumption
    <3>2. ToSet(Append(found, c)) = ToSet(found) \cup {c}
      BY ToSetAppend
    <3>3. /\ IsFiniteSet(ToSet(found) \cup {c})
          /\ Cardinality(ToSet(found) \cup {c}) = Cardinality(ToSet(found)) + 1
      BY <2>4, FS_AddElement
    <3>4. /\ Append(found, c) \in Seq(Name)
          /\ Len(Append(found, c)) = Len(found) + 1
      OBVIOUS
    <3>5. ToSet(Append(found, c)) = named(k) \ (Excluded \cup {game})
      BY <2>2, <2>4, <3>2
    <3> QED
      BY <3>1, <3>2, <3>3, <3>4, <3>5
  <2> QED
    BY <2>3, <2>4
<1>3. VisiblePackages(lines, game) \in Found(Len(lines))
  <2>1. <<>> \in I[0] /\ \A k \in 1..Len(lines) : \A found \in I[k - 1] :
                           Step(found, lines[k]) \in I[k]
    <3> HIDE DEF Found, Step
    <3> QED
      BY <1>1, <1>2
  <2>2. Visible!Fold(game, <<>>, lines) \in I[Len(lines)]
    <3> HIDE DEF I
    <3> QED
      BY <2>1, Visible!FoldInvariant
  <2> QED
    BY <2>2, VisibleIsFold
<1>4. DOMAIN lines = 1..Len(lines)
  OBVIOUS
<1> QED
  BY <1>3, <1>4

\* Of a dump of any length the whitelist gets every user app that is visible
\* beside the game, once, and neither the game nor the system.
THEOREM WhitelistsTheVisible == Spec => []SecondaryAreUserApps
<1>1. InputOK => SecondaryAreUserApps
  <2> SUFFICES ASSUME InputOK, function = "visible" PROVE SecondaryAreUserApps
    BY DEF SecondaryAreUserApps
  <2>1. input \in Seq(Piece["visible"])
    BY DEF InputOK
  <2> QED
    BY <2>1, VisibleFound DEF SecondaryAreUserApps
<1> QED
  BY <1>1, InputStays, PTL

-----------------------------------------------------------------------------
(* parse_package_categories_from_dumpsys *)

Categories == INSTANCE LeftFold WITH
                Op <- LAMBDA param, state, l : ReadLine(state, l)

LEMMA GamesAreFold ==
  ASSUME NEW dump
  PROVE  GamePackages(dump) =
           Categories!Fold(0, [current |-> NoName, games |-> {}], dump).games
BY DEF GamePackages, Categories!Fold, Categories!FoldLeft, FoldLeft,
       Categories!MapThenFoldSet, MapThenFoldSet, Categories!Max, Max

\* The marks that make a game of a package in the compile queue do so in the
\* event loop, whatever else is printed of the package.
LEMMA MarksAddUp ==
  ASSUME NEW marks, NEW lines, marks \in lines,
         GrepPasses(marks), MeansGame(marks)
  PROVE  MeansGame(UNION {m \in lines : GrepIgnoringCasePasses(m)})
<1>1. marks \subseteq UNION {m \in lines : GrepIgnoringCasePasses(m)}
  BY DEF GrepIgnoringCasePasses
<1> HIDE DEF GrepIgnoringCasePasses
<1> QED
  BY <1>1 DEF MeansGame

\* What is known after each line: the header it belongs to, for every package
\* found so far why it is a game, and that no line said so of another one.
LEMMA GamesFound ==
  ASSUME NEW dump \in Seq(Piece["categories"])
  PROVE  /\ GamePackages(dump) \subseteq Name
         /\ \A p \in Name :
              p \in GamePackages(dump) \cup Named <=> GameByItself(dump, p)
<1> DEFINE Current(k, c) ==
             \/ c = NoName /\ \A j \in 1..k : dump[j].header = NoName
             \/ /\ c # NoName
                /\ \E h \in 1..k : /\ dump[h].header = c
                                   /\ \A j \in h + 1..k : dump[j].header = NoName
           Says(i, q) == /\ i \in OwnLines(dump, q)
                         /\ GrepPasses(dump[i].marks) /\ MeansGame(dump[i].marks)
           Missed(k, games) == \E q \in Name, i \in 1..k : Says(i, q) /\ q \notin games
           Found(k) == {state \in [current : Name \cup {NoName},
                                   games : SUBSET Name] :
                          /\ Current(k, state.current)
                          /\ \A q \in state.games : GameByItself(dump, q)
                          /\ ~Missed(k, state.games)}
           I == [k \in 0..Len(dump) |-> Found(k)]
           base == [current |-> NoName, games |-> {}]
<1>a. DOMAIN dump = 1..Len(dump) /\ Len(dump) \in Nat
  OBVIOUS
<1>b. ASSUME NEW k \in 1..Len(dump), NEW c, Current(k - 1, c),
             dump[k].header = NoName
      PROVE  Current(k, c)
  <2>1. \A h \in 0..k - 1 : \A j \in h + 1..k : j \in h + 1..k - 1 \/ j = k
    BY <1>a
  <2>2. CASE c = NoName
    <3>1. \A j \in 1..k - 1 : dump[j].header = NoName
      BY <1>b, <2>2
    <3>2. \A j \in 1..k : j \in 1..k - 1 \/ j = k
      BY <1>a
    <3> QED
      BY <1>b, <2>2, <3>1, <3>2
  <2>3. CASE c # NoName
    <3>1. PICK h \in 1..k - 1 :
            dump[h].header = c /\ \A j \in h + 1..k - 1 : dump[j].header = NoName
      BY <1>b, <2>3
    <3>2. h \in 1..k /\ h \in 0..k - 1
      BY <1>a
    <3>3. \A j \in h + 1..k : dump[j].header = NoName
      BY <1>b, <2>1, <3>1, <3>2
    <3> QED
      BY <2>3, <3>1, <3>2, <3>3
  <2> QED
    BY <2>2, <2>3
<1>c. ASSUME NEW k \in 1..Len(dump), NEW c, Current(k - 1, c), NEW q \in Name,
             k \in OwnLines(dump, q)
      PROVE  q = c
  <2>1. PICK h \in 1..k - 1 :
          dump[h].header = q /\ \A j \in h + 1..k - 1 : dump[j].header = NoName
    BY <1>c DEF OwnLines
  <2>2. q # NoName
    BY NameAssumption
  <2>3. c # NoName
    BY <1>c, <2>1, <2>2
  <2>4. PICK g \in 1..k - 1 :
          dump[g].header = c /\ \A j \in g + 1..k - 1 : dump[j].header = NoName
    BY <1>c, <2>3
  <2>5. g \in Int /\ h \in Int /\ g <= k - 1 /\ h <= k - 1 /\ k \in Int
    BY <1>a
  <2>6. ~(g < h) /\ ~(h < g)
    <3>1. g < h => h \in g + 1..k - 1
      BY <2>5
    <3>2. h < g => g \in h + 1..k - 1
      BY <2>5
    <3> QED
      BY <2>1, <2>2, <2>3, <2>4, <3>1, <3>2
  <2> QED
    BY <2>1, <2>4, <2>5, <2>6
<1>1. base \in Found(0)
  OBVIOUS
<1>2. ASSUME NEW k \in 1..Len(dump), NEW state \in Found(k - 1)
      PROVE  ReadLine(state, dump[k]) \in Found(k)
  <2>1. dump[k].header \in Name \cup {NoName}
    BY DEF Piece
  <2>2. \A j \in 1..k : j \in 1..k - 1 \/ j = k
    BY <1>a
  <2>3. /\ state \in [current : Name \cup {NoName}, games : SUBSET Name]
        /\ Current(k - 1, state.current)
        /\ \A q \in state.games : GameByItself(dump, q)
        /\ ~Missed(k - 1, state.games)
    OBVIOUS
  <2> HIDE DEF Found
  <2>4. CASE dump[k].header # NoName
    <3> DEFINE games == state.games \cup ({dump[k].header} \cap Named)
    <3>1. ReadLine(state, dump[k]) = [current |-> dump[k].header, games |-> games]
      BY <2>4 DEF ReadLine
    <3>2. Current(k, dump[k].header)
      BY <1>a, <2>4
    <3>3. \A q \in games : GameByItself(dump, q)
      BY <2>3 DEF GameByItself
    <3>4. games \in SUBSET Name
      <4> HIDE DEF Current, Missed
      <4> QED
        BY <2>1, <2>3, <2>4
    <3>5. ~Missed(k, games)
      <4>1. \A q : ~Says(k, q)
        BY <2>4 DEF OwnLines
      <4> HIDE DEF Says, Current
      <4> QED
        BY <2>2, <2>3, <4>1
    <3> HIDE DEF Current, Missed, games
    <3>6. [current |-> dump[k].header, games |-> games] \in Found(k)
      BY <2>1, <3>2, <3>3, <3>4, <3>5 DEF Found
    <3> QED
      BY <3>1, <3>6
  <2>5. CASE dump[k].header = NoName
    <3>1. Current(k, state.current)
      <4> HIDE DEF Current
      <4> QED
        BY <1>b, <2>3, <2>5
    <3>2. \A q \in Name : k \in OwnLines(dump, q) => q = state.current
      <4> HIDE DEF Current
      <4> QED
        BY <1>c, <2>3
    <3> HIDE DEF Current
    <3>3. CASE /\ GrepPasses(dump[k].marks) /\ MeansGame(dump[k].marks)
               /\ state.current # NoName
      <4> DEFINE games == state.games \cup {state.current}
      <4>1. ReadLine(state, dump[k]) = [state EXCEPT !.games = games]
        BY <2>5, <3>3 DEF ReadLine
      <4>2. k \in OwnLines(dump, state.current)
        BY <1>a, <2>3, <2>5, <3>3 DEF OwnLines, Current
      <4>3. \A q \in games : GameByItself(dump, q)
        BY <2>3, <3>3, <4>2 DEF GameByItself
      <4>4. games \in SUBSET Name
        <5> HIDE DEF Missed
        <5> QED
          BY <2>3, <3>3
      <4>5. ~Missed(k, games)
        BY <2>2, <2>3, <3>2
      <4> HIDE DEF games, Missed
      <4>6. [state EXCEPT !.games = games] \in Found(k)
        BY <2>3, <3>1, <4>3, <4>4, <4>5 DEF Found
      <4> QED
        BY <4>1, <4>6
    <3>4. CASE ~(/\ GrepPasses(dump[k].marks) /\ MeansGame(dump[k].marks)
                 /\ state.current # NoName)
      <4>1. ReadLine(state, dump[k]) = state
        BY <2>5, <3>4 DEF ReadLine
      <4>2. \A q \in Name : ~Says(k, q)
        BY <3>2, <3>4, NameAssumption
      <4>3. ~Missed(k, state.games)
        <5> HIDE DEF Says
        <5> QED
          BY <2>2, <2>3, <4>2
      <4> HIDE DEF Missed
      <4> QED
        BY <2>3, <3>1, <4>1, <4>3 DEF Found
    <3> QED
      BY <3>3, <3>4
  <2> QED
    BY <2>1, <2>4, <2>5
<1>3. Categories!Fold(0, base, dump) \in Found(Len(dump))
  <2>1. base \in I[0] /\ \A k \in 1..Len(dump) : \A state \in I[k - 1] :
                           ReadLine(state, dump[k]) \in I[k]
    <3> HIDE DEF Found, base
    <3> QED
      BY <1>1, <1>2
  <2>2. Categories!Fold(0, base, dump) \in I[Len(dump)]
    <3> HIDE DEF I, base
    <3> QED
      BY <2>1, Categories!FoldInvariant
  <2>3. Len(dump) \in 0..Len(dump)
    OBVIOUS
  <2> HIDE DEF Found, base
  <2> QED
    BY <2>2, <2>3
<1>4. \A p \in GamePackages(dump) : GameByItself(dump, p)
  <2> HIDE DEF Missed, Current
  <2> QED
    BY <1>3, GamesAreFold
<1>5. ASSUME NEW p \in Name, GameByItself(dump, p), p \notin Named
      PROVE  p \in GamePackages(dump)
  <2>1. ~Missed(Len(dump), GamePackages(dump))
    <3> HIDE DEF Missed, Current
    <3> QED
      BY <1>3, GamesAreFold
  <2>2. PICK i : Says(i, p)
    BY <1>5 DEF GameByItself
  <2>3. i \in 1..Len(dump)
    BY <2>2 DEF OwnLines
  <2> HIDE DEF Says
  <2> QED
    BY <2>1, <2>2, <2>3
<1>6. \A p \in Named : GameByItself(dump, p)
  BY DEF GameByItself
<1>7. GamePackages(dump) \subseteq Name
  <2> HIDE DEF Missed, Current
  <2> QED
    BY <1>3, GamesAreFold
<1> QED
  BY <1>4, <1>5, <1>6, <1>7

\* In a dump of any length a package that is compiled as a game is one for
\* which the event loop suspends the compiler.
THEOREM GamesSuspend == Spec => []PrioritizedIsSuspended
<1>1. InputOK => PrioritizedIsSuspended
  <2> SUFFICES ASSUME InputOK, function = "categories",
                      NEW p \in GamePackages(input)
               PROVE  IsGame(p, {input[i].marks : i \in OwnLines(input, p)})
    BY DEF PrioritizedIsSuspended
  <2>1. input \in Seq(Piece["categories"])
    BY DEF InputOK
  <2>2. GameByItself(input, p)
    BY <2>1, GamesFound
  <2>3. ASSUME NEW i \in OwnLines(input, p),
               GrepPasses(input[i].marks), MeansGame(input[i].marks)
        PROVE  IsGame(p, {input[j].marks : j \in OwnLines(input, p)})
    BY <2>3, MarksAddUp DEF IsGame
  <2>4. p \in Named => IsGame(p, {input[j].marks : j \in OwnLines(input, p)})
    BY DEF IsGame
  <2> QED
    BY <2>2, <2>3, <2>4 DEF GameByItself
<1> QED
  BY <1>1, InputStays, PTL

-----------------------------------------------------------------------------
(* discover_packages *)

Filtering == INSTANCE LeftFold WITH
          Op <- LAMBDA set, kept, e : IF e \in set THEN Append(kept, e) ELSE kept

LEMMA KeepIsFold ==
  ASSUME NEW s, NEW set
  PROVE  Keep(s, set) = Filtering!Fold(set, <<>>, s)
BY DEF Keep, Filtering!Fold, Filtering!FoldLeft, FoldLeft,
       Filtering!MapThenFoldSet, MapThenFoldSet, Filtering!Max, Max

\* Keeping loses and repeats nothing that is kept, and keeps its order.
LEMMA KeepIs ==
  ASSUME NEW T, NEW s \in Seq(T), NEW set
  PROVE  /\ Keep(s, set) \in Seq(T)
         /\ ToSet(Keep(s, set)) = ToSet(s) \cap set
         /\ \A x, y \in set : Before(s, x, y) => Before(Keep(s, set), x, y)
         /\ IsInjective(s) => IsInjective(Keep(s, set))
<1> DEFINE Elements(k, r) ==
             \A x : x \in ToSet(r) <=> x \in set /\ \E i \in 1..k : s[i] = x
           Ordered(k, r) ==
             \A i, j \in 1..k :
               i < j /\ s[i] \in set /\ s[j] \in set => Before(r, s[i], s[j])
           Once(r) == IsInjective(s) => IsInjective(r)
           Found(k) == {r \in Seq(T) : Elements(k, r) /\ Ordered(k, r) /\ Once(r)}
           I == [k \in 0..Len(s) |-> Found(k)]
           Op(r, e) == IF e \in set THEN Append(r, e) ELSE r
<1>1. Len(s) \in Nat /\ DOMAIN s = 1..Len(s) /\ \A k \in 1..Len(s) : s[k] \in T
  OBVIOUS
<1>2. <<>> \in Found(0)
  BY DEF ToSet, IsInjective
<1>3. ASSUME NEW k \in 1..Len(s), NEW r \in Found(k - 1)
      PROVE  Op(r, s[k]) \in Found(k)
  <2>1. r \in Seq(T) /\ Elements(k - 1, r) /\ Ordered(k - 1, r) /\ Once(r)
    OBVIOUS
  <2>2. \A i \in 1..k : i \in 1..k - 1 \/ i = k
    BY <1>1
  <2>3. k \in 1..k /\ \A i \in 1..k - 1 : i \in 1..k /\ i # k /\ i \in 1..Len(s)
    BY <1>1
  <2>a. \A i, j \in 1..k : i < j => i \in 1..k - 1
    BY <1>1
  <2> HIDE DEF Found
  <2>4. CASE s[k] \notin set
    <3>1. Elements(k, r)
      BY <2>1, <2>2, <2>3, <2>4
    <3>2. Ordered(k, r)
      <4> HIDE DEF Elements, Once
      <4> QED
        BY <2>1, <2>2, <2>4
    <3> QED
      BY <2>1, <2>4, <3>1, <3>2 DEF Found
  <2>5. CASE s[k] \in set
    <3> DEFINE q == Append(r, s[k])
               n == Len(r)
    <3>1. /\ n \in Nat /\ q \in Seq(T) /\ Len(q) = n + 1
          /\ \A i \in 1..n : q[i] = r[i]
          /\ q[n + 1] = s[k]
          /\ DOMAIN q = 1..n + 1 /\ DOMAIN r = 1..n
      BY <1>1, <2>1
    <3> HIDE DEF q, n
    <3>2. \A i \in 1..n + 1 : i \in 1..n \/ i = n + 1
      BY <3>1
    <3>3. ToSet(q) = ToSet(r) \cup {s[k]}
      BY <3>1, <3>2 DEF ToSet
    <3>4. Elements(k, q)
      <4> HIDE DEF Ordered, Once
      <4> QED
        BY <2>1, <2>2, <2>3, <2>5, <3>3
    <3>5. Ordered(k, q)
      <4> SUFFICES ASSUME NEW i \in 1..k, NEW j \in 1..k, i < j,
                          s[i] \in set, s[j] \in set
                   PROVE  Before(q, s[i], s[j])
        OBVIOUS
      <4>1. i \in 1..k - 1
        BY <2>a
      <4>2. CASE j = k
        <5>1. s[i] \in ToSet(r)
          BY <2>1, <4>1
        <5>2. PICK a \in 1..n : r[a] = s[i]
          BY <3>1, <5>1 DEF ToSet
        <5>3. a < n + 1 /\ a \in DOMAIN q /\ n + 1 \in DOMAIN q
          BY <3>1
        <5> QED
          BY <3>1, <4>2, <5>2, <5>3 DEF Before
      <4>3. CASE j \in 1..k - 1
        <5>1. Before(r, s[i], s[j])
          BY <2>1, <4>1, <4>3
        <5>2. PICK a, b \in 1..n : a < b /\ r[a] = s[i] /\ r[b] = s[j]
          BY <3>1, <5>1 DEF Before
        <5>3. a \in DOMAIN q /\ b \in DOMAIN q
          BY <3>1
        <5> QED
          BY <3>1, <5>2, <5>3 DEF Before
      <4> QED
        BY <2>2, <4>2, <4>3
    <3>6. Once(q)
      <4> SUFFICES ASSUME IsInjective(s) PROVE IsInjective(q)
        OBVIOUS
      <4>1. s[k] \notin ToSet(r)
        BY <1>1, <2>1, <2>3 DEF IsInjective
      <4>2. IsInjective(r)
        BY <2>1
      <4>3. \A i \in 1..n : r[i] \in ToSet(r)
        BY <3>1 DEF ToSet
      <4> QED
        BY <3>1, <3>2, <4>1, <4>2, <4>3 DEF IsInjective
    <3>7. q \in Found(k)
      <4> HIDE DEF Elements, Ordered, Once
      <4> QED
        BY <3>1, <3>4, <3>5, <3>6 DEF Found
    <3> QED
      BY <2>5, <3>7 DEF q
  <2> QED
    BY <2>4, <2>5
<1>4. Keep(s, set) \in Found(Len(s))
  <2>1. <<>> \in I[0] /\ \A k \in 1..Len(s) : \A r \in I[k - 1] :
                           Op(r, s[k]) \in I[k]
    <3> HIDE DEF Found, Op
    <3> QED
      BY <1>1, <1>2, <1>3
  <2>2. Filtering!Fold(set, <<>>, s) \in I[Len(s)]
    <3> HIDE DEF I
    <3> QED
      BY <2>1, Filtering!FoldInvariant
  <2> HIDE DEF Found
  <2> QED
    BY <1>1, <2>2, KeepIsFold
<1>5. /\ Keep(s, set) \in Seq(T) /\ Elements(Len(s), Keep(s, set))
      /\ Ordered(Len(s), Keep(s, set)) /\ Once(Keep(s, set))
  <2> HIDE DEF Elements, Ordered, Once
  <2> QED
    BY <1>4
<1>6. ToSet(Keep(s, set)) = ToSet(s) \cap set
  BY <1>1, <1>5 DEF ToSet
<1>7. \A x, y \in set : Before(s, x, y) => Before(Keep(s, set), x, y)
  <2> HIDE DEF Elements, Once
  <2> QED
    BY <1>1, <1>5 DEF Before
<1> QED
  BY <1>5, <1>6, <1>7

\* The same of two lists one after the other.
LEMMA ConcatIs ==
  ASSUME NEW T, NEW r \in Seq(T), NEW s \in Seq(T)
  PROVE  /\ r \o s \in Seq(T)
         /\ ToSet(r \o s) = ToSet(r) \cup ToSet(s)
         /\ \A x, y : \/ Before(r, x, y) \/ Before(s, x, y)
                      \/ x \in ToSet(r) /\ y \in ToSet(s)
                      => Before(r \o s, x, y)
         /\ /\ IsInjective(r) /\ IsInjective(s)
            /\ ToSet(r) \cap ToSet(s) = {}
            => IsInjective(r \o s)
<1> DEFINE m == Len(r)
           n == Len(s)
           both == r \o s
<1>1. /\ m \in Nat /\ n \in Nat /\ both \in Seq(T)
      /\ DOMAIN r = 1..m /\ DOMAIN s = 1..n /\ DOMAIN both = 1..m + n
      /\ \A i \in 1..m : both[i] = r[i]
      /\ \A i \in 1..n : both[m + i] = s[i]
  OBVIOUS
<1> HIDE DEF m, n, both
<1>2. /\ \A i \in 1..m : i \in 1..m + n
      /\ \A i \in 1..n : m + i \in 1..m + n
      /\ \A i \in 1..m + n : i \in 1..m \/ (i - m \in 1..n /\ i = m + (i - m))
  BY <1>1
<1>3. ToSet(both) = ToSet(r) \cup ToSet(s)
  <2>1. ASSUME NEW x \in ToSet(both) PROVE x \in ToSet(r) \cup ToSet(s)
    <3>1. PICK i \in 1..m + n : both[i] = x
      BY <1>1 DEF ToSet
    <3> QED
      BY <1>1, <1>2, <3>1 DEF ToSet
  <2>2. ASSUME NEW x \in ToSet(r) PROVE x \in ToSet(both)
    BY <1>1, <1>2 DEF ToSet
  <2>3. ASSUME NEW x \in ToSet(s) PROVE x \in ToSet(both)
    BY <1>1, <1>2 DEF ToSet
  <2> QED
    BY <2>1, <2>2, <2>3
<1>4. ASSUME NEW x, NEW y, Before(r, x, y) PROVE Before(both, x, y)
  <2>1. PICK i, j \in 1..m : i < j /\ r[i] = x /\ r[j] = y
    BY <1>1, <1>4 DEF Before
  <2> QED
    BY <1>1, <1>2, <2>1 DEF Before
<1>5. ASSUME NEW x, NEW y, Before(s, x, y) PROVE Before(both, x, y)
  <2>1. PICK i, j \in 1..n : i < j /\ s[i] = x /\ s[j] = y
    BY <1>1, <1>5 DEF Before
  <2>2. m + i < m + j
    BY <1>1, <2>1
  <2> QED
    BY <1>1, <1>2, <2>1, <2>2 DEF Before
<1>6. ASSUME NEW x \in ToSet(r), NEW y \in ToSet(s) PROVE Before(both, x, y)
  <2>1. PICK i \in 1..m : r[i] = x
    BY <1>1 DEF ToSet
  <2>2. PICK j \in 1..n : s[j] = y
    BY <1>1 DEF ToSet
  <2>3. i < m + j
    BY <1>1
  <2> QED
    BY <1>1, <1>2, <2>1, <2>2, <2>3 DEF Before
<1>7. ASSUME IsInjective(r), IsInjective(s), ToSet(r) \cap ToSet(s) = {}
      PROVE  IsInjective(both)
  <2> SUFFICES ASSUME NEW i \in 1..m + n, NEW j \in 1..m + n, both[i] = both[j]
               PROVE  i = j
    BY <1>1 DEF IsInjective
  <2>1. /\ \A a \in 1..m : r[a] \in ToSet(r)
        /\ \A a \in 1..n : s[a] \in ToSet(s)
    BY <1>1 DEF ToSet
  <2>2. CASE i \in 1..m /\ j \in 1..m
    BY <1>1, <1>7, <2>2 DEF IsInjective
  <2>3. CASE i - m \in 1..n /\ j - m \in 1..n
    <3>1. s[i - m] = s[j - m]
      BY <1>1, <1>2, <2>3
    <3>2. i - m = j - m
      BY <1>1, <1>7, <2>3, <3>1 DEF IsInjective
    <3> QED
      BY <1>1, <3>2
  <2>4. ASSUME NEW a \in 1..m, NEW b \in 1..n PROVE both[a] # both[m + b]
    <3>1. both[a] \in ToSet(r) /\ both[m + b] \in ToSet(s)
      BY <1>1, <2>1
    <3> QED
      BY <1>7, <3>1
  <2>5. CASE i \in 1..m /\ j - m \in 1..n
    <3>1. PICK b \in 1..n : j = m + b
      BY <1>1, <2>5
    <3> QED
      BY <2>4, <2>5, <3>1
  <2>6. CASE i - m \in 1..n /\ j \in 1..m
    <3>1. PICK b \in 1..n : i = m + b
      BY <1>1, <2>6
    <3> QED
      BY <2>4, <2>6, <3>1
  <2> QED
    BY <1>2, <2>2, <2>3, <2>5, <2>6
<1> QED
  BY <1>1, <1>3, <1>4, <1>5, <1>6, <1>7 DEF both

\* A sequence as long as a set has elements lists each of them once, if it
\* repeats none.
LEMMA ListsOnce ==
  ASSUME NEW set, IsFiniteSet(set), NEW list \in [1..Cardinality(set) -> set],
         IsInjective(list)
  PROVE  list \in Seq(set) /\ ToSet(list) = set
<1> DEFINE n == Cardinality(set)
<1>1. n \in Nat /\ IsFiniteSet(1..n) /\ Cardinality(1..n) = n
  BY FS_CardinalityType, FS_Interval
<1>2. list \in Injection(1..n, set)
  BY DEF Injection
<1>3. list \in Surjection(1..n, set)
  <2> HIDE DEF n
  <2>1. Cardinality(1..n) = Cardinality(set)
    BY <1>1 DEF n
  <2> QED
    BY <1>2, <2>1, FS_Injection
<1>4. \A x \in set : \E i \in 1..n : list[i] = x
  BY <1>3 DEF Surjection
<1>5. DOMAIN list = 1..n /\ \A i \in 1..n : list[i] \in set
  OBVIOUS
<1> HIDE DEF n
<1>6. list \in Seq(set)
  <2>1. list = [i \in 1..n |-> list[i]]
    BY DEF n
  <2> QED
    BY <1>1, <1>5, <2>1
<1> QED
  BY <1>4, <1>5, <1>6 DEF ToSet

LEMMA SystemListed ==
  SetToSeq(Safe) \in Seq(Safe) /\ ToSet(SetToSeq(Safe)) = Safe /\
  IsInjective(SetToSeq(Safe))
<1>1. IsFiniteSet(Safe)
  BY NameAssumption, FS_Subset
<1>2. \E f \in [1..Cardinality(Safe) -> Safe] : IsInjective(f)
  BY <1>1, FS_CardinalityType DEF ExistsBijection, Bijection, Injection
<1>3. /\ SetToSeq(Safe) \in [1..Cardinality(Safe) -> Safe]
      /\ IsInjective(SetToSeq(Safe))
  BY <1>2 DEF SetToSeq
<1> QED
  BY <1>1, <1>3, ListsOnce

\* The sort keeps every target once, puts the categories in their order and
\* keeps the order within each.
LEMMA SortedIs ==
  ASSUME NEW T, NEW targets \in Seq(T), IsInjective(targets),
         \A t \in ToSet(targets) : t.category \in {"Game", "UserApp", "SystemSafe"}
  PROVE  LET queue == SortByCategory(targets)
             Goes(x, y) == \/ x.category = "Game" /\ y.category # "Game"
                           \/ x.category = "UserApp" /\ y.category = "SystemSafe"
                           \/ x.category = y.category /\ Before(targets, x, y)
         IN  /\ queue \in Seq(T) /\ IsInjective(queue)
             /\ ToSet(queue) = ToSet(targets)
             /\ \A x, y \in ToSet(targets) : Goes(x, y) => Before(queue, x, y)
<1> DEFINE In(c) == {t \in ToSet(targets) : t.category = c}
           a == Keep(targets, In("Game"))
           b == Keep(targets, In("UserApp"))
           d == Keep(targets, In("SystemSafe"))
<1>1. SortByCategory(targets) = a \o b \o d
  BY DEF SortByCategory, Category
<1>2. ASSUME NEW c
      PROVE  /\ Keep(targets, In(c)) \in Seq(T)
             /\ ToSet(Keep(targets, In(c))) = In(c)
             /\ IsInjective(Keep(targets, In(c)))
             /\ \A x, y \in In(c) : Before(targets, x, y) =>
                                      Before(Keep(targets, In(c)), x, y)
  <2> DEFINE set == In(c)
  <2>1. ToSet(targets) \cap set = set
    OBVIOUS
  <2> HIDE DEF set
  <2> QED
    BY <2>1, KeepIs DEF set
<1>3. /\ a \in Seq(T) /\ b \in Seq(T) /\ d \in Seq(T)
      /\ ToSet(a) = In("Game") /\ ToSet(b) = In("UserApp")
      /\ ToSet(d) = In("SystemSafe")
      /\ IsInjective(a) /\ IsInjective(b) /\ IsInjective(d)
      /\ \A x, y \in In("Game") : Before(targets, x, y) => Before(a, x, y)
      /\ \A x, y \in In("UserApp") : Before(targets, x, y) => Before(b, x, y)
      /\ \A x, y \in In("SystemSafe") : Before(targets, x, y) => Before(d, x, y)
  BY <1>2
<1> HIDE DEF a, b, d
<1>4. ToSet(targets) = In("Game") \cup In("UserApp") \cup In("SystemSafe")
  OBVIOUS
<1>5. /\ In("Game") \cap In("UserApp") = {}
      /\ (In("Game") \cup In("UserApp")) \cap In("SystemSafe") = {}
  OBVIOUS
<1> DEFINE ab == a \o b
<1>6. /\ ab \in Seq(T) /\ ToSet(ab) = In("Game") \cup In("UserApp")
      /\ IsInjective(ab)
      /\ \A x, y : \/ Before(a, x, y) \/ Before(b, x, y)
                   \/ x \in ToSet(a) /\ y \in ToSet(b)
                   => Before(ab, x, y)
  <2> HIDE DEF In
  <2> QED
    BY <1>3, <1>5, ConcatIs
<1> HIDE DEF ab
<1>7. /\ ab \o d \in Seq(T) /\ IsInjective(ab \o d)
      /\ ToSet(ab \o d) = In("Game") \cup In("UserApp") \cup In("SystemSafe")
      /\ \A x, y : \/ Before(ab, x, y) \/ Before(d, x, y)
                   \/ x \in ToSet(ab) /\ y \in ToSet(d)
                   => Before(ab \o d, x, y)
  <2> HIDE DEF In
  <2> QED
    BY <1>3, <1>5, <1>6, ConcatIs
<1> DEFINE queue == ab \o d
<1> HIDE DEF queue
<1>8. ASSUME NEW x \in ToSet(targets), NEW y \in ToSet(targets),
             \/ x.category = "Game" /\ y.category # "Game"
             \/ x.category = "UserApp" /\ y.category = "SystemSafe"
             \/ x.category = y.category /\ Before(targets, x, y)
      PROVE  Before(queue, x, y)
  <2>1. x \in In(x.category) /\ y \in In(y.category)
    OBVIOUS
  <2>2. /\ x.category \in {"Game", "UserApp", "SystemSafe"}
        /\ y.category \in {"Game", "UserApp", "SystemSafe"}
    OBVIOUS
  <2>3. CASE x.category = "Game" /\ y.category = "UserApp"
    <3>1. x \in In("Game") /\ y \in In("UserApp")
      BY <2>1, <2>3
    <3> HIDE DEF In
    <3> QED
      BY <1>3, <1>6, <1>7, <3>1 DEF queue
  <2>4. CASE x.category \in {"Game", "UserApp"} /\ y.category = "SystemSafe"
    <3>1. x \in In("Game") \cup In("UserApp") /\ y \in In("SystemSafe")
      BY <2>1, <2>4
    <3> HIDE DEF In
    <3> QED
      BY <1>3, <1>6, <1>7, <3>1 DEF queue
  <2>5. CASE x.category = y.category /\ Before(targets, x, y)
    <3>1. \/ x \in In("Game") /\ y \in In("Game")
          \/ x \in In("UserApp") /\ y \in In("UserApp")
          \/ x \in In("SystemSafe") /\ y \in In("SystemSafe")
      BY <2>1, <2>2, <2>5
    <3> HIDE DEF In
    <3> QED
      BY <1>3, <1>6, <1>7, <2>5, <3>1 DEF queue
  <2> QED
    BY <1>8, <2>2, <2>3, <2>4, <2>5
<1>9. SortByCategory(targets) = queue
  BY <1>1 DEF queue, ab
<1>10. queue \in Seq(T) /\ IsInjective(queue) /\ ToSet(queue) = ToSet(targets)
  <2> HIDE DEF In
  <2> QED
    BY <1>4, <1>7 DEF queue
<1> QED
  BY <1>8, <1>9, <1>10

\* The target of a package that is listed.
TargetOf(p, games) ==
  IF p \in Safe THEN [package |-> p, category |-> "SystemSafe"]
  ELSE UserTarget(p, games)

\* What is listed makes one target of each package, in the order listed.
LEMMA TargetsAre ==
  ASSUME NEW dump, NEW user \in Seq(Name \ Safe), ToSet(user) = Name \ Safe,
         IsInjective(user)
  PROVE  LET targets == Targets(dump, user, SetToSeq(Safe))
             Target(p) == TargetOf(p, GamePackages(dump))
         IN  /\ targets \in Seq({Target(p) : p \in Name})
             /\ ToSet(targets) = {Target(p) : p \in Name}
             /\ IsInjective(targets)
             /\ \A p, q \in Name \ Safe :
                  Before(user, p, q) => Before(targets, Target(p), Target(q))
<1> DEFINE games == GamePackages(dump)
           system == SetToSeq(Safe)
           listed == Keep(user, Name)
           safe == Keep(system, Safe)
           a == [i \in DOMAIN listed |-> UserTarget(listed[i], games)]
           b == [i \in DOMAIN safe |->
                   [package |-> safe[i], category |-> "SystemSafe"]]
           Target(p) == TargetOf(p, games)
           T == {Target(p) : p \in Name}
<1>1. Targets(dump, user, system) = a \o b
  BY DEF Targets
<1>2. /\ listed \in Seq(Name \ Safe) /\ ToSet(listed) = Name \ Safe
      /\ IsInjective(listed)
      /\ \A p, q \in Name : Before(user, p, q) => Before(listed, p, q)
  <2>1. (Name \ Safe) \cap Name = Name \ Safe
    OBVIOUS
  <2> QED
    BY <2>1, KeepIs
<1>3. safe \in Seq(Safe) /\ ToSet(safe) = Safe /\ IsInjective(safe)
  <2>1. Safe \cap Safe = Safe
    OBVIOUS
  <2>2. system \in Seq(Safe) /\ ToSet(system) = Safe /\ IsInjective(system)
    BY SystemListed
  <2> HIDE DEF system
  <2>3. /\ safe \in Seq(Safe) /\ ToSet(safe) = ToSet(system) \cap Safe
        /\ IsInjective(system) => IsInjective(safe)
    BY <2>2, KeepIs
  <2> QED
    BY <2>1, <2>2, <2>3
<1> HIDE DEF listed, safe, system, games
<1>4. /\ Len(listed) \in Nat /\ DOMAIN listed = 1..Len(listed)
      /\ \A i \in 1..Len(listed) : listed[i] \in Name \ Safe
      /\ Len(safe) \in Nat /\ DOMAIN safe = 1..Len(safe)
      /\ \A i \in 1..Len(safe) : safe[i] \in Safe
  BY <1>2, <1>3
<1>5. Safe \subseteq Name
  BY NameAssumption
<1>6. /\ \A i \in 1..Len(listed) : a[i] = Target(listed[i])
      /\ \A i \in 1..Len(safe) : b[i] = Target(safe[i])
      /\ DOMAIN a = 1..Len(listed) /\ DOMAIN b = 1..Len(safe)
  BY <1>4 DEF TargetOf
<1>7. \A p, q : Target(p) = Target(q) => p = q
  BY DEF TargetOf, UserTarget
<1>8. a \in Seq(T) /\ b \in Seq(T)
  <2>1. \A i \in 1..Len(listed) : a[i] \in T
    <3> HIDE DEF a, Target
    <3> QED
      BY <1>4, <1>6
  <2>2. \A i \in 1..Len(safe) : b[i] \in T
    <3> HIDE DEF b, Target
    <3> QED
      BY <1>4, <1>5, <1>6
  <2>3. a = [i \in 1..Len(listed) |-> a[i]] /\ b = [i \in 1..Len(safe) |-> b[i]]
    BY <1>4
  <2> HIDE DEF a, b, T
  <2> QED
    BY <1>4, <2>1, <2>2, <2>3
<1> HIDE DEF a, b
<1>9. /\ ToSet(a) = {Target(p) : p \in Name \ Safe}
      /\ ToSet(b) = {Target(p) : p \in Safe}
  <2> HIDE DEF Target
  <2>1. \A p \in Name \ Safe : \E i \in 1..Len(listed) : listed[i] = p
    BY <1>2, <1>4 DEF ToSet
  <2>2. \A p \in Safe : \E i \in 1..Len(safe) : safe[i] = p
    BY <1>3, <1>4 DEF ToSet
  <2>3. ToSet(a) = {a[i] : i \in 1..Len(listed)}
        /\ ToSet(b) = {b[i] : i \in 1..Len(safe)}
    BY <1>6 DEF ToSet
  <2>4. ToSet(a) = {Target(p) : p \in Name \ Safe}
    BY <1>4, <1>6, <2>1, <2>3
  <2>5. ToSet(b) = {Target(p) : p \in Safe}
    BY <1>4, <1>6, <2>2, <2>3
  <2> QED
    BY <2>4, <2>5
<1>10. IsInjective(a) /\ IsInjective(b)
  <2> HIDE DEF Target
  <2> QED
    BY <1>2, <1>3, <1>4, <1>6, <1>7 DEF IsInjective
<1>11. ToSet(a) \cap ToSet(b) = {}
  <2> HIDE DEF Target
  <2> QED
    BY <1>7, <1>9
<1>12. ASSUME NEW p \in Name \ Safe, NEW q \in Name \ Safe, Before(user, p, q)
       PROVE  Before(a, Target(p), Target(q))
  <2> HIDE DEF Target
  <2>1. PICK i, j \in 1..Len(listed) : i < j /\ listed[i] = p /\ listed[j] = q
    BY <1>2, <1>4, <1>12 DEF Before
  <2> QED
    BY <1>6, <2>1 DEF Before
<1>13. ToSet(a) \cup ToSet(b) = T
  <2> HIDE DEF Target
  <2> QED
    BY <1>5, <1>9
<1> DEFINE both == a \o b
<1>14. /\ both \in Seq(T) /\ ToSet(both) = ToSet(a) \cup ToSet(b)
       /\ IsInjective(both)
       /\ \A x, y : Before(a, x, y) => Before(both, x, y)
  <2> HIDE DEF T
  <2> QED
    BY <1>8, <1>10, <1>11, ConcatIs
<1> HIDE DEF both, T
<1>15. Targets(dump, user, SetToSeq(Safe)) = both
  BY <1>1 DEF both, system
<1>16. \A p, q \in Name \ Safe :
         Before(user, p, q) => Before(both, Target(p), Target(q))
  BY <1>12, <1>14
<1>17. both \in Seq(T) /\ ToSet(both) = T /\ IsInjective(both)
  BY <1>13, <1>14
<1> QED
  BY <1>15, <1>16, <1>17 DEF T, games

\* Whatever is printed of the packages and in whatever order the apps are
\* listed, games come before other apps and those before the system.
THEOREM GamesGoFirst == Spec => []GamesFirst
<1>1. InputOK => GamesFirst
  <2> SUFFICES ASSUME InputOK, function = "categories",
                      NEW user \in SetToSeqs(Name \ Safe)
               PROVE  LET queue == discover_packages(input, user, SetToSeq(Safe))
                          packages == [i \in DOMAIN queue |-> queue[i].package]
                          rank(p) == IF p \in Safe THEN 3
                                     ELSE IF GameByItself(input, p) THEN 1 ELSE 2
                      IN  /\ ToSet(packages) = Name
                          /\ Len(packages) = Cardinality(Name)
                          /\ \A p, q \in Name :
                               \/ rank(p) < rank(q)
                               \/ /\ rank(p) = rank(q) /\ p \notin Safe
                                  /\ Before(user, p, q)
                               => Before(packages, p, q)
    BY DEF GamesFirst
  <2> DEFINE games == GamePackages(input)
             targets == Targets(input, user, SetToSeq(Safe))
             queue == SortByCategory(targets)
             packages == [i \in DOMAIN queue |-> queue[i].package]
             rank(p) == IF p \in Safe THEN 3
                        ELSE IF GameByItself(input, p) THEN 1 ELSE 2
             Target(p) == TargetOf(p, games)
             T == {Target(p) : p \in Name}
  <2>1. discover_packages(input, user, SetToSeq(Safe)) = queue
    BY DEF discover_packages
  <2>2. /\ user \in Seq(Name \ Safe) /\ ToSet(user) = Name \ Safe
        /\ IsInjective(user)
    <3>1. IsFiniteSet(Name \ Safe)
      BY NameAssumption, FS_Difference
    <3>2. user \in [1..Cardinality(Name \ Safe) -> Name \ Safe]
      BY DEF SetToSeqs
    <3>3. IsInjective(user)
      BY <3>2 DEF SetToSeqs, IsInjective
    <3> QED
      BY <3>1, <3>2, <3>3, ListsOnce
  <2>3. /\ targets \in Seq(T) /\ ToSet(targets) = T /\ IsInjective(targets)
        /\ \A p, q \in Name \ Safe :
             Before(user, p, q) => Before(targets, Target(p), Target(q))
    BY <2>2, TargetsAre
  <2>4. \A p \in Name :
          /\ Target(p).package = p
          /\ Target(p).category = IF p \in Safe THEN "SystemSafe"
                                  ELSE IF GameByItself(input, p) THEN "Game"
                                  ELSE "UserApp"
    <3>1. \A p \in Name : p \in games \cup Named <=> GameByItself(input, p)
      BY GamesFound DEF InputOK
    <3> HIDE DEF games
    <3> QED
      BY <3>1 DEF TargetOf, UserTarget
  <2> HIDE DEF Target, targets
  <2>5. \A t \in ToSet(targets) : t.category \in {"Game", "UserApp", "SystemSafe"}
    BY <2>3, <2>4
  <2>6. /\ queue \in Seq(T) /\ IsInjective(queue) /\ ToSet(queue) = T
        /\ \A x, y \in T :
             \/ x.category = "Game" /\ y.category # "Game"
             \/ x.category = "UserApp" /\ y.category = "SystemSafe"
             \/ x.category = y.category /\ Before(targets, x, y)
             => Before(queue, x, y)
    <3> HIDE DEF T
    <3> QED
      BY <2>3, <2>5, SortedIs
  <2> HIDE DEF queue
  <2>7. Len(queue) \in Nat /\ DOMAIN queue = 1..Len(queue)
    <3> HIDE DEF T
    <3> QED
      BY <2>6
  <2>8. \A i \in 1..Len(queue) : \E p \in Name : queue[i] = Target(p)
    BY <2>6, <2>7
  <2>9. /\ DOMAIN packages = 1..Len(queue)
        /\ \A i \in 1..Len(queue) : /\ packages[i] = queue[i].package
                                    /\ packages[i] \in Name
                                    /\ queue[i] = Target(packages[i])
    BY <2>4, <2>7, <2>8
  <2>10. ToSet(packages) = Name
    <3>1. ASSUME NEW p \in Name PROVE p \in ToSet(packages)
      <4>1. Target(p) \in ToSet(queue)
        BY <2>6
      <4>2. PICK i \in 1..Len(queue) : queue[i] = Target(p)
        BY <2>7, <4>1 DEF ToSet
      <4> HIDE DEF packages
      <4> QED
        BY <2>4, <2>9, <4>2 DEF ToSet
    <3> HIDE DEF packages
    <3> QED
      BY <2>9, <3>1 DEF ToSet
  <2>11. Len(packages) = Cardinality(Name)
    <3>1. packages \in [1..Len(queue) -> Name]
      BY <2>7, <2>9
    <3>2. packages = [i \in 1..Len(queue) |-> packages[i]]
      BY <2>7
    <3> HIDE DEF packages
    <3>3. IsInjective(packages)
      BY <2>6, <2>7, <2>9 DEF IsInjective
    <3>4. \A p \in Name : \E i \in 1..Len(queue) : packages[i] = p
      BY <2>9, <2>10 DEF ToSet
    <3>5. packages \in Bijection(1..Len(queue), Name)
      BY <3>1, <3>3, <3>4 DEF Bijection, Injection, Surjection
    <3>6. Cardinality(Name) = Len(queue)
      BY <2>7, <3>5, FS_CountingElements DEF ExistsBijection
    <3>7. Len(packages) = Len(queue)
      BY <2>7, <3>2
    <3> QED
      BY <3>6, <3>7
  <2>12. ASSUME NEW p \in Name, NEW q \in Name,
                \/ rank(p) < rank(q)
                \/ rank(p) = rank(q) /\ p \notin Safe /\ Before(user, p, q)
         PROVE  Before(packages, p, q)
    <3> DEFINE x == Target(p)
               y == Target(q)
    <3>1. x \in T /\ y \in T
      OBVIOUS
    <3>2. \/ x.category = "Game" /\ y.category # "Game"
          \/ x.category = "UserApp" /\ y.category = "SystemSafe"
          \/ x.category = y.category /\ Before(targets, x, y)
      <4>1. CASE rank(p) < rank(q)
        BY <2>4, <4>1
      <4>2. CASE rank(p) = rank(q) /\ p \notin Safe /\ Before(user, p, q)
        <5>1. q \notin Safe
          BY <4>2
        <5>2. Before(targets, x, y)
          BY <2>3, <4>2, <5>1
        <5> QED
          BY <2>4, <4>2, <5>1, <5>2
      <4> QED
        BY <2>12, <4>1, <4>2
    <3>3. Before(queue, x, y)
      <4> HIDE DEF T, x, y
      <4> QED
        BY <2>6, <3>1, <3>2
    <3>4. PICK i, j \in 1..Len(queue) : i < j /\ queue[i] = x /\ queue[j] = y
      BY <2>7, <3>3 DEF Before
    <3>5. packages[i] = p /\ packages[j] = q
      BY <2>4, <2>9, <3>4
    <3> HIDE DEF packages
    <3> QED
      BY <2>9, <3>4, <3>5 DEF Before
  <2> HIDE DEF packages
  <2>13. \A p, q \in Name :
           \/ rank(p) < rank(q)
           \/ rank(p) = rank(q) /\ p \notin Safe /\ Before(user, p, q)
           => Before(packages, p, q)
    BY <2>12
  <2> QED
    BY <2>1, <2>10, <2>11, <2>13 DEF packages
<1> QED
  BY <1>1, InputStays, PTL
=============================================================================
