------------------------------ MODULE LeftFold ------------------------------
(***************************************************************************)
(* Folding a sequence from the left, as the functions of GameDiscovery and *)
(* TweakScripts do, and how to reason about it.  Op is a constant, for     *)
(* which the user of this module takes the operator that is folded, with   *)
(* the parameter the operator has, if it has one.                          *)
(***************************************************************************)
EXTENDS Integers, SequencesExt, NaturalsInduction, WellFoundedInduction, TLAPS

CONSTANT Op(_, _, _)   \* of a parameter, the state so far and an element

Fold(param, base, s) == FoldLeft(LAMBDA x, e : Op(param, x, e), base, s)

\* Induction over the numbers, for the members of a set.
LEMMA NatSetInduction ==
  ASSUME NEW T, 0 \in T, \A n \in Nat : n \in T => n + 1 \in T
  PROVE  Nat \subseteq T
<1> SUFFICES ASSUME Nat \ T # {} PROVE FALSE
  OBVIOUS
<1>1. PICK m \in Nat \ T : \A k \in Nat \ T : ~(<<k, m>> \in OpToRel(<, Nat))
  BY NatLessThanWellFounded, WFMin, Nat \ T \subseteq Nat
<1>2. m # 0 /\ m - 1 \in Nat
  OBVIOUS
<1>3. <<m - 1, m>> \in OpToRel(<, Nat)
  BY <1>2 DEF OpToRel
<1>4. m - 1 \in T
  BY <1>1, <1>2, <1>3
<1> QED
  BY <1>2, <1>4

LEMMA MaxIs ==
  ASSUME NEW t, t \subseteq Int, NEW x \in t, \A y \in t : y <= x
  PROVE  Max(t) = x
<1>1. Max(t) \in t /\ \A y \in t : Max(t) >= y
  <2>1. \A y \in t : x >= y
    OBVIOUS
  <2> QED
    BY <2>1, Zenon DEF Max
<1>2. \A y, z \in Int : y <= z /\ y >= z => y = z
  OBVIOUS
<1>3. Max(t) \in Int /\ x \in Int /\ Max(t) <= x /\ Max(t) >= x
  BY <1>1, Zenon
<1> QED
  BY <1>2, <1>3, Zenon

\* The recursion of a fold, over the positions of the sequence that are left.
Recursion(g, m, param, base, s) ==
  g = [t \in SUBSET (1..m) |->
        IF t = {} THEN base ELSE Op(param, g[t \ {Max(t)}], s[Max(t)])]

LEMMA RecursionStep ==
  ASSUME NEW param, NEW base, NEW s, NEW m \in Nat, NEW g,
         Recursion(g, m, param, base, s)
  PROVE  \E h : Recursion(h, m + 1, param, base, s)
<1> DEFINE h == [t \in SUBSET (1..m + 1) |->
                   IF m + 1 \in t THEN Op(param, g[t \ {m + 1}], s[m + 1])
                   ELSE g[t]]
<1>0. \A t \in SUBSET (1..m + 1) : m + 1 \notin t => t \in SUBSET (1..m)
  OBVIOUS
<1>1. ASSUME NEW t \in SUBSET (1..m + 1)
      PROVE  h[t] = IF t = {} THEN base
                    ELSE Op(param, h[t \ {Max(t)}], s[Max(t)])
  <2>1. CASE m + 1 \in t
    <3>1. Max(t) = m + 1
      BY <2>1, MaxIs, \A y \in t : y <= m + 1, t \subseteq Int
    <3>2. t \ {m + 1} \in SUBSET (1..m + 1) /\ t \ {m + 1} \in SUBSET (1..m)
      OBVIOUS
    <3>3. h[t \ {m + 1}] = g[t \ {m + 1}]
      BY <3>2
    <3> QED
      BY <2>1, <3>1, <3>3
  <2>2. CASE m + 1 \notin t
    <3>1. t \in SUBSET (1..m) /\ t \ {Max(t)} \in SUBSET (1..m)
      BY <1>0, <2>2
    <3>2. h[t \ {Max(t)}] = g[t \ {Max(t)}]
      BY <2>2, <3>1
    <3>3. g[t] = IF t = {} THEN base ELSE Op(param, g[t \ {Max(t)}], s[Max(t)])
      BY <3>1 DEF Recursion
    <3> QED
      BY <2>2, <3>2, <3>3
  <2> QED
    BY <2>1, <2>2
<1>2. Recursion(h, m + 1, param, base, s)
  BY <1>1 DEF Recursion
<1> QED
  BY <1>2

LEMMA RecursionExists ==
  ASSUME NEW param, NEW base, NEW s, NEW n \in Nat
  PROVE  \E g : Recursion(g, n, param, base, s)
<1> DEFINE T == {m \in Nat : \E g : Recursion(g, m, param, base, s)}
<1>1. 0 \in T
  <2>1. Recursion([t \in SUBSET (1..0) |-> base], 0, param, base, s)
    BY DEF Recursion
  <2> QED
    BY <2>1
<1>2. \A m \in Nat : m \in T => m + 1 \in T
  BY RecursionStep
<1> HIDE DEF T
<1>3. Nat \subseteq T
  BY <1>1, <1>2, NatSetInduction
<1> QED
  BY <1>3 DEF T

\* A fold has a state after each prefix, which one step leads to the next.
LEMMA FoldTrace ==
  ASSUME NEW param, NEW base, NEW S, NEW s \in Seq(S)
  PROVE  \E trace :
           /\ trace[0] = base
           /\ \A k \in 1..Len(s) : trace[k] = Op(param, trace[k - 1], s[k])
           /\ Fold(param, base, s) = trace[Len(s)]
<1> DEFINE n == Len(s)
           iter == CHOOSE g : Recursion(g, n, param, base, s)
<1>1. n \in Nat /\ DOMAIN s = 1..n
  OBVIOUS
<1>2. Recursion(iter, n, param, base, s)
  BY <1>1, RecursionExists
<1>3. Fold(param, base, s) = iter[1..n]
  BY <1>1 DEF Fold, FoldLeft, MapThenFoldSet, Recursion
<1> DEFINE trace == [k \in 0..n |-> iter[1..k]]
<1> HIDE DEF iter
<1>4. trace[0] = base
  BY <1>2 DEF Recursion
<1>5. ASSUME NEW k \in 1..n PROVE trace[k] = Op(param, trace[k - 1], s[k])
  <2>0. k \in Nat /\ k \in 0..n /\ k - 1 \in 0..n /\ k \in 1..k
    BY <1>1
  <2>1. 1..k \in SUBSET (1..n) /\ 1..k # {}
    <3>1. \A i \in 1..k : i \in 1..n
      BY <1>1, <2>0
    <3> QED
      BY <2>0, <3>1, Zenon
  <2>2. Max(1..k) = k
    BY <2>0, MaxIs, 1..k \subseteq Int, k \in 1..k, \A y \in 1..k : y <= k
  <2>3. (1..k) \ {k} = 1..k - 1
    BY <2>0
  <2>4. iter[1..k] = IF 1..k = {} THEN base
                     ELSE Op(param, iter[(1..k) \ {Max(1..k)}], s[Max(1..k)])
    BY <1>2, <2>1 DEF Recursion
  <2> QED
    BY <2>0, <2>1, <2>2, <2>3, <2>4
<1>6. Fold(param, base, s) = trace[n]
  BY <1>1, <1>3
<1> HIDE DEF trace
<1> QED
  BY <1>4, <1>5, <1>6

\* What holds of the base and is kept by each step holds in the end: I has,
\* for each prefix, the states the fold may be in after it.
LEMMA FoldInvariant ==
  ASSUME NEW param, NEW base, NEW S, NEW s \in Seq(S), NEW I,
         base \in I[0],
         \A k \in 1..Len(s) : \A x \in I[k - 1] : Op(param, x, s[k]) \in I[k]
  PROVE  Fold(param, base, s) \in I[Len(s)]
<1>1. PICK trace :
        /\ trace[0] = base
        /\ \A k \in 1..Len(s) : trace[k] = Op(param, trace[k - 1], s[k])
        /\ Fold(param, base, s) = trace[Len(s)]
  BY FoldTrace
<1> DEFINE T == {k \in Nat : k <= Len(s) => trace[k] \in I[k]}
<1>2. 0 \in T
  BY <1>1
<1>3. ASSUME NEW k \in Nat, k \in T PROVE k + 1 \in T
  BY <1>1, <1>3
<1> HIDE DEF T
<1>4. Nat \subseteq T
  BY <1>2, <1>3, NatSetInduction
<1> QED
  BY <1>1, <1>4 DEF T

\* Folding two sequences one after the other, and a short one.
LEMMA FoldConcat ==
  ASSUME NEW param, NEW base, NEW S, NEW s \in Seq(S), NEW t \in Seq(S)
  PROVE  Fold(param, base, s \o t) = Fold(param, Fold(param, base, s), t)
<1> DEFINE m == Len(s)
           n == Len(t)
           both == s \o t
<1>0. /\ both \in Seq(S) /\ m \in Nat /\ n \in Nat /\ Len(both) = m + n
      /\ \A k \in 1..m : both[k] = s[k]
      /\ \A k \in 1..n : both[m + k] = t[k]
  OBVIOUS
<1>1. PICK f :
        /\ f[0] = base
        /\ \A k \in 1..m : f[k] = Op(param, f[k - 1], s[k])
        /\ Fold(param, base, s) = f[m]
  BY FoldTrace
<1>2. PICK g :
        /\ g[0] = f[m]
        /\ \A k \in 1..n : g[k] = Op(param, g[k - 1], t[k])
        /\ Fold(param, f[m], t) = g[n]
  BY FoldTrace
<1>a. \A q \in Seq(S) : \E h :
        /\ h[0] = base
        /\ \A k \in 1..Len(q) : h[k] = Op(param, h[k - 1], q[k])
        /\ Fold(param, base, q) = h[Len(q)]
  BY FoldTrace
<1> HIDE DEF m, n, both
<1>3. PICK h :
        /\ h[0] = base
        /\ \A k \in 1..m + n : h[k] = Op(param, h[k - 1], both[k])
        /\ Fold(param, base, both) = h[m + n]
  <2>1. both \in Seq(S) /\ Len(both) = m + n
    BY <1>0
  <2>2. \E h :
          /\ h[0] = base
          /\ \A k \in 1..Len(both) : h[k] = Op(param, h[k - 1], both[k])
          /\ Fold(param, base, both) = h[Len(both)]
    BY <2>1, <1>a, Zenon
  <2> QED
    BY <2>1, <2>2, Zenon
<1> DEFINE T == {k \in Nat : k <= m => h[k] = f[k]}
           U == {k \in Nat : k <= n => h[m + k] = g[k]}
<1>4. 0 \in T
  BY <1>1, <1>3
<1>5. ASSUME NEW k \in Nat, k \in T PROVE k + 1 \in T
  <2> SUFFICES ASSUME k + 1 <= m PROVE h[k + 1] = f[k + 1]
    OBVIOUS
  <2>1. k + 1 \in 1..m /\ k + 1 \in 1..m + n /\ (k + 1) - 1 = k /\ k <= m
    BY <1>0
  <2>2. /\ h[k + 1] = Op(param, h[k], s[k + 1])
        /\ f[k + 1] = Op(param, f[k], s[k + 1])
    BY <1>0, <1>1, <1>3, <2>1
  <2> QED
    BY <1>5, <2>1, <2>2
<1>6. h[m] = f[m]
  <2> HIDE DEF T
  <2>1. Nat \subseteq T
    BY <1>4, <1>5, NatSetInduction
  <2> QED
    BY <1>0, <2>1 DEF T
<1>7. 0 \in U
  BY <1>0, <1>2, <1>6
<1>8. ASSUME NEW k \in Nat, k \in U PROVE k + 1 \in U
  <2> SUFFICES ASSUME k + 1 <= n PROVE h[m + (k + 1)] = g[k + 1]
    OBVIOUS
  <2>1. /\ k + 1 \in 1..n /\ m + (k + 1) \in 1..m + n /\ (k + 1) - 1 = k
        /\ (m + (k + 1)) - 1 = m + k /\ k <= n
    BY <1>0
  <2>2. h[m + (k + 1)] = Op(param, h[m + k], t[k + 1])
    BY <1>0, <1>3, <2>1
  <2>3. g[k + 1] = Op(param, g[k], t[k + 1])
    BY <1>2, <2>1
  <2> QED
    BY <1>8, <2>1, <2>2, <2>3
<1>9. h[m + n] = g[n]
  <2> HIDE DEF U
  <2>1. Nat \subseteq U
    BY <1>7, <1>8, NatSetInduction
  <2> QED
    BY <1>0, <2>1 DEF U
<1> QED
  BY <1>1, <1>2, <1>3, <1>9 DEF both

LEMMA FoldShort ==
  ASSUME NEW param, NEW base, NEW e
  PROVE  /\ Fold(param, base, <<>>) = base
         /\ Fold(param, base, <<e>>) = Op(param, base, e)
<1> DEFINE none == <<>>
           one == <<e>>
<1>1. none \in Seq({e}) /\ Len(none) = 0 /\ one \in Seq({e}) /\ Len(one) = 1
  OBVIOUS
<1>2. one[1] = e
  OBVIOUS
<1>a. \A q \in Seq({e}) : \E f :
        /\ f[0] = base
        /\ \A k \in 1..Len(q) : f[k] = Op(param, f[k - 1], q[k])
        /\ Fold(param, base, q) = f[Len(q)]
  BY FoldTrace
<1> HIDE DEF none, one
<1>3. PICK f : f[0] = base /\ Fold(param, base, none) = f[Len(none)]
  <2>1. \E f :
          /\ f[0] = base
          /\ \A k \in 1..Len(none) : f[k] = Op(param, f[k - 1], none[k])
          /\ Fold(param, base, none) = f[Len(none)]
    BY <1>1, <1>a, Zenon
  <2> QED
    BY <2>1, Zenon
<1>4. PICK g :
        /\ g[0] = base
        /\ \A k \in 1..Len(one) : g[k] = Op(param, g[k - 1], one[k])
        /\ Fold(param, base, one) = g[Len(one)]
  BY <1>1, <1>a, Zenon
<1>5. Fold(param, base, none) = base
  BY <1>1, <1>3
<1>6. Fold(param, base, one) = Op(param, base, e)
  <2>1. 1 \in 1..Len(one) /\ 1 - 1 = 0
    BY <1>1
  <2>2. g[1] = Op(param, g[1 - 1], one[1])
    BY <1>4, <2>1
  <2> QED
    BY <1>1, <1>2, <1>4, <2>1, <2>2
<1> QED
  BY <1>5, <1>6 DEF none, one
=============================================================================
