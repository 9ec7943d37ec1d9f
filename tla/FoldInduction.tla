---------------------------- MODULE FoldInduction ----------------------------
(***************************************************************************)
(* Induction over FoldLeft, for operators that are given when the module   *)
(* is instantiated: Op is the step of the fold, with a parameter that stays *)
(* the same, Inv what holds of the accumulator after some number of        *)
(* elements.  The loops of the code over its queues are such folds.        *)
(***************************************************************************)
EXTENDS Integers, SequencesExt, SequenceTheorems, WellFoundedInduction, TLAPS

CONSTANTS
    Op(_, _, _),    \* parameter, accumulator, element
    Inv(_, _, _)    \* parameter, elements taken, accumulator

Fold(par, base, s) == FoldLeft(LAMBDA acc, e : Op(par, acc, e), base, s)

\* Inv holds after an element if it held before it.
Keeps(par, s) ==
    \A k \in 1 .. Len(s) : \A acc :
        Inv(par, k - 1, acc) => Inv(par, k, Op(par, acc, s[k]))

\* The same of a function on the first n positions.
KeepsTo(par, s, n) ==
    \A k \in 1 .. n : \A acc :
        Inv(par, k - 1, acc) => Inv(par, k, Op(par, acc, s[k]))

\* What the fold computes for every subset of the first k positions.
Table(par, base, s, k, g) ==
    g = [S \in SUBSET (1 .. k) |->
            IF S = {} THEN base ELSE Op(par, g[S \ {Max(S)}], s[Max(S)])]

-----------------------------------------------------------------------------
\* Induction over the naturals, for a set.
LEMMA SetInduction ==
    ASSUME NEW T, 0 \in T, \A n \in Nat : n \in T => n + 1 \in T
    PROVE  Nat \subseteq T
<1>. DEFINE Bad == Nat \ T
<1>. SUFFICES ASSUME Bad # {} PROVE FALSE
  OBVIOUS
<1>1. PICK m \in Bad : \A y \in Bad : ~(<<y, m>> \in OpToRel(<, Nat))
  <2>1. Bad \subseteq Nat
    OBVIOUS
  <2>. HIDE DEF Bad
  <2>. QED BY <2>1, WFMin, NatLessThanWellFounded
<1>2. m \in Nat /\ m # 0 /\ m - 1 \in Nat /\ m - 1 < m /\ m - 1 + 1 = m
  OBVIOUS
<1>3. m - 1 \in Bad
  BY <1>2
<1>4. <<m - 1, m>> \in OpToRel(<, Nat)
  BY <1>2 DEF OpToRel
<1>. QED BY <1>1, <1>3, <1>4

LEMMA MaxOfTop ==
    ASSUME NEW k \in Nat, NEW S \in SUBSET (1 .. k + 1), k + 1 \in S
    PROVE  Max(S) = k + 1
<1>1. \A y \in S : y \in Nat /\ k + 1 >= y
  OBVIOUS
<1>2. \A x \in S : (\A y \in S : x >= y) => x = k + 1
  BY <1>1
<1>. QED BY <1>1, <1>2 DEF Max

\* A table for k positions extends to one for k + 1.
LEMMA TableExtends ==
    ASSUME NEW par, NEW base, NEW s, NEW k \in Nat, NEW g, Table(par, base, s, k, g)
    PROVE  \E h : Table(par, base, s, k + 1, h)
<1>. DEFINE h == [S \in SUBSET (1 .. k + 1) |->
                    IF k + 1 \in S THEN Op(par, g[S \ {k + 1}], s[k + 1]) ELSE g[S]]
<1>1. \A S \in SUBSET (1 .. k + 1) : S \ {k + 1} \in SUBSET (1 .. k)
  OBVIOUS
<1>2. \A S \in SUBSET (1 .. k) : S \in SUBSET (1 .. k + 1) /\ k + 1 \notin S
  OBVIOUS
<1>3. \A S \in SUBSET (1 .. k) : h[S] = g[S]
  BY <1>2
<1>4. ASSUME NEW S \in SUBSET (1 .. k + 1)
      PROVE  h[S] = IF S = {} THEN base ELSE Op(par, h[S \ {Max(S)}], s[Max(S)])
  <2>1. CASE k + 1 \in S
    <3>1. Max(S) = k + 1 /\ S # {}
      BY <2>1, MaxOfTop
    <3>2. h[S] = Op(par, g[S \ {k + 1}], s[k + 1])
      BY <2>1
    <3>3. h[S \ {k + 1}] = g[S \ {k + 1}]
      BY <1>1, <1>3
    <3>. HIDE DEF h
    <3>. QED BY <3>1, <3>2, <3>3
  <2>2. CASE k + 1 \notin S
    <3>1. S \in SUBSET (1 .. k) /\ S \ {Max(S)} \in SUBSET (1 .. k)
      <4>1. \A y \in S : y \in 1 .. k
        BY <2>2
      <4>. QED BY <4>1
    <3>2. g[S] = IF S = {} THEN base ELSE Op(par, g[S \ {Max(S)}], s[Max(S)])
      BY <3>1 DEF Table
    <3>3. h[S] = g[S] /\ h[S \ {Max(S)}] = g[S \ {Max(S)}]
      BY <1>3, <3>1
    <3>. HIDE DEF h
    <3>. QED BY <3>2, <3>3
  <2>. QED BY <2>1, <2>2
<1>5. h = [S \in SUBSET (1 .. k + 1) |->
              IF S = {} THEN base ELSE Op(par, h[S \ {Max(S)}], s[Max(S)])]
  BY <1>4
<1>. HIDE DEF h
<1>. QED BY <1>5 DEF Table

LEMMA TableExists ==
    ASSUME NEW par, NEW base, NEW s, NEW n \in Nat
    PROVE  \E g : Table(par, base, s, n, g)
<1>. DEFINE T == {k \in Nat : \E g : Table(par, base, s, k, g)}
<1>1. 0 \in T
  <2>. DEFINE g == [S \in {{}} |-> base]
  <2>1. SUBSET (1 .. 0) = {{}}
    OBVIOUS
  <2>2. g = [S \in SUBSET (1 .. 0) |->
                IF S = {} THEN base ELSE Op(par, g[S \ {Max(S)}], s[Max(S)])]
    BY <2>1
  <2>. HIDE DEF g
  <2>. QED BY <2>2 DEF Table
<1>2. \A k \in Nat : k \in T => k + 1 \in T
  BY TableExtends
<1>3. Nat \subseteq T
  <2>. HIDE DEF T
  <2>. QED BY <1>1, <1>2, SetInduction
<1>. QED BY <1>3

\* A fold over a sequence is the last entry of its table.
LEMMA FoldIsInTable ==
    ASSUME NEW par, NEW base, NEW n \in Nat, NEW s, DOMAIN s = 1 .. n
    PROVE  \E g : /\ Table(par, base, s, n, g)
                  /\ Fold(par, base, s) = g[1 .. n]
<1>. DEFINE t == CHOOSE g : Table(par, base, s, n, g)
<1>1. Table(par, base, s, n, t)
  BY TableExists
<1>2. Fold(par, base, s) = t[1 .. n]
  BY <1>1 DEF Fold, FoldLeft, MapThenFoldSet, Table
<1>. QED BY <1>1, <1>2

\* What every element keeps holds of the fold.
LEMMA FoldKeepsTo ==
    ASSUME NEW par, NEW base, NEW n \in Nat, NEW s, DOMAIN s = 1 .. n,
           Inv(par, 0, base), KeepsTo(par, s, n)
    PROVE  Inv(par, n, Fold(par, base, s))
<1>1. PICK g : /\ Table(par, base, s, n, g)
               /\ Fold(par, base, s) = g[1 .. n]
  BY FoldIsInTable
<1>. DEFINE T == {k \in Nat : k <= n => Inv(par, k, g[1 .. k])}
<1>3. 0 \in T
  <2>1. {} \in SUBSET (1 .. n) /\ 1 .. 0 = {}
    OBVIOUS
  <2>2. g[{}] = base
    BY <1>1, <2>1 DEF Table
  <2>. QED BY <2>1, <2>2
<1>4. ASSUME NEW k \in Nat, k \in T PROVE k + 1 \in T
  <2>. SUFFICES ASSUME k + 1 <= n PROVE Inv(par, k + 1, g[1 .. k + 1])
    OBVIOUS
  <2>1. k + 1 \in 1 .. n /\ k + 1 - 1 = k /\ Inv(par, k, g[1 .. k])
    BY <1>4
  <2>2. 1 .. k + 1 \in SUBSET (1 .. n) /\ 1 .. k + 1 # {}
    <3>1. \A y \in 1 .. k + 1 : y \in 1 .. n
      BY <2>1
    <3>2. k + 1 \in 1 .. k + 1
      OBVIOUS
    <3>. QED BY <3>1, <3>2
  <2>3. Max(1 .. k + 1) = k + 1
    BY MaxOfTop
  <2>4. (1 .. k + 1) \ {k + 1} = 1 .. k
    OBVIOUS
  <2>5. g[1 .. k + 1] = Op(par, g[1 .. k], s[k + 1])
    BY <1>1, <2>2, <2>3, <2>4 DEF Table
  <2>. QED BY <2>1, <2>5 DEF KeepsTo
<1>5. Nat \subseteq T
  <2>. HIDE DEF T
  <2>. QED BY <1>3, <1>4, SetInduction
<1>. QED BY <1>1, <1>5

LEMMA FoldKeeps ==
    ASSUME NEW par, NEW base, NEW E, NEW s \in Seq(E),
           Inv(par, 0, base), Keeps(par, s)
    PROVE  Inv(par, Len(s), Fold(par, base, s))
<1>1. Len(s) \in Nat /\ DOMAIN s = 1 .. Len(s)
  BY LenProperties
<1>2. KeepsTo(par, s, Len(s))
  BY DEF Keeps, KeepsTo
<1>. QED BY <1>1, <1>2, FoldKeepsTo
=============================================================================
