--------------------------- MODULE PredictorTables ---------------------------
(***************************************************************************)
(* What the branch predictors share (utils.hpp): saturating counters, and  *)
(* exclusive or over integers and functions that are evaluated once, for   *)
(* indices that are mixed from many values.                                *)
(***************************************************************************)
EXTENDS Integers, Sequences, FiniteSets, FiniteSetsExt, TLC

\* The function that is F on S, evaluated once
Each(S, F(_)) == FoldSet(LAMBDA x, f : (x :> F(x)) @@ f, << >>, S)

\* Exclusive or, from the lowest bit up
Xor[x \in Nat, y \in Nat] ==
    IF x = 0 THEN y ELSE IF y = 0 THEN x
    ELSE ((x + y) % 2) + 2 * Xor[x \div 2, y \div 2]

x ## y == Xor[x, y]

\* x >> k of an integer of which less than 31 bits are kept
Shr(x, k) == IF k > 30 THEN 0 ELSE x \div 2 ^ k

Bit01(b) == IF b THEN 1 ELSE 0

\* Saturating_Counter
Saturated(c, up, lo, hi) ==
    IF up THEN (IF c < hi THEN c + 1 ELSE c) ELSE (IF c > lo THEN c - 1 ELSE c)

SignedUpdated(c, up, width) == Saturated(c, up, -(2 ^ (width - 1)), 2 ^ (width - 1) - 1)

\* |2c + 1|: 1 is weak
Strength(c) == IF c >= 0 THEN 2 * c + 1 ELSE -(2 * c + 1)
=============================================================================
