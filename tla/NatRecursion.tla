---------------------------- MODULE NatRecursion ----------------------------
(***************************************************************************)
(* Induction and recursion over the natural numbers, said of sets and      *)
(* functions instead of operators, so that the lemmas can be used by       *)
(* instantiation alone.                                                    *)
(***************************************************************************)
EXTENDS Integers, WellFoundedInduction, TLAPS

(* A set of numbers that is not empty has a least element.                  *)
LEMMA Least ==
    ASSUME NEW T \in SUBSET Nat, T # {}
    PROVE  \E x \in T : \A y \in T : x <= y
<1>1. PICK x \in T : \A y \in T : <<y, x>> \notin OpToRel(<, Nat)
    BY NatLessThanWellFounded, WFMin
<1>2. ASSUME NEW y \in T PROVE x <= y
    <2>1. <<y, x>> \notin {ss \in Nat \X Nat : ss[1] < ss[2]}
        BY <1>1 DEF OpToRel
    <2> QED
        BY <2>1
<1> QED
    BY <1>2

(* A set that holds 0, and with every number the next, holds them all.      *)
LEMMA Induction ==
    ASSUME NEW S, 0 \in S, \A n \in Nat : n \in S => n + 1 \in S
    PROVE  Nat \subseteq S
<1> SUFFICES ASSUME Nat \ S # {} PROVE FALSE
    OBVIOUS
<1>1. PICK x \in Nat \ S : \A y \in Nat \ S : x <= y
    BY Least
<1>2. x - 1 \in Nat /\ x - 1 \in S
    BY <1>1
<1> QED
    BY <1>1, <1>2

(* f starts with base and goes from each value to the next by step.         *)
Recurs(f, n, V, base, step) ==
    f \in [0..n -> V] /\ f[0] = base /\ \A k \in 1..n : f[k] = step[k][f[k - 1]]

(* However far such a function has to go, there is one.                     *)
LEMMA Recursion ==
    ASSUME NEW V, NEW base \in V, NEW step \in [Nat -> [V -> V]]
    PROVE  \A n \in Nat : \E f : Recurs(f, n, V, base, step)
<1> DEFINE S == {n \in Nat : \E f : Recurs(f, n, V, base, step)}
<1>1. 0 \in S
    <2>1. Recurs([k \in 0..0 |-> base], 0, V, base, step)
        BY DEF Recurs
    <2> QED
        BY <2>1
<1>2. ASSUME NEW n \in Nat, n \in S PROVE n + 1 \in S
    <2>1. PICK f : Recurs(f, n, V, base, step)
        BY <1>2
    <2> DEFINE g == [k \in 0..(n + 1) |-> IF k = n + 1 THEN step[n + 1][f[n]] ELSE f[k]]
    <2>2. step[n + 1][f[n]] \in V
        BY <2>1 DEF Recurs
    <2>3. g \in [0..(n + 1) -> V] /\ g[0] = base
        BY <2>1, <2>2 DEF Recurs
    <2>4. \A k \in 1..(n + 1) : g[k] = step[k][g[k - 1]]
        BY <2>1 DEF Recurs
    <2>5. Recurs(g, n + 1, V, base, step)
        BY <2>3, <2>4 DEF Recurs
    <2> QED
        BY <2>5
<1>3. Nat \subseteq S
    <2> HIDE DEF S
    <2> QED
        BY <1>1, <1>2, Induction
<1> QED
    BY <1>3
=============================================================================
