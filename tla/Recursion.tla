------------------------------ MODULE Recursion ------------------------------
(***************************************************************************)
(* A function defined by recursion on the numbers is the function its      *)
(* equation describes: what a proof about such a definition starts from.   *)
(* An instance gives First and After the operators of the definition.      *)
(***************************************************************************)
EXTENDS Integers, TLAPS, WellFoundedInduction

CONSTANTS First, After(_, _)

\* g is the function, as far as n.
UpTo(n, g) == g = [i \in 0..n |-> IF i = 0 THEN First ELSE After(g[i - 1], i)]

\* A set of numbers has a least one: proofs by a least counterexample.
LEMMA Least ==
    ASSUME NEW T, T \subseteq Nat, T # {}
    PROVE  \E x \in T : \A y \in T : x <= y
<1>1. IsWellFoundedOn(OpToRel(<, Nat), Nat)
  BY NatLessThanWellFounded
<1>2. PICK x \in T : \A y \in T : ~(<<y, x>> \in OpToRel(<, Nat))
  BY <1>1, WFMin
<1>3. \A y \in T : ~(y < x)
  BY <1>2 DEF OpToRel
<1> QED BY <1>3

\* Two functions that follow the equation agree as far as both go.
LEMMA Agree ==
    ASSUME NEW m \in Nat, NEW n \in Nat, NEW g, NEW h, UpTo(m, g), UpTo(n, h),
           NEW i \in Nat, i <= m, i <= n
    PROVE  g[i] = h[i]
<1> DEFINE T == {j \in Nat : j <= m /\ j <= n /\ g[j] # h[j]}
<1> SUFFICES ASSUME T # {} PROVE FALSE
  OBVIOUS
<1>1. PICK j \in T : \A k \in T : j <= k
  BY Least
<1>2. j \in 0..m /\ j \in 0..n /\ g[j] # h[j]
  OBVIOUS
<1>3. /\ g[j] = IF j = 0 THEN First ELSE After(g[j - 1], j)
      /\ h[j] = IF j = 0 THEN First ELSE After(h[j - 1], j)
  BY <1>2 DEF UpTo
<1>4. j # 0
  BY <1>2, <1>3
<1>5. j - 1 \in Nat /\ j - 1 <= m /\ j - 1 <= n /\ j - 1 \notin T
  BY <1>1, <1>4
<1>6. g[j - 1] = h[j - 1]
  BY <1>5
<1> QED BY <1>2, <1>3, <1>6

\* One more value continues a function that follows the equation.
LEMMA OneMore ==
    ASSUME NEW n \in Nat \ {0}, NEW g, UpTo(n - 1, g)
    PROVE  \E h : UpTo(n, h)
<1> DEFINE h == [i \in 0..n |-> IF i = n THEN After(g[n - 1], n) ELSE g[i]]
<1>1. \A i \in 0..n : h[i] = IF i = 0 THEN First ELSE After(h[i - 1], i)
  <2> TAKE i \in 0..n
  <2>1. CASE i = n
    BY <2>1
  <2>2. CASE i # n
    <3>1. i \in 0..(n - 1) /\ h[i] = g[i]
      BY <2>2
    <3>2. g[i] = IF i = 0 THEN First ELSE After(g[i - 1], i)
      BY <3>1 DEF UpTo
    <3>3. i # 0 => h[i - 1] = g[i - 1]
      BY <3>1
    <3> QED BY <3>1, <3>2, <3>3
  <2> QED BY <2>1, <2>2
<1>2. h = [i \in 0..n |-> h[i]]
  OBVIOUS
<1> HIDE DEF h
<1>3. h = [i \in 0..n |-> IF i = 0 THEN First ELSE After(h[i - 1], i)]
  BY <1>1, <1>2
<1> QED BY <1>3 DEF UpTo

LEMMA AsFarAsAny == \A n \in Nat : \E g : UpTo(n, g)
<1> DEFINE T == {n \in Nat : ~\E g : UpTo(n, g)}
<1> SUFFICES ASSUME T # {} PROVE FALSE
  OBVIOUS
<1>1. PICK n \in T : \A k \in T : n <= k
  BY Least
<1>2. n # 0
  <2>1. UpTo(0, [i \in 0..0 |-> First])
    BY DEF UpTo
  <2> QED BY <2>1
<1>3. n - 1 \in Nat /\ n - 1 \notin T
  BY <1>1, <1>2
<1>4. PICK g : UpTo(n - 1, g)
  BY <1>3
<1> QED BY <1>2, <1>4, OneMore

\* The equation of a recursive definition on the numbers has a solution, which
\* is therefore what the definition stands for.
THEOREM RecursionOnNat ==
    \E f : f = [n \in Nat |-> IF n = 0 THEN First ELSE After(f[n - 1], n)]
<1> DEFINE G(n) == CHOOSE g : UpTo(n, g)
           f == [n \in Nat |-> G(n)[n]]
<1>1. \A n \in Nat : UpTo(n, G(n))
  BY AsFarAsAny
<1> HIDE DEF G
<1>2. \A n \in Nat : f[n] = IF n = 0 THEN First ELSE After(f[n - 1], n)
  <2> TAKE n \in Nat
  <2>1. G(n)[n] = IF n = 0 THEN First ELSE After(G(n)[n - 1], n)
    <3>1. UpTo(n, G(n)) /\ n \in 0..n
      BY <1>1
    <3> QED BY <3>1 DEF UpTo
  <2>2. CASE n = 0
    BY <2>1, <2>2
  <2>3. CASE n # 0
    <3>1. n - 1 \in Nat /\ n - 1 <= n
      BY <2>3
    <3>2. G(n)[n - 1] = G(n - 1)[n - 1]
      BY <1>1, <3>1, Agree
    <3> QED BY <2>1, <2>3, <3>1, <3>2
  <2> QED BY <2>2, <2>3
<1>3. f = [n \in Nat |-> f[n]]
  OBVIOUS
<1> HIDE DEF f
<1>4. f = [n \in Nat |-> IF n = 0 THEN First ELSE After(f[n - 1], n)]
  BY <1>2, <1>3
<1> QED BY <1>4
=============================================================================
