---------------------------- MODULE NatRecursion ----------------------------
(***************************************************************************)
(* Recursion and induction over the natural numbers, in a form that can be *)
(* cited.  A recursive function f[k \in Nat] == ... stands for a CHOOSE,   *)
(* and that it satisfies its equation has to be proved.  Here that is done *)
(* once, for the functions defined by a first value and a step, which may  *)
(* depend on a parameter p; a module about such a function INSTANCEs this  *)
(* one.  SetInduction is the induction principle with the set of the       *)
(* numbers that have the property in place of the property.                *)
(***************************************************************************)
EXTENDS Integers, WellFoundedInduction, TLAPS

CONSTANTS
  Base(_),         \* Base(p): the value at 0
  Step(_, _, _)    \* Step(p, k, x): the value at k when that at k - 1 is x

Rec(p) ==
  LET rec[k \in Nat] == IF k = 0 THEN Base(p) ELSE Step(p, k, rec[k - 1])
  IN  rec

-----------------------------------------------------------------------------
LEMMA LeastElement ==
  ASSUME NEW T, T \subseteq Nat, T # {}
  PROVE  \E n \in T : \A m \in T : n <= m
<1>1. PICK n \in T : \A m \in T : <<m, n>> \notin OpToRel(<, Nat)
  BY NatLessThanWellFounded, WFMin
<1>2. \A m \in T : n \in Nat /\ m \in Nat /\ ~(m < n)
  BY <1>1 DEF OpToRel
<1>3. \A m \in T : n <= m
  BY <1>2
<1> QED
  BY <1>3

LEMMA SetInduction ==
  ASSUME NEW S, 0 \in S, \A n \in Nat : n \in S => n + 1 \in S
  PROVE  Nat \subseteq S
<1> SUFFICES ASSUME ~(Nat \subseteq S)
             PROVE  FALSE
  OBVIOUS
<1>1. PICK n \in Nat \ S : \A m \in Nat \ S : n <= m
  BY LeastElement
<1>2. n - 1 \in Nat
  BY <1>1
<1>3. n - 1 \in S
  BY <1>1, <1>2
<1> QED
  BY <1>1, <1>2, <1>3

-----------------------------------------------------------------------------
(* g has the values of the recursion up to n.                              *)
UpTo(p, g, n) ==
  /\ g[0] = Base(p)
  /\ \A k \in Nat : k < n => g[k + 1] = Step(p, k + 1, g[k])

LEMMA UpToExists ==
  ASSUME NEW p
  PROVE  \A n \in Nat : \E g : UpTo(p, g, n)
<1> DEFINE S == {n \in Nat : \E g : UpTo(p, g, n)}
<1>1. 0 \in S
  <2>1. UpTo(p, [k \in {0} |-> Base(p)], 0)
    BY DEF UpTo
  <2> QED
    BY <2>1
<1>2. ASSUME NEW n \in Nat, n \in S
      PROVE  n + 1 \in S
  <2>1. PICK g : UpTo(p, g, n)
    BY <1>2
  <2> DEFINE h == [k \in 0..(n + 1) |-> IF k = n + 1 THEN Step(p, n + 1, g[n]) ELSE g[k]]
  <2>2. h[0] = Base(p)
    BY <2>1 DEF UpTo
  <2>3. ASSUME NEW k \in Nat, k < n + 1
        PROVE  h[k + 1] = Step(p, k + 1, h[k])
    <3>1. CASE k = n
      <4>1. h[k + 1] = Step(p, n + 1, g[n]) /\ h[k] = g[k]
        BY <3>1
      <4> QED
        BY <3>1, <4>1
    <3>2. CASE k < n
      <4>1. h[k + 1] = g[k + 1] /\ h[k] = g[k]
        BY <3>2
      <4> QED
        BY <2>1, <3>2, <4>1 DEF UpTo
    <3> QED
      BY <2>3, <3>1, <3>2
  <2> HIDE DEF h
  <2>4. UpTo(p, h, n + 1)
    BY <2>2, <2>3 DEF UpTo
  <2> QED
    BY <2>4
<1> HIDE DEF S
<1>3. Nat \subseteq S
  BY <1>1, <1>2, SetInduction
<1> QED
  BY <1>3 DEF S

LEMMA UpToUnique ==
  ASSUME NEW p, NEW m \in Nat, NEW n \in Nat, m <= n,
         NEW g, NEW h, UpTo(p, g, m), UpTo(p, h, n)
  PROVE  \A k \in Nat : k <= m => g[k] = h[k]
<1> DEFINE S == {k \in Nat : k <= m => g[k] = h[k]}
<1>1. 0 \in S
  BY DEF UpTo
<1>2. ASSUME NEW k \in Nat, k \in S
      PROVE  k + 1 \in S
  <2> SUFFICES ASSUME k + 1 <= m
               PROVE  g[k + 1] = h[k + 1]
    OBVIOUS
  <2>1. g[k] = h[k]
    BY <1>2
  <2>2. g[k + 1] = Step(p, k + 1, g[k]) /\ h[k + 1] = Step(p, k + 1, h[k])
    BY DEF UpTo
  <2> QED
    BY <2>1, <2>2
<1> HIDE DEF S
<1>3. Nat \subseteq S
  BY <1>1, <1>2, SetInduction
<1> QED
  BY <1>3 DEF S

(* The equation has a solution, so the function that is chosen is one.     *)
LEMMA RecIsFunction ==
  \A p : Rec(p) = [k \in Nat |-> IF k = 0 THEN Base(p) ELSE Step(p, k, Rec(p)[k - 1])]
<1> TAKE p
<1> DEFINE G(n) == CHOOSE g : UpTo(p, g, n)
           f    == [n \in Nat |-> G(n)[n]]
<1>1. \A n \in Nat : UpTo(p, G(n), n)
  BY UpToExists
<1>2. f[0] = Base(p)
  BY <1>1 DEF UpTo
<1>3. ASSUME NEW n \in Nat
      PROVE  f[n + 1] = Step(p, n + 1, f[n])
  <2>1. UpTo(p, G(n), n) /\ UpTo(p, G(n + 1), n + 1)
    BY <1>1
  <2> HIDE DEF G
  <2>2. G(n)[n] = G(n + 1)[n]
    BY <2>1, UpToUnique
  <2>3. G(n + 1)[n + 1] = Step(p, n + 1, G(n + 1)[n])
    BY <2>1 DEF UpTo
  <2> QED
    BY <2>2, <2>3
<1>4. f = [k \in Nat |-> f[k]]
  OBVIOUS
<1> HIDE DEF f
<1>5. ASSUME NEW k \in Nat
      PROVE  f[k] = IF k = 0 THEN Base(p) ELSE Step(p, k, f[k - 1])
  <2>1. CASE k = 0
    BY <1>2, <2>1
  <2>2. CASE k # 0
    <3>1. k - 1 \in Nat /\ (k - 1) + 1 = k
      BY <2>2
    <3>2. f[(k - 1) + 1] = Step(p, (k - 1) + 1, f[k - 1])
      BY <1>3, <3>1
    <3> QED
      BY <2>2, <3>1, <3>2
  <2> QED
    BY <2>1, <2>2
<1>6. f = [k \in Nat |-> IF k = 0 THEN Base(p) ELSE Step(p, k, f[k - 1])]
  BY <1>4, <1>5
<1> QED
  BY <1>6 DEF Rec

(* What a proof about a recursive function needs of it.                    *)
LEMMA RecUnfolds ==
  \A p : /\ Rec(p)[0] = Base(p)
         /\ \A k \in Nat : Rec(p)[k + 1] = Step(p, k + 1, Rec(p)[k])
<1> TAKE p
<1>1. Rec(p) = [k \in Nat |-> IF k = 0 THEN Base(p) ELSE Step(p, k, Rec(p)[k - 1])]
  BY RecIsFunction
<1>2. Rec(p)[0] = Base(p)
  BY <1>1
<1>3. ASSUME NEW k \in Nat
      PROVE  Rec(p)[k + 1] = Step(p, k + 1, Rec(p)[k])
  <2>1. k + 1 \in Nat /\ k + 1 # 0 /\ (k + 1) - 1 = k
    OBVIOUS
  <2> QED
    BY <1>1, <2>1
<1> QED
  BY <1>2, <1>3
=============================================================================
