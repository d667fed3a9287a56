---------------------------- MODULE DataInduction ----------------------------
(***************************************************************************)
(* Induction over natural numbers in a first-order form, for the proofs    *)
(* about loops over arguments and lists and about sums over fields: a      *)
(* set takes the place of the predicate.  A recursive function is shown to *)
(* exist once, for an array F of steps; the theorems of the other modules  *)
(* give F and need no induction of their own for that.                     *)
(***************************************************************************)
EXTENDS Integers, WellFoundedInduction, TLAPS

\* A set of natural numbers that is not empty has a least element.
LEMMA Least ==
  ASSUME NEW T, T \subseteq Nat, T # {}
  PROVE  \E n \in T : \A k \in T : n <= k
<1> DEFINE R == OpToRel(<, Nat)
<1>1. IsWellFoundedOn(R, Nat)
  BY NatLessThanWellFounded
<1>2. \A x, y \in Nat : <<y, x>> \in R <=> y < x
  BY DEF OpToRel
<1> HIDE DEF R
<1>3. PICK n \in T : \A k \in T : ~ (<<k, n>> \in R)
  BY <1>1, WFMin, Zenon
<1>4. \A k \in T : ~(k < n)
  BY <1>2, <1>3
<1> QED BY <1>4

\* A set that has 0, and with every number below N the next one, has all up to N.
Inductive(S, N) == 0 \in S /\ \A n \in 0 .. N-1 : n \in S => n+1 \in S

\* Induction.
LEMMA Induct ==
  ASSUME NEW N \in Nat, NEW S, Inductive(S, N)
  PROVE  N \in S /\ 0 .. N \subseteq S
<1> DEFINE T == (0 .. N) \ S
<1> SUFFICES ASSUME T # {} PROVE FALSE
  <2>1. N \in 0 .. N
    OBVIOUS
  <2> QED BY <2>1
<1>1. T \subseteq Nat
  OBVIOUS
<1> HIDE DEF T
<1>2. PICK n \in T : \A k \in T : n <= k
  BY <1>1, Least
<1>3. n \in 0 .. N /\ n \notin S /\ n # 0
  BY <1>2 DEF T, Inductive
<1>4. n-1 \in 0 .. N-1 /\ n-1 \notin T
  BY <1>2, <1>3, <1>1
<1>5. n-1 \in S
  BY <1>4 DEF T
<1>6. (n-1)+1 \in S
  BY <1>4, <1>5 DEF Inductive
<1> QED BY <1>3, <1>6

------------------------------------------------------------------------------
\* F is an array of steps on a set X, and g[n] is what the first n of them make of a.
AreSteps(F, N, X) == \A n \in 1 .. N, x \in X : F[n][x] \in X

IsRun(g, F, N, X, a) ==
  g \in [0 .. N -> X] /\ g[0] = a /\ \A n \in 1 .. N : g[n] = F[n][g[n-1]]

\* Steps can be taken one after the other.
LEMMA Recursion ==
  ASSUME NEW N \in Nat, NEW X, NEW a \in X, NEW F, AreSteps(F, N, X)
  PROVE  \E g : IsRun(g, F, N, X, a)
<1> DEFINE S == {m \in 0 .. N : \E g : IsRun(g, F, m, X, a)}
<1>1. 0 \in S
  <2> DEFINE g == [n \in 0 .. 0 |-> a]
  <2>1. IsRun(g, F, 0, X, a)
    BY DEF IsRun
  <2>2. 0 \in 0 .. N
    OBVIOUS
  <2> HIDE DEF g
  <2> QED BY <2>1, <2>2
<1>2. ASSUME NEW m \in 0 .. N-1, m \in S PROVE m+1 \in S
  <2>1. PICK g : g \in [0 .. m -> X] /\ g[0] = a /\ \A n \in 1 .. m : g[n] = F[n][g[n-1]]
    BY <1>2 DEF IsRun
  <2> DEFINE h == [n \in 0 .. m+1 |-> IF n <= m THEN g[n] ELSE F[m+1][g[m]]]
  <2>2. h \in [0 .. m+1 -> X] /\ h[0] = a
    <3>1. F[m+1][g[m]] \in X
      BY <2>1 DEF AreSteps
    <3>2. \A n \in 0 .. m+1 : n <= m => g[n] \in X
      BY <2>1
    <3> QED BY <2>1, <3>1, <3>2
  <2>3. ASSUME NEW n \in 1 .. m+1 PROVE h[n] = F[n][h[n-1]]
    <3>1. n-1 \in 0 .. m /\ h[n-1] = g[n-1]
      OBVIOUS
    <3>2. CASE n <= m
      BY <2>1, <3>1, <3>2
    <3>3. CASE n = m+1
      BY <3>1, <3>3
    <3> QED BY <3>2, <3>3
  <2> HIDE DEF h
  <2>4. IsRun(h, F, m+1, X, a)
    BY <2>2, <2>3 DEF IsRun
  <2>5. m+1 \in 0 .. N
    OBVIOUS
  <2> QED BY <2>4, <2>5
<1> HIDE DEF S
<1>3. Inductive(S, N)
  BY <1>1, <1>2 DEF Inductive
<1>4. N \in S
  BY <1>3, Induct
<1> QED BY <1>4 DEF S

==============================================================================
