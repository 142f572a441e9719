------------------------------ MODULE Induction ------------------------------
(***************************************************************************)
(* Induction over natural numbers in a form without operator parameters:   *)
(* what is to be shown of every number is membership in a set.  It follows *)
(* from the library's theorem on minimal elements of well-founded          *)
(* relations.  The sums over layers in the code are defined by recursion,  *)
(* and what these definitions compute is proved with it.                   *)
(***************************************************************************)
EXTENDS LayerSums, WellFoundedInduction, TLAPS

(* A set of natural numbers that is not empty has a least element.         *)
LEMMA LeastNumber ==
  ASSUME NEW T \in SUBSET Nat, T # {}
  PROVE  \E n \in T : \A m \in T : n <= m
<1> DEFINE R == OpToRel(<, Nat)
<1>1. IsWellFoundedOn(R, Nat)
  BY NatLessThanWellFounded
<1>2. \A m, n \in Nat : <<m, n>> \notin R => n <= m
  BY DEF OpToRel
<1> HIDE DEF R
<1>3. PICK n \in T : \A m \in T : <<m, n>> \notin R
  BY <1>1, WFMin
<1>4. \A m \in T : n <= m
  BY <1>2, <1>3
<1> QED BY <1>4

(* A set with 0, and with the successor of each number in it, has them all.*)
LEMMA SetInduction ==
  ASSUME NEW S, 0 \in S, \A n \in Nat : n \in S => n + 1 \in S
  PROVE  Nat \subseteq S
<1> SUFFICES ASSUME Nat \ S # {} PROVE FALSE
  OBVIOUS
<1>1. PICK n \in Nat \ S : \A m \in Nat \ S : n <= m
  BY LeastNumber
<1>2. n - 1 \in Nat /\ n - 1 \in S
  BY <1>1
<1>3. (n - 1) + 1 = n
  OBVIOUS
<1> QED BY <1>1, <1>2, <1>3

-----------------------------------------------------------------------------

(* The same up to some number.                                             *)
LEMMA BoundedInduction ==
  ASSUME NEW N \in Nat, NEW S, 0 \in S, \A n \in 1 .. N : n - 1 \in S => n \in S
  PROVE  0 .. N \subseteq S
<1> DEFINE T == {n \in Nat : n <= N => n \in S}
<1>1. 0 \in T
  OBVIOUS
<1>2. ASSUME NEW n \in Nat, n \in T PROVE n + 1 \in T
  <2> SUFFICES ASSUME n + 1 <= N PROVE n + 1 \in S
    OBVIOUS
  <2>1. n \in S /\ n + 1 \in 1 .. N /\ (n + 1) - 1 = n
    BY <1>2
  <2> QED BY <2>1
<1> HIDE DEF T
<1>3. Nat \subseteq T
  BY <1>1, <1>2, SetInduction
<1> QED BY <1>3 DEF T

(* A function on 1 .. n is a sequence of length n.                         *)
LEMMA FunctionIsSequence ==
  ASSUME NEW A, NEW n \in Nat, NEW g \in [1 .. n -> A]
  PROVE  g \in Seq(A) /\ Len(g) = n
<1>1. g \in Seq(A)
  OBVIOUS
<1>2. DOMAIN g = 1 .. n /\ DOMAIN g = 1 .. Len(g) /\ Len(g) \in Nat
  BY <1>1
<1> QED BY <1>1, <1>2

-----------------------------------------------------------------------------

(* There is a function with the equations that define Sums.                *)
LEMMA SumsExist ==
  ASSUME NEW w, NEW s, Len(s) \in Nat
  PROVE  \E f : f = [n \in 0 .. Len(s) |-> IF n = 0 THEN 0 ELSE f[n - 1] + w[s[n]]]
<1> DEFINE Eq(f, k) == f = [n \in 0 .. k |-> IF n = 0 THEN 0 ELSE f[n - 1] + w[s[n]]]
           S == {k \in Nat : \E f : Eq(f, k)}
<1>1. 0 \in S
  <2> DEFINE f == [n \in 0 .. 0 |-> 0]
  <2>1. Eq(f, 0)
    OBVIOUS
  <2> QED BY <2>1
<1>2. ASSUME NEW k \in Nat, k \in S PROVE k + 1 \in S
  <2>1. PICK f : Eq(f, k)
    BY <1>2
  <2> DEFINE g == [n \in 0 .. k + 1 |-> IF n = k + 1 THEN f[k] + w[s[k + 1]] ELSE f[n]]
  <2>2. \A n \in 0 .. k + 1 : g[n] = IF n = 0 THEN 0 ELSE g[n - 1] + w[s[n]]
    BY <2>1
  <2>3. Eq(g, k + 1)
    BY <2>2
  <2> HIDE DEF g
  <2>4. \E h : Eq(h, k + 1)
    BY <2>3
  <2> QED BY <2>4
<1> HIDE DEF S
<1>3. Len(s) \in S
  BY <1>1, <1>2, SetInduction
<1> QED BY <1>3 DEF S

(* What Sums computes.                                                     *)
LEMMA SumsOf ==
  ASSUME NEW A, NEW w \in [A -> Int], NEW s \in Seq(A)
  PROVE  /\ Sums(w, s) \in [0 .. Len(s) -> Int]
         /\ Sums(w, s)[0] = 0
         /\ \A n \in 1 .. Len(s) : Sums(w, s)[n] = Sums(w, s)[n - 1] + w[s[n]]
<1> DEFINE Eq(f) == f = [n \in 0 .. Len(s) |-> IF n = 0 THEN 0 ELSE f[n - 1] + w[s[n]]]
           sum == Sums(w, s)
           S == {k \in Nat : k <= Len(s) => sum[k] \in Int}
<1>1. sum = CHOOSE f : Eq(f)
  BY DEF Sums
<1>2. \E f : Eq(f)
  <2>1. Len(s) \in Nat
    OBVIOUS
  <2> QED BY <2>1, SumsExist
<1>3. Eq(sum)
  <2> HIDE DEF Eq, sum
  <2> QED BY <1>1, <1>2
<1> HIDE DEF sum
<1>4. sum[0] = 0 /\ \A n \in 1 .. Len(s) : sum[n] = sum[n - 1] + w[s[n]]
  BY <1>3
<1>5. 0 \in S
  BY <1>4
<1>6. ASSUME NEW k \in Nat, k \in S PROVE k + 1 \in S
  <2> SUFFICES ASSUME k + 1 <= Len(s) PROVE sum[k + 1] \in Int
    OBVIOUS
  <2>1. sum[k + 1] = sum[k] + w[s[k + 1]]
    BY <1>4
  <2> QED BY <1>6, <2>1
<1> HIDE DEF S
<1>7. Nat \subseteq S
  BY <1>5, <1>6, SetInduction
<1>8. sum \in [0 .. Len(s) -> Int]
  BY <1>3, <1>7 DEF S
<1> QED BY <1>4, <1>8 DEF sum

=============================================================================
