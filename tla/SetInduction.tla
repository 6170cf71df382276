------------------------------ MODULE SetInduction ------------------------------
(***************************************************************************)
(* Induction over the naturals as a fact about sets, so that it can be     *)
(* cited with the set of the numbers for which something holds; and with   *)
(* it, that a function defined by recursion over an interval exists.  The  *)
(* loops of the firmware that are modelled as such functions (the decoder  *)
(* of a BLE-MIDI packet, the search for the widest window) are proved      *)
(* about with these.                                                       *)
(***************************************************************************)
EXTENDS Integers, Sequences, WellFoundedInduction, TLAPS

\* A set of naturals that is not empty has a least element.
LEMMA LeastOf ==
  ASSUME NEW T, T \subseteq Nat, T # {}
  PROVE  \E x \in T : \A y \in T : x <= y
<1> DEFINE R == OpToRel(<, Nat)
<1>1. IsWellFoundedOn(R, Nat)
  BY NatLessThanWellFounded
<1>2. \A x, y \in Nat : x < y => <<x, y>> \in R
  BY DEF OpToRel
<1> HIDE DEF R
<1>3. PICK x \in T : \A y \in T : ~ (<<y, x>> \in R)
  BY <1>1, WFMin
<1>4. ASSUME NEW y \in T PROVE x <= y
  <2>1. x \in Nat /\ y \in Nat /\ ~ (y < x)
    BY <1>2, <1>3
  <2>2. QED BY <2>1
<1>5. QED BY <1>4

\* What holds of 0, and of each number up to N if of the one before, holds up to N.
LEMMA UpTo ==
  ASSUME NEW N \in Nat, NEW T, 0 \in T, \A k \in 1..N : k - 1 \in T => k \in T
  PROVE  0..N \subseteq T
<1> SUFFICES ASSUME NEW k \in (0..N) \ T PROVE FALSE
  OBVIOUS
<1>1. PICK x \in (0..N) \ T : \A y \in (0..N) \ T : x <= y
  <2> DEFINE rest == (0..N) \ T
  <2>1. rest \subseteq Nat /\ rest # {}
    OBVIOUS
  <2> HIDE DEF rest
  <2>2. \E x \in rest : \A y \in rest : x <= y
    BY <2>1, LeastOf
  <2>3. QED BY <2>2 DEF rest
<1>2. x # 0 /\ x \in 1..N /\ x - 1 \in 0..N /\ x - 1 < x
  BY <1>1
<1>3. QED BY <1>1, <1>2

\* A function may be defined by recursion: from x, the value at k by the step G
\* from the value before.
LEMMA Recursion ==
  ASSUME NEW S, NEW x \in S, NEW N \in Nat, NEW G \in [1..N -> [S -> S]]
  PROVE  \E f \in [0..N -> S] : f[0] = x /\ \A k \in 1..N : f[k] = G[k][f[k - 1]]
<1> DEFINE Upto(n) == \E f \in [0..n -> S] : f[0] = x /\ \A k \in 1..n : f[k] = G[k][f[k - 1]]
           T == {n \in 0..N : Upto(n)}
<1>1. 0 \in T
  <2> DEFINE f == [k \in 0..0 |-> x]
  <2>1. f \in [0..0 -> S] /\ f[0] = x
    OBVIOUS
  <2>2. \A k \in 1..0 : f[k] = G[k][f[k - 1]]
    OBVIOUS
  <2> HIDE DEF f
  <2>3. Upto(0)
    BY <2>1, <2>2
  <2>4. QED BY <2>3
<1>2. ASSUME NEW n \in 1..N, n - 1 \in T PROVE n \in T
  <2>1. PICK f \in [0..(n - 1) -> S] : f[0] = x /\ \A k \in 1..(n - 1) : f[k] = G[k][f[k - 1]]
    BY <1>2
  <2> DEFINE g == [k \in 0..n |-> IF k = n THEN G[n][f[n - 1]] ELSE f[k]]
  <2>2. G[n][f[n - 1]] \in S
    <3>1. n - 1 \in 0..(n - 1)
      OBVIOUS
    <3>2. f[n - 1] \in S
      BY <3>1
    <3>3. QED BY <3>2
  <2>3. g \in [0..n -> S] /\ g[0] = x
    BY <2>1, <2>2
  <2>4. ASSUME NEW k \in 1..n PROVE g[k] = G[k][g[k - 1]]
    <3>1. k - 1 \in 0..n /\ k - 1 # n /\ k \in 0..n /\ (k # n => k \in 1..(n - 1))
      OBVIOUS
    <3>2. g[k - 1] = f[k - 1]
      BY <3>1
    <3>3. QED BY <2>1, <3>1, <3>2
  <2>5. Upto(n)
    BY <2>3, <2>4
  <2>6. QED BY <2>5
<1>3. N \in T
  <2> HIDE DEF T
  <2>1. 0..N \subseteq T
    BY <1>1, <1>2, UpTo
  <2>2. QED BY <2>1
<1>4. QED BY <1>3
\* f has the sequences that come of x as those of by are put behind it one by one.
Chain(B, x, K, by, f) ==
  f \in [0..K -> Seq(B)] /\ f[0] = x /\ \A k \in 1..K : f[k] = f[k - 1] \o by[k]

\* In the last of them each of by lies between the ends of two.
Joins(K, by, f) ==
  /\ \A k \in 1..K : Len(f[k]) = Len(f[k - 1]) + Len(by[k])
  /\ \A k \in 0..K : Len(f[k]) \in Nat /\ Len(f[k]) <= Len(f[K])
  /\ \A k \in 1..K : \A i \in 1..Len(by[k]) : f[K][Len(f[k - 1]) + i] = by[k][i]

LEMMA Concatenation ==
  ASSUME NEW B, NEW x, NEW K \in Nat, NEW by, by \in [1..K -> Seq(B)], NEW f, Chain(B, x, K, by, f)
  PROVE  Joins(K, by, f)
<1> USE DEF Chain
<1>1. \A q, w \in Seq(B) :
        /\ q \o w \in Seq(B) /\ Len(q \o w) = Len(q) + Len(w)
        /\ Len(q) \in Nat /\ Len(w) \in Nat
        /\ \A i \in 1..Len(q) : (q \o w)[i] = q[i]
        /\ \A i \in 1..Len(w) : (q \o w)[Len(q) + i] = w[i]
  OBVIOUS
<1>2. ASSUME NEW k \in 1..K
      PROVE  /\ Len(f[k]) = Len(f[k - 1]) + Len(by[k]) /\ Len(f[k - 1]) \in Nat /\ Len(by[k]) \in Nat
             /\ \A i \in 1..Len(f[k - 1]) : f[k][i] = f[k - 1][i]
             /\ \A i \in 1..Len(by[k]) : f[k][Len(f[k - 1]) + i] = by[k][i]
  <2>1. f[k - 1] \in Seq(B) /\ by[k] \in Seq(B) /\ f[k] = f[k - 1] \o by[k]
    OBVIOUS
  <2>2. QED BY <1>1, <2>1
<1>3. \A k \in 0..K : Len(f[k]) \in Nat
  OBVIOUS
<1> DEFINE Prefix(k) == Len(f[k]) <= Len(f[K]) /\ \A i \in 1..Len(f[k]) : f[K][i] = f[k][i]
           T == {m \in 0..K : Prefix(K - m)}
<1>4. 0 \in T
  <2>1. K - 0 = K /\ 0 \in 0..K /\ K \in 0..K
    OBVIOUS
  <2>2. Prefix(K)
    BY <1>3, <2>1
  <2>3. QED BY <2>1, <2>2
<1>5. ASSUME NEW m \in 1..K, m - 1 \in T PROVE m \in T
  <2>1. PICK k \in 1..K : k = K - (m - 1) /\ K - m = k - 1 /\ m \in 0..K
    <3>1. K - (m - 1) \in 1..K /\ K - m = K - (m - 1) - 1 /\ m \in 0..K
      OBVIOUS
    <3>2. QED BY <3>1
  <2>2. Prefix(k)
    BY <1>5, <2>1
  <2>3. Len(f[k - 1]) <= Len(f[k]) /\ \A i \in 1..Len(f[k - 1]) : i \in 1..Len(f[k])
    BY <1>2
  <2>4. k \in 0..K /\ K \in 0..K
    OBVIOUS
  <2>5. Len(f[k - 1]) \in Nat /\ Len(f[k]) \in Nat /\ Len(f[K]) \in Nat
    BY <1>2, <1>3, <2>4
  <2>6. Prefix(k - 1)
    BY <1>2, <2>2, <2>3, <2>5
  <2>7. QED BY <2>1, <2>6
<1>6. 0..K \subseteq T
  <2> HIDE DEF T
  <2>1. QED BY <1>4, <1>5, UpTo
<1>7. ASSUME NEW k \in 0..K PROVE Prefix(k)
  <2>1. K - k \in 0..K /\ K - (K - k) = k
    OBVIOUS
  <2>2. Prefix(K - (K - k))
    BY <1>6, <2>1
  <2>3. QED BY <2>1, <2>2
<1> HIDE DEF T
<1>8. ASSUME NEW k \in 1..K, NEW i \in 1..Len(by[k]) PROVE f[K][Len(f[k - 1]) + i] = by[k][i]
  <2>1. Len(f[k - 1]) + i \in 1..Len(f[k])
    BY <1>2
  <2>2. k \in 0..K
    OBVIOUS
  <2>3. f[K][Len(f[k - 1]) + i] = f[k][Len(f[k - 1]) + i]
    BY <1>7, <2>1, <2>2
  <2>4. QED BY <1>2, <2>3
<1>9. QED BY <1>2, <1>3, <1>7, <1>8 DEF Joins
\* Such sequences exist.
LEMMA Concatenated ==
  ASSUME NEW B, NEW x, NEW K, NEW by
  PROVE  x \in Seq(B) /\ K \in Nat /\ by \in [1..K -> Seq(B)] => \E f : Chain(B, x, K, by, f)
<1>1. SUFFICES ASSUME x \in Seq(B), K \in Nat, by \in [1..K -> Seq(B)]
               PROVE  \E f : Chain(B, x, K, by, f)
  OBVIOUS
<1> DEFINE S == Seq(B)
           G == [k \in 1..K |-> [q \in S |-> q \o by[k]]]
<1>2. \A k \in 1..K : \A q \in S : q \o by[k] \in S
  BY <1>1
<1>3. x \in S /\ K \in Nat
  BY <1>1
<1> HIDE DEF S
<1>4. G \in [1..K -> [S -> S]]
  BY <1>2
<1>5. \A k \in 1..K : \A q \in S : G[k][q] = q \o by[k]
  OBVIOUS
<1> HIDE DEF G
<1>6. \E f \in [0..K -> S] : f[0] = x /\ \A k \in 1..K : f[k] = G[k][f[k - 1]]
  BY <1>3, <1>4, Recursion
<1>7. PICK f \in [0..K -> S] : f[0] = x /\ \A k \in 1..K : f[k] = G[k][f[k - 1]]
  BY <1>6
<1>8. ASSUME NEW k \in 1..K PROVE f[k] = f[k - 1] \o by[k]
  <2>1. k - 1 \in 0..K
    BY <1>3
  <2>2. f[k - 1] \in S
    BY <2>1
  <2>3. QED BY <1>5, <1>7, <2>2
<1>9. Chain(B, x, K, by, f)
  BY <1>7, <1>8 DEF S, Chain
<1>10. QED BY <1>9
===============================================================================
