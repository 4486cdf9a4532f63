----------------------------- MODULE FilterProofs -----------------------------
(***************************************************************************)
(* What Filter computes, for every sequence and every set.  The induction  *)
(* over the sequence is done by hand: a least number among those at which  *)
(* a claim fails leads to a contradiction.                                 *)
(***************************************************************************)
EXTENDS Filters, NaturalsInduction, WellFoundedInduction, TLAPS

(* A set of numbers that is not empty has a least one. *)
LEMMA LeastNumber ==
  ASSUME NEW S \in SUBSET Nat, S # {}
  PROVE  \E n \in S : \A k \in S : n <= k
<1> DEFINE R == OpToRel(<, Nat)
<1>1. IsWellFoundedOn(R, Nat)
  BY NatLessThanWellFounded
<1>2. PICK n \in S : \A k \in S : ~(<<k, n>> \in R)
  <2> HIDE DEF R
  <2>1. QED
    BY <1>1, WFMin
<1>3. \A k \in S : k < n => <<k, n>> \in R
  BY DEF OpToRel
<1> HIDE DEF R
<1>4. ASSUME NEW k \in S PROVE n <= k
  <2>1. ~(k < n)
    BY <1>2, <1>3
  <2>2. QED
    BY <2>1
<1>5. QED
  BY <1>4

(* The value at i of the function that Filter is defined by, from the one  *)
(* before it.                                                              *)
FilterStep(s, S, f, i) ==
  IF i = 0 THEN <<>>
  ELSE IF s[i] \in S THEN Append(f[i - 1], s[i]) ELSE f[i - 1]

(* f is that function on the first n elements of s. *)
IsUpTo(s, S, n, f) == f = [i \in 0..n |-> FilterStep(s, S, f, i)]

(* The function exists: one for a shorter prefix can be extended. *)
LEMMA FilterExists ==
  ASSUME NEW s, NEW S, NEW m \in Nat
  PROVE  \E f : IsUpTo(s, S, m, f)
<1> DEFINE Bad == {n \in Nat : ~\E f : IsUpTo(s, S, n, f)}
<1>1. SUFFICES ASSUME Bad # {} PROVE FALSE
  OBVIOUS
<1>2. PICK n \in Bad : \A k \in Bad : n <= k
  <2>1. Bad \in SUBSET Nat
    OBVIOUS
  <2> HIDE DEF Bad
  <2>2. QED
    BY <1>1, <2>1, LeastNumber
<1>3. n \in Nat /\ ~\E f : IsUpTo(s, S, n, f)
  BY <1>2
<1>4. CASE n = 0
  <2> DEFINE g == [i \in 0..0 |-> <<>>]
  <2>1. IsUpTo(s, S, 0, g)
    BY DEF IsUpTo, FilterStep
  <2>2. QED
    BY <1>3, <1>4, <2>1
<1>5. CASE n # 0
  <2>1. n - 1 \in Nat /\ ~(n <= n - 1)
    BY <1>3, <1>5
  <2>2. PICK f : IsUpTo(s, S, n - 1, f)
    BY <1>2, <2>1
  <2> DEFINE g == [i \in 0..n |-> IF i = n THEN FilterStep(s, S, f, n) ELSE f[i]]
  <2>3. ASSUME NEW i \in 0..n PROVE g[i] = FilterStep(s, S, g, i)
    <3>1. CASE i = n
      <4>1. n - 1 \in 0..n /\ n - 1 # n /\ g[n - 1] = f[n - 1]
        BY <1>3, <2>1
      <4>2. g[n] = FilterStep(s, S, f, n)
        BY <1>3
      <4> HIDE DEF g
      <4>3. QED
        BY <3>1, <4>1, <4>2 DEF FilterStep
    <3>2. CASE i # n
      <4>1. i \in 0..(n - 1) /\ g[i] = f[i]
        BY <1>3, <3>2
      <4>2. f[i] = FilterStep(s, S, f, i)
        BY <2>2, <4>1 DEF IsUpTo
      <4>3. i = 0 \/ (i - 1 \in 0..n /\ i - 1 # n /\ g[i - 1] = f[i - 1])
        BY <1>3, <4>1
      <4> HIDE DEF g
      <4>4. QED
        BY <4>1, <4>2, <4>3 DEF FilterStep
    <3>3. QED
      BY <3>1, <3>2
  <2>4. IsUpTo(s, S, n, g)
    <3>1. g = [i \in 0..n |-> g[i]]
      OBVIOUS
    <3> HIDE DEF g
    <3>2. QED
      BY <2>3, <3>1 DEF IsUpTo
  <2>5. QED
    BY <1>3, <2>4
<1>6. QED
  BY <1>4, <1>5

(* Filter is the last value of the function. *)
LEMMA FilterIsLast ==
  ASSUME NEW s, NEW S, Len(s) \in Nat
  PROVE  \E f : IsUpTo(s, S, Len(s), f) /\ Filter(s, S) = f[Len(s)]
<1>1. PICK h : IsUpTo(s, S, Len(s), h)
  BY FilterExists
<1>2. QED
  BY <1>1 DEF Filter, IsUpTo, FilterStep

(* What t, selected from the first n elements of s, owes to them: it holds *)
(* those in S and no other, at increasing places.                          *)
Selects(t, s, S, n) ==
  /\ Len(t) <= n
  /\ \A j \in 1..n : s[j] \in S => \E k \in 1..Len(t) : t[k] = s[j]
  /\ \E p \in [1..Len(t) -> 1..n] :
       /\ \A k \in 1..Len(t) : t[k] = s[p[k]] /\ t[k] \in S
       /\ \A k, l \in 1..Len(t) : k < l => p[k] < p[l]

(* One more element that is selected. *)
LEMMA SelectsOneMore ==
  ASSUME NEW T, NEW s \in Seq(T), NEW S, NEW n \in Nat, n + 1 \in 1..Len(s),
         NEW t \in Seq(T), Selects(t, s, S, n), s[n + 1] \in S
  PROVE  Selects(Append(t, s[n + 1]), s, S, n + 1)
<1> DEFINE u == Append(t, s[n + 1])
<1>1. PICK p \in [1..Len(t) -> 1..n] :
        /\ \A k \in 1..Len(t) : t[k] = s[p[k]] /\ t[k] \in S
        /\ \A k, l \in 1..Len(t) : k < l => p[k] < p[l]
  BY DEF Selects
<1>2. Len(t) \in Nat /\ Len(u) = Len(t) + 1 /\ u[Len(t) + 1] = s[n + 1]
  OBVIOUS
<1>3. \A k \in 1..Len(t) : u[k] = t[k]
  OBVIOUS
<1> HIDE DEF u
<1> DEFINE q == [k \in 1..(Len(t) + 1) |-> IF k = Len(t) + 1 THEN n + 1 ELSE p[k]]
<1>4. \A k \in 1..Len(t) : k \in 1..(Len(t) + 1) /\ q[k] = p[k] /\ p[k] \in 1..n
  BY <1>2
<1>5. q[Len(t) + 1] = n + 1
  BY <1>2
<1>6. \A k \in 1..(Len(t) + 1) : k \in 1..Len(t) \/ k = Len(t) + 1
  BY <1>2
<1>7. q \in [1..(Len(t) + 1) -> 1..(n + 1)]
  <2>1. ASSUME NEW k \in 1..(Len(t) + 1) PROVE q[k] \in 1..(n + 1)
    BY <1>2, <1>4, <1>5, <1>6
  <2>2. q = [k \in 1..(Len(t) + 1) |-> q[k]]
    OBVIOUS
  <2> HIDE DEF q
  <2>3. QED
    BY <2>1, <2>2
<1> HIDE DEF q
<1>8. \A k \in 1..(Len(t) + 1) : u[k] = s[q[k]] /\ u[k] \in S
  BY <1>1, <1>2, <1>3, <1>4, <1>5, <1>6
<1>9. ASSUME NEW k \in 1..(Len(t) + 1), NEW l \in 1..(Len(t) + 1), k < l
      PROVE  q[k] < q[l]
  <2>1. k \in 1..Len(t)
    BY <1>2, <1>9
  <2>2. CASE l \in 1..Len(t)
    BY <1>1, <1>4, <2>1, <2>2, <1>9
  <2>3. CASE l = Len(t) + 1
    BY <1>4, <1>5, <2>1, <2>3
  <2>4. QED
    BY <1>6, <2>2, <2>3
<1>10. ASSUME NEW j \in 1..(n + 1), s[j] \in S
       PROVE  \E k \in 1..(Len(t) + 1) : u[k] = s[j]
  <2>1. CASE j = n + 1
    BY <1>2, <2>1
  <2>2. CASE j # n + 1
    <3>1. j \in 1..n
      BY <2>2
    <3>2. PICK k \in 1..Len(t) : t[k] = s[j]
      BY <1>10, <3>1 DEF Selects
    <3>3. QED
      BY <1>3, <1>4, <3>2
  <2>3. QED
    BY <2>1, <2>2
<1>11. Len(u) <= n + 1
  BY <1>2 DEF Selects
<1>12. Selects(u, s, S, n + 1)
  BY <1>2, <1>7, <1>8, <1>9, <1>10, <1>11 DEF Selects
<1>13. QED
  BY <1>12 DEF u

(* One more element that is not. *)
LEMMA SelectsNoMore ==
  ASSUME NEW T, NEW s \in Seq(T), NEW S, NEW n \in Nat, n + 1 \in 1..Len(s),
         NEW t \in Seq(T), Selects(t, s, S, n), s[n + 1] \notin S
  PROVE  Selects(t, s, S, n + 1)
<1>1. PICK p \in [1..Len(t) -> 1..n] :
        /\ \A k \in 1..Len(t) : t[k] = s[p[k]] /\ t[k] \in S
        /\ \A k, l \in 1..Len(t) : k < l => p[k] < p[l]
  BY DEF Selects
<1>2. p \in [1..Len(t) -> 1..(n + 1)]
  BY <1>1
<1>3. \A j \in 1..(n + 1) : s[j] \in S => \E k \in 1..Len(t) : t[k] = s[j]
  <2>1. \A j \in 1..(n + 1) : j \in 1..n \/ j = n + 1
    OBVIOUS
  <2>2. QED
    BY <2>1 DEF Selects
<1>4. Len(t) <= n + 1
  BY DEF Selects
<1>5. QED
  BY <1>1, <1>2, <1>3, <1>4 DEF Selects

(* What is selected from s. *)
LEMMA FilterSelects ==
  ASSUME NEW T, NEW s \in Seq(T), NEW S
  PROVE  Filter(s, S) \in Seq(T) /\ Selects(Filter(s, S), s, S, Len(s))
<1>1. Len(s) \in Nat
  OBVIOUS
<1>2. PICK f : IsUpTo(s, S, Len(s), f) /\ Filter(s, S) = f[Len(s)]
  BY <1>1, FilterIsLast
<1>3. \A i \in 0..Len(s) : f[i] = FilterStep(s, S, f, i)
  BY <1>2 DEF IsUpTo
<1> DEFINE Bad == {i \in 0..Len(s) : ~(f[i] \in Seq(T) /\ Selects(f[i], s, S, i))}
<1>4. SUFFICES ASSUME Bad # {} PROVE FALSE
  BY <1>1, <1>2
<1>5. PICK n \in Bad : \A k \in Bad : n <= k
  <2>1. Bad \in SUBSET Nat
    BY <1>1
  <2> HIDE DEF Bad
  <2>2. QED
    BY <1>4, <2>1, LeastNumber
<1>6. n \in 0..Len(s) /\ ~(f[n] \in Seq(T) /\ Selects(f[n], s, S, n))
  BY <1>5
<1>7. CASE n = 0
  <2>1. f[0] = <<>>
    BY <1>1, <1>3 DEF FilterStep
  <2>2. << >> \in Seq(T) /\ Len(<< >>) = 0
    OBVIOUS
  <2>3. Selects(<< >>, s, S, 0)
    <3>1. 1..0 = {}
      OBVIOUS
    <3>2. PICK p : p = [k \in 1..0 |-> 0]
      OBVIOUS
    <3>3. p \in [1..0 -> 1..0]
      BY <3>1, <3>2
    <3>4. \A j \in 1..0 : FALSE
      BY <3>1
    <3>5. PICK t : t = << >>
      OBVIOUS
    <3>6. Len(t) = 0
      BY <3>5
    <3>7. Selects(t, s, S, 0)
      <4>1. \A k, l \in 1..0 : k < l => p[k] < p[l]
        BY <3>4
      <4>2. \A k \in 1..0 : t[k] = s[p[k]] /\ t[k] \in S
        BY <3>4
      <4>3. \A j \in 1..0 : s[j] \in S => \E k \in 1..0 : t[k] = s[j]
        BY <3>4
      <4>4. 0 <= 0
        OBVIOUS
      <4>5. QED
        BY <3>3, <3>6, <4>1, <4>2, <4>3, <4>4, Zenon DEF Selects
    <3>8. QED
      BY <3>5, <3>7
  <2>4. QED
    BY <1>6, <1>7, <2>1, <2>2, <2>3
<1>8. CASE n # 0
  <2>1. PICK k \in 0..Len(s) : n = k + 1 /\ k + 1 \in 1..Len(s)
    <3>1. n - 1 \in 0..Len(s) /\ n = (n - 1) + 1 /\ (n - 1) + 1 \in 1..Len(s)
      BY <1>1, <1>6, <1>8
    <3>2. QED
      BY <3>1
  <2>2. f[k] \in Seq(T) /\ Selects(f[k], s, S, k)
    <3>1. ~(n <= k)
      BY <1>1, <2>1
    <3>2. QED
      BY <1>5, <2>1, <3>1
  <2>3. f[n] = IF s[k + 1] \in S THEN Append(f[k], s[k + 1]) ELSE f[k]
    <3>1. f[n] = FilterStep(s, S, f, n) /\ n - 1 = k
      BY <1>1, <1>3, <1>6, <2>1
    <3>2. QED
      BY <1>8, <2>1, <3>1 DEF FilterStep
  <2>4. s[k + 1] \in T /\ k \in Nat
    BY <1>1, <2>1
  <2>5. CASE s[k + 1] \in S
    <3>1. f[n] = Append(f[k], s[k + 1]) /\ Append(f[k], s[k + 1]) \in Seq(T)
      BY <2>2, <2>3, <2>4, <2>5
    <3>2. Selects(Append(f[k], s[k + 1]), s, S, k + 1)
      BY <2>1, <2>2, <2>4, <2>5, SelectsOneMore
    <3>3. QED
      BY <1>6, <2>1, <3>1, <3>2
  <2>6. CASE s[k + 1] \notin S
    <3>1. Selects(f[k], s, S, k + 1)
      BY <2>1, <2>2, <2>4, <2>6, SelectsNoMore
    <3>2. QED
      BY <1>6, <2>1, <2>2, <2>3, <2>6, <3>1
  <2>7. QED
    BY <2>5, <2>6
<1>9. QED
  BY <1>7, <1>8
=============================================================================
