--------------------------- MODULE ResultListProofs ---------------------------
(***************************************************************************)
(* Proofs about ResultList, for any metrics, orders, num_to_keep and       *)
(* number of reports.                                                      *)
(***************************************************************************)
EXTENDS ResultList, FilterProofs, FiniteSetTheorems, SequenceTheorems

Results == [index : Nat, value : Values]

ConfigOK == config \in [scored : BOOLEAN, order : ScoreOrders]

-----------------------------------------------------------------------------
(* The order of the results. *)

(* A score is a pair of numbers, NaN and missing attributes included; so is *)
(* what stands for the score of a result that has none.                      *)
LEMMA ScoreType ==
  ASSUME ConfigOK, NEW r \in Results
  PROVE  Score(r) \in {-1, 0, 1} \X Int
<1>1. r.value \in Metrics \cup {Missing, NaN, Text}
  BY DEF Results, Values
<1>2. Infinity \in Int /\ -Infinity \in Int /\ Metrics \subseteq Int
  BY ResultListAssumption
<1>3. CASE Unscorable(r)
  <2>1. Text # NaN
    BY ResultListAssumption
  <2>2. Score(r) = NoScore
    BY <1>3, <2>1 DEF Score, Unscorable
  <2>3. QED
    BY <2>2 DEF NoScore
<1>4. CASE ~Unscorable(r) /\ config.scored /\ r.value = NaN
  BY <1>2, <1>4 DEF Score
<1>5. CASE ~Unscorable(r) /\ ~(config.scored /\ r.value = NaN)
  <2>1. Raw(r.value) \in Int
    BY <1>1, <1>2, <1>5 DEF Raw, Unscorable
  <2>2. (IF config.order = "max" THEN 1 ELSE -1) * Raw(r.value) \in Int
    BY <2>1
  <2>3. QED
    BY <1>5, <2>2 DEF Score
<1>6. QED
  BY <1>3, <1>4, <1>5

(* Better is irreflexive and transitive, and decides between two results   *)
(* of different report index.                                              *)
LEMMA BetterOrder ==
  ASSUME ConfigOK, NEW a \in Results, NEW b \in Results
  PROVE  /\ ~Better(a, a)
         /\ Better(a, b) => ~Better(b, a)
         /\ \A c \in Results : Better(a, b) /\ Better(b, c) => Better(a, c)
         /\ a.index # b.index => Better(a, b) \/ Better(b, a)
<1>1. a.index \in Nat /\ b.index \in Nat
  BY DEF Results
<1>2. PICK s, t : s = Score(a) /\ t = Score(b)
  OBVIOUS
<1>3. s \in {-1, 0, 1} \X Int /\ t \in {-1, 0, 1} \X Int
  BY <1>2, ScoreType
<1>4. /\ s[1] \in Int /\ s[2] \in Int /\ t[1] \in Int /\ t[2] \in Int
      /\ s[1] = t[1] /\ s[2] = t[2] => s = t
  BY <1>3
<1>5. ~Better(a, a)
  BY <1>1, <1>2, <1>4 DEF Better, Greater
<1>6. Better(a, b) => ~Better(b, a)
  BY <1>1, <1>2, <1>4 DEF Better, Greater
<1>7. a.index # b.index => Better(a, b) \/ Better(b, a)
  BY <1>1, <1>2, <1>4 DEF Better, Greater
<1>8. ASSUME NEW c \in Results, Better(a, b), Better(b, c) PROVE Better(a, c)
  <2>1. PICK u : u = Score(c)
    OBVIOUS
  <2>2. u \in {-1, 0, 1} \X Int
    BY <2>1, ScoreType
  <2>3. u[1] \in Int /\ u[2] \in Int /\ c.index \in Nat
    BY <2>2 DEF Results
  <2>4. QED
    BY <1>1, <1>2, <1>4, <1>8, <2>1, <2>3 DEF Better, Greater
<1>9. QED
  BY <1>5, <1>6, <1>7, <1>8

(* The list is sorted, and no report is in it twice. *)
Ranked(s) ==
  \A i, j \in DOMAIN s : i < j => Better(s[j], s[i]) /\ s[i].index # s[j].index

(* A selection from a ranked list is ranked. *)
LEMMA FilterRanked ==
  ASSUME NEW s \in Seq(Results), Ranked(s), NEW S
  PROVE  /\ Filter(s, S) \in Seq(Results)
         /\ Ranked(Filter(s, S))
         /\ ToSet(Filter(s, S)) \subseteq ToSet(s)
<1> DEFINE t == Filter(s, S)
<1>1. t \in Seq(Results) /\ Selects(t, s, S, Len(s))
  BY FilterSelects
<1> HIDE DEF t
<1>2. PICK p \in [1..Len(t) -> 1..Len(s)] :
        /\ \A k \in 1..Len(t) : t[k] = s[p[k]] /\ t[k] \in S
        /\ \A k, l \in 1..Len(t) : k < l => p[k] < p[l]
  BY <1>1 DEF Selects
<1>3. DOMAIN s = 1..Len(s) /\ DOMAIN t = 1..Len(t)
  BY <1>1
<1>4. Ranked(t)
  <2>1. SUFFICES ASSUME NEW k \in DOMAIN t, NEW l \in DOMAIN t, k < l
                 PROVE  Better(t[l], t[k]) /\ t[k].index # t[l].index
    BY DEF Ranked
  <2>2. p[k] \in DOMAIN s /\ p[l] \in DOMAIN s /\ p[k] < p[l]
    BY <1>2, <1>3, <2>1
  <2>3. t[k] = s[p[k]] /\ t[l] = s[p[l]]
    BY <1>2, <1>3
  <2>4. QED
    BY <2>2, <2>3 DEF Ranked
<1>5. ToSet(t) \subseteq ToSet(s)
  BY <1>2, <1>3 DEF ToSet
<1>6. QED
  BY <1>1, <1>4, <1>5 DEF t

(* A part of a sequence. *)
LEMMA Part ==
  ASSUME NEW s \in Seq(Results), NEW m \in 1..(Len(s) + 1), NEW n \in (m - 1)..Len(s)
  PROVE  /\ SubSeq(s, m, n) \in Seq(Results)
         /\ Len(SubSeq(s, m, n)) = n - m + 1
         /\ \A k \in 1..(n - m + 1) : SubSeq(s, m, n)[k] = s[m + k - 1]
<1>1. m \in Int /\ n \in Int /\ Len(s) \in Nat /\ n - m + 1 >= 0
  OBVIOUS
<1>2. \A i \in m..n : s[i] \in Results
  BY <1>1
<1>3. /\ SubSeq(s, m, n) \in Seq(Results)
      /\ Len(SubSeq(s, m, n)) = IF m <= n THEN n - m + 1 ELSE 0
      /\ \A k \in 1..(n - m + 1) : SubSeq(s, m, n)[k] = s[m + k - 1]
  BY <1>1, <1>2, SubSeqProperties
<1>4. m <= n \/ n - m + 1 = 0
  BY <1>1
<1>5. QED
  BY <1>3, <1>4

(* A list without one of its elements is ranked, and has no other with its *)
(* report index.                                                           *)
LEMMA RemoveRanked ==
  ASSUME NEW s \in Seq(Results), Ranked(s), NEW r \in ToSet(s)
  PROVE  /\ RemoveFirst(s, r) \in Seq(Results)
         /\ Ranked(RemoveFirst(s, r))
         /\ ToSet(RemoveFirst(s, r)) \subseteq ToSet(s)
         /\ \A q \in ToSet(RemoveFirst(s, r)) : q.index # r.index
<1>1. Len(s) \in Nat /\ DOMAIN s = 1..Len(s)
  OBVIOUS
<1>2. PICK m \in 1..Len(s) : s[m] = r /\ RemoveFirst(s, r) = RemoveAt(s, m)
  <2> DEFINE I == {i \in 1..Len(s) : s[i] = r}
  <2>1. I # {} /\ I \in SUBSET Nat
    BY <1>1 DEF ToSet
  <2>2. SelectInSeq(s, LAMBDA v : v = r) = Min(I)
    BY <2>1 DEF SelectInSeq
  <2>3. Min(I) \in I
    <3> HIDE DEF I
    <3>1. \E n \in I : \A k \in I : n <= k
      BY <2>1, LeastNumber
    <3>2. QED
      BY <3>1 DEF Min
  <2>4. RemoveFirst(s, r) = RemoveAt(s, Min(I))
    BY <2>1, <2>2 DEF RemoveFirst
  <2>5. QED
    BY <2>3, <2>4
<1>3. PICK u : u = RemoveAt(s, m)
  OBVIOUS
<1>4. /\ u \in Seq(Results) /\ DOMAIN u = 1..(Len(s) - 1)
      /\ \A k \in 1..(Len(s) - 1) : u[k] = IF k < m THEN s[k] ELSE s[k + 1]
  <2>1. PICK a, b : a = SubSeq(s, 1, m - 1) /\ b = SubSeq(s, m + 1, Len(s))
    OBVIOUS
  <2>2. a \in Seq(Results) /\ Len(a) = m - 1 /\ \A k \in 1..(m - 1) : a[k] = s[k]
    BY <1>1, <2>1
  <2>3. /\ b \in Seq(Results) /\ Len(b) = Len(s) - m
        /\ \A k \in 1..(Len(s) - m) : b[k] = s[m + k]
    <3>1. m + 1 \in 1..(Len(s) + 1) /\ Len(s) \in ((m + 1) - 1)..Len(s)
      BY <1>1
    <3>2. /\ b \in Seq(Results) /\ Len(b) = Len(s) - (m + 1) + 1
          /\ \A k \in 1..(Len(s) - (m + 1) + 1) : b[k] = s[(m + 1) + k - 1]
      BY <2>1, <3>1, Part
    <3>3. /\ Len(s) - (m + 1) + 1 = Len(s) - m
          /\ \A k \in 1..(Len(s) - m) : (m + 1) + k - 1 = m + k
      BY <1>1
    <3>4. QED
      BY <3>2, <3>3
  <2>4. u = a \o b
    BY <1>3, <2>1 DEF RemoveAt
  <2>5. u \in Seq(Results) /\ Len(u) = Len(s) - 1 /\ DOMAIN u = 1..(Len(s) - 1)
    <3>1. m - 1 \in Nat /\ Len(s) - m \in Nat /\ (m - 1) + (Len(s) - m) = Len(s) - 1
      BY <1>1
    <3>2. u \in Seq(Results) /\ Len(u) = Len(a) + Len(b)
      BY <2>2, <2>3, <2>4, ConcatProperties
    <3>3. QED
      BY <2>2, <2>3, <3>1, <3>2
  <2>6. ASSUME NEW k \in 1..(Len(s) - 1) PROVE u[k] = IF k < m THEN s[k] ELSE s[k + 1]
    <3>1. CASE k < m
      BY <1>1, <2>2, <2>3, <2>4, <3>1
    <3>2. CASE ~(k < m)
      <4>1. k - (m - 1) \in 1..(Len(s) - m) /\ m + (k - (m - 1)) = k + 1
        BY <1>1, <3>2
      <4>2. u[k] = b[k - (m - 1)]
        BY <1>1, <2>2, <2>3, <2>4, <3>2
      <4>3. QED
        BY <2>3, <3>2, <4>1, <4>2
    <3>3. QED
      BY <3>1, <3>2
  <2>7. QED
    BY <2>5, <2>6
<1>5. PICK q \in [1..(Len(s) - 1) -> 1..Len(s)] :
        \A k \in 1..(Len(s) - 1) : q[k] = IF k < m THEN k ELSE k + 1
  <2>1. [k \in 1..(Len(s) - 1) |-> IF k < m THEN k ELSE k + 1]
          \in [1..(Len(s) - 1) -> 1..Len(s)]
    BY <1>1
  <2>2. QED
    BY <2>1
<1>6. /\ \A k \in 1..(Len(s) - 1) : u[k] = s[q[k]] /\ q[k] # m
      /\ \A k, l \in 1..(Len(s) - 1) : k < l => q[k] < q[l]
  BY <1>1, <1>4, <1>5
<1>7. Ranked(u)
  <2>1. SUFFICES ASSUME NEW k \in DOMAIN u, NEW l \in DOMAIN u, k < l
                 PROVE  Better(u[l], u[k]) /\ u[k].index # u[l].index
    BY DEF Ranked
  <2>2. q[k] \in DOMAIN s /\ q[l] \in DOMAIN s /\ q[k] < q[l]
    BY <1>1, <1>4, <1>5, <1>6, <2>1
  <2>3. QED
    BY <1>4, <1>6, <2>2 DEF Ranked
<1>8. ASSUME NEW k \in DOMAIN u PROVE u[k] \in ToSet(s) /\ u[k].index # r.index
  <2>1. u[k] = s[q[k]] /\ q[k] \in DOMAIN s /\ q[k] # m
    BY <1>1, <1>4, <1>5, <1>6
  <2>2. s[q[k]].index # s[m].index
    <3>1. q[k] < m \/ m < q[k]
      BY <1>1, <2>1
    <3>2. QED
      BY <1>1, <2>1, <3>1 DEF Ranked
  <2>3. QED
    BY <1>2, <2>1, <2>2 DEF ToSet
<1>9. QED
  BY <1>2, <1>3, <1>4, <1>7, <1>8 DEF ToSet

(* Where the item goes: behind those that are not better, before those that *)
(* are.                                                                    *)
LEMMA InsertRanked ==
  ASSUME ConfigOK, NEW s \in Seq(Results), Ranked(s), NEW item \in Results,
         \A r \in ToSet(s) : r.index # item.index
  PROVE  /\ InsertIntoSortedList(s, item) \in Seq(Results)
         /\ Ranked(InsertIntoSortedList(s, item))
         /\ ToSet(InsertIntoSortedList(s, item)) \subseteq ToSet(s) \cup {item}
<1>1. Len(s) \in Nat /\ DOMAIN s = 1..Len(s) /\ \A k \in 1..Len(s) : s[k] \in Results
  OBVIOUS
<1>2. \A k \in 1..Len(s) : s[k].index # item.index
  BY <1>1 DEF ToSet
<1> DEFINE I == {k \in 1..Len(s) : Better(s[k], item)}
<1>3. PICK m \in 1..(Len(s) + 1) :
        /\ InsertIntoSortedList(s, item) = InsertAt(s, m, item)
        /\ \A k \in 1..Len(s) : k < m => ~Better(s[k], item)
        /\ m \in 1..Len(s) => Better(s[m], item)
  <2>1. SelectInSeq(s, LAMBDA r : GoesBefore(item, r)) = IF I # {} THEN Min(I) ELSE 0
    BY DEF SelectInSeq, GoesBefore, Better
  <2>2. CASE I = {}
    <3>1. InsertIntoSortedList(s, item) = Append(s, item)
      BY <2>1, <2>2 DEF InsertIntoSortedList
    <3>2. SubSeq(s, 1, Len(s)) = s /\ SubSeq(s, Len(s) + 1, Len(s)) = <<>>
      <4>1. PICK w : w = SubSeq(s, 1, Len(s))
        OBVIOUS
      <4>2. w \in Seq(Results) /\ Len(w) = Len(s) /\ \A k \in 1..Len(s) : w[k] = s[k]
        BY <1>1, <4>1, Part
      <4>3. w = s
        BY <1>1, <4>2
      <4>4. SubSeq(s, Len(s) + 1, Len(s)) = <<>>
        BY <1>1, SubSeqEmpty
      <4>5. QED
        BY <4>1, <4>3, <4>4
    <3>3. InsertAt(s, Len(s) + 1, item) = Append(s, item)
      <4>1. (Len(s) + 1) - 1 = Len(s)
        BY <1>1
      <4>2. InsertAt(s, Len(s) + 1, item) = s \o <<item>> \o <<>>
        BY <3>2, <4>1 DEF InsertAt
      <4>3. s \o <<item>> \o <<>> = s \o <<item>>
        BY <1>1, ConcatEmptySeq
      <4>4. s \o <<item>> = Append(s, item)
        BY <1>1
      <4>5. QED
        BY <4>2, <4>3, <4>4
    <3>4. QED
      BY <1>1, <2>2, <3>1, <3>3
  <2>3. CASE I # {}
    <3>1. I \in SUBSET Nat
      BY <1>1
    <3>2. Min(I) \in I /\ \A k \in I : Min(I) <= k
      <4> HIDE DEF I
      <4>1. \E n \in I : \A k \in I : n <= k
        BY <2>3, <3>1, LeastNumber
      <4>2. QED
        BY <4>1 DEF Min
    <3>3. PICK m \in I : m = Min(I)
      BY <3>2
    <3>4. m \in 1..Len(s) /\ m # 0 /\ Better(s[m], item)
      BY <1>1
    <3>5. InsertIntoSortedList(s, item) = InsertAt(s, m, item)
      BY <2>1, <2>3, <3>3, <3>4 DEF InsertIntoSortedList
    <3>6. \A k \in 1..Len(s) : k < m => ~Better(s[k], item)
      BY <1>1, <3>2, <3>3, <3>4
    <3>7. m \in 1..(Len(s) + 1)
      BY <1>1, <3>4
    <3>8. QED
      BY <3>4, <3>5, <3>6, <3>7
  <2>4. QED
    BY <2>2, <2>3
<1> HIDE DEF I
<1>4. PICK u : u = InsertAt(s, m, item)
  OBVIOUS
<1>5. /\ u \in Seq(Results) /\ DOMAIN u = 1..(Len(s) + 1)
      /\ \A k \in 1..(Len(s) + 1) :
           u[k] = IF k < m THEN s[k] ELSE IF k = m THEN item ELSE s[k - 1]
  <2>1. PICK a, b : a = SubSeq(s, 1, m - 1) /\ b = SubSeq(s, m, Len(s))
    OBVIOUS
  <2>2. a \in Seq(Results) /\ Len(a) = m - 1 /\ \A k \in 1..(m - 1) : a[k] = s[k]
    BY <1>1, <2>1, Part
  <2>3. /\ b \in Seq(Results) /\ Len(b) = Len(s) - m + 1
        /\ \A k \in 1..(Len(s) - m + 1) : b[k] = s[m + k - 1]
    BY <1>1, <2>1, Part
  <2>4. PICK c : c = a \o <<item>>
    OBVIOUS
  <2>5. /\ c \in Seq(Results) /\ Len(c) = m
        /\ \A k \in 1..m : c[k] = IF k < m THEN s[k] ELSE item
    <3>1. <<item>> \in Seq(Results) /\ Len(<<item>>) = 1 /\ <<item>>[1] = item
      OBVIOUS
    <3>2. /\ c \in Seq(Results) /\ Len(c) = (m - 1) + 1
          /\ \A k \in 1..((m - 1) + 1) :
               c[k] = IF k <= m - 1 THEN a[k] ELSE <<item>>[k - (m - 1)]
      BY <2>2, <2>4, <3>1, ConcatProperties
    <3>3. m \in Nat /\ (m - 1) + 1 = m
      BY <1>1
    <3>4. ASSUME NEW k \in 1..m PROVE c[k] = IF k < m THEN s[k] ELSE item
      <4>1. CASE k < m
        BY <2>2, <3>2, <3>3, <4>1
      <4>2. CASE ~(k < m)
        <5>1. k = m /\ k - (m - 1) = 1 /\ ~(k <= m - 1)
          BY <3>3, <4>2
        <5>2. QED
          BY <3>1, <3>2, <3>3, <5>1
      <4>3. QED
        BY <4>1, <4>2
    <3>5. QED
      BY <3>2, <3>3, <3>4
  <2>6. u = c \o b
    BY <1>4, <2>1, <2>4 DEF InsertAt
  <2>7. /\ u \in Seq(Results) /\ Len(u) = m + (Len(s) - m + 1)
        /\ \A k \in 1..(m + (Len(s) - m + 1)) : u[k] = IF k <= m THEN c[k] ELSE b[k - m]
    <3>1. /\ u \in Seq(Results) /\ Len(u) = Len(c) + Len(b)
          /\ \A k \in 1..(Len(c) + Len(b)) :
               u[k] = IF k <= Len(c) THEN c[k] ELSE b[k - Len(c)]
      BY <2>3, <2>5, <2>6, ConcatProperties
    <3>2. Len(c) = m /\ Len(b) = Len(s) - m + 1
      BY <2>3, <2>5
    <3>3. QED
      BY <3>1, <3>2, Zenon
  <2>8. m \in Nat /\ m + (Len(s) - m + 1) = Len(s) + 1
    BY <1>1
  <2>9. ASSUME NEW k \in 1..(Len(s) + 1)
        PROVE  u[k] = IF k < m THEN s[k] ELSE IF k = m THEN item ELSE s[k - 1]
    <3>1. u[k] = IF k <= m THEN c[k] ELSE b[k - m]
      BY <2>7, <2>8
    <3>2. CASE k <= m
      BY <2>5, <2>8, <3>1, <3>2
    <3>3. CASE ~(k <= m)
      <4>1. k - m \in 1..(Len(s) - m + 1) /\ m + (k - m) - 1 = k - 1
        BY <1>1, <2>8, <3>3
      <4>2. QED
        BY <2>3, <2>8, <3>1, <3>3, <4>1
    <3>4. QED
      BY <3>2, <3>3
  <2>10. QED
    BY <2>7, <2>8, <2>9
<1>6. \A k \in 1..Len(s) : k < m => Better(item, s[k])
  BY <1>1, <1>2, <1>3, BetterOrder
<1>7. ASSUME NEW k \in 1..Len(s), k >= m PROVE Better(s[k], item)
  <2>1. m \in 1..Len(s) /\ Better(s[m], item)
    BY <1>1, <1>3, <1>7
  <2>2. CASE k = m
    BY <2>1, <2>2
  <2>3. CASE k # m
    <3>1. Better(s[k], s[m])
      BY <1>1, <1>7, <2>1, <2>3 DEF Ranked
    <3>2. QED
      BY <1>1, <2>1, <3>1, BetterOrder
  <2>4. QED
    BY <2>2, <2>3
<1>8. Ranked(u)
  <2>1. SUFFICES ASSUME NEW k \in DOMAIN u, NEW l \in DOMAIN u, k < l
                 PROVE  Better(u[l], u[k]) /\ u[k].index # u[l].index
    BY DEF Ranked
  <2>2. k \in 1..(Len(s) + 1) /\ l \in 1..(Len(s) + 1) /\ m \in 1..(Len(s) + 1)
    BY <1>5
  <2>3. /\ u[k] = IF k < m THEN s[k] ELSE IF k = m THEN item ELSE s[k - 1]
        /\ u[l] = IF l < m THEN s[l] ELSE IF l = m THEN item ELSE s[l - 1]
    BY <1>5, <2>2
  <2>4. CASE l < m
    <3>1. k \in DOMAIN s /\ l \in DOMAIN s /\ u[k] = s[k] /\ u[l] = s[l]
      BY <1>1, <2>1, <2>2, <2>3, <2>4
    <3>2. QED
      BY <2>1, <3>1 DEF Ranked
  <2>5. CASE l = m
    <3>1. k \in 1..Len(s) /\ k < m /\ u[k] = s[k] /\ u[l] = item
      BY <1>1, <2>1, <2>2, <2>3, <2>5
    <3>2. QED
      BY <1>2, <1>6, <3>1
  <2>6. CASE l > m
    <3>1. l - 1 \in 1..Len(s) /\ l - 1 >= m /\ u[l] = s[l - 1]
      BY <1>1, <2>2, <2>3, <2>6
    <3>2. CASE k < m
      <4>1. k \in DOMAIN s /\ l - 1 \in DOMAIN s /\ k < l - 1 /\ u[k] = s[k]
        BY <1>1, <2>2, <2>3, <2>6, <3>2
      <4>2. QED
        BY <3>1, <4>1 DEF Ranked
    <3>3. CASE k = m
      <4>1. u[k] = item
        BY <2>2, <2>3, <3>3
      <4>2. QED
        BY <1>2, <1>7, <3>1, <4>1
    <3>4. CASE k > m
      <4>1. k - 1 \in DOMAIN s /\ l - 1 \in DOMAIN s /\ k - 1 < l - 1 /\ u[k] = s[k - 1]
        BY <1>1, <2>1, <2>2, <2>3, <2>6, <3>4
      <4>2. QED
        BY <3>1, <4>1 DEF Ranked
    <3>5. QED
      BY <2>2, <3>2, <3>3, <3>4
  <2>7. QED
    BY <2>2, <2>4, <2>5, <2>6
<1>9. ASSUME NEW k \in DOMAIN u PROVE u[k] \in ToSet(s) \cup {item}
  <2>1. k < m => k \in 1..Len(s)
    BY <1>1, <1>5
  <2>2. k > m => k - 1 \in 1..Len(s)
    BY <1>1, <1>5
  <2>3. QED
    BY <1>1, <1>5, <2>1, <2>2 DEF ToSet
<1>10. QED
  BY <1>3, <1>4, <1>5, <1>8, <1>9 DEF ToSet

-----------------------------------------------------------------------------
(* The list through the operations of the checkpoint manager. *)

(* The list is ranked, and the reports in it are past ones. *)
IInv ==
  /\ ConfigOK
  /\ current \in Nat
  /\ list \in Seq(Results)
  /\ Ranked(list)
  /\ \A r \in ToSet(list) : r.index < current

(* The order depends on the configuration only, which no step changes. *)
LEMMA RankedStays ==
  ASSUME config' = config, Ranked(list')
  PROVE  Ranked(list)'
<1>1. \A r : Unscorable(r)' = Unscorable(r) /\ \A v : Raw(v)' = Raw(v)
  BY DEF Unscorable, Raw
<1>2. \A r : Score(r)' = Score(r)
  BY <1>1 DEF Score, NoScore, Raw, Unscorable
<1>3. \A a, b : Better(a, b)' = Better(a, b)
  BY <1>2 DEF Better, Greater
<1>4. QED
  BY <1>3 DEF Ranked

(* Dropping old results keeps the order. *)
LEMMA DropKeeps ==
  ASSUME NEW s \in Seq(Results), Ranked(s), NEW spared
  PROVE  /\ DropOld(s, spared) \in Seq(Results)
         /\ Ranked(DropOld(s, spared))
         /\ ToSet(DropOld(s, spared)) \subseteq ToSet(s)
  BY FilterRanked DEF DropOld

(* A result of an unscored run goes to the end, which is its place: the    *)
(* scores are all the same and its report index is the highest.            *)
LEMMA AppendRanked ==
  ASSUME ConfigOK, ~config.scored, NEW s \in Seq(Results), Ranked(s), NEW item \in Results,
         \A r \in ToSet(s) : r.index < item.index
  PROVE  /\ Append(s, item) \in Seq(Results)
         /\ Ranked(Append(s, item))
         /\ ToSet(Append(s, item)) \subseteq ToSet(s) \cup {item}
<1>1. Len(s) \in Nat /\ DOMAIN s = 1..Len(s) /\ \A k \in 1..Len(s) : s[k] \in Results
  OBVIOUS
<1>2. PICK u : u = Append(s, item)
  OBVIOUS
<1>3. /\ u \in Seq(Results) /\ DOMAIN u = 1..(Len(s) + 1) /\ u[Len(s) + 1] = item
      /\ \A k \in 1..Len(s) : u[k] = s[k]
  BY <1>1, <1>2
<1>4. \A k \in 1..Len(s) : s[k].index < item.index
  BY <1>1 DEF ToSet
<1>5. \A k \in 1..Len(s) : Score(s[k]) = Score(item)
  BY DEF Score, Raw, Unscorable
<1>6. \A k \in 1..Len(s) : Better(item, s[k]) /\ s[k].index # item.index
  <2>1. item.index \in Nat /\ \A k \in 1..Len(s) : s[k].index \in Nat
    BY <1>1 DEF Results
  <2>2. QED
    BY <1>4, <1>5, <2>1 DEF Better
<1>7. Ranked(u)
  <2>1. SUFFICES ASSUME NEW k \in DOMAIN u, NEW l \in DOMAIN u, k < l
                 PROVE  Better(u[l], u[k]) /\ u[k].index # u[l].index
    BY DEF Ranked
  <2>2. k \in DOMAIN s /\ u[k] = s[k]
    BY <1>1, <1>3, <2>1
  <2>3. CASE l \in DOMAIN s
    BY <1>1, <1>3, <2>1, <2>2, <2>3 DEF Ranked
  <2>4. CASE l \notin DOMAIN s
    <3>1. u[l] = item
      BY <1>1, <1>3, <2>4
    <3>2. QED
      BY <1>1, <1>6, <2>2, <3>1
  <2>5. QED
    BY <2>3, <2>4
<1>8. ASSUME NEW k \in DOMAIN u PROVE u[k] \in ToSet(s) \cup {item}
  <2>1. k \in 1..Len(s) \/ k = Len(s) + 1
    BY <1>1, <1>3
  <2>2. QED
    BY <1>1, <1>3, <2>1 DEF ToSet
<1>9. QED
  BY <1>2, <1>3, <1>7, <1>8 DEF ToSet

(* A new report has the highest index. *)
LEMMA RegisterKeeps ==
  ASSUME IInv, RegisterCheckpoint
  PROVE  IInv'
<1>1. PICK value \in Values, validation \in BOOLEAN :
        LET item == [index |-> current, value |-> value]
        IN  /\ latest' = current
            /\ current' = current + 1
            /\ list' = DropOld(IF config.scored THEN InsertIntoSortedList(list, item)
                               ELSE Append(list, item),
                               pending' \cup {latest'})
  BY DEF RegisterCheckpoint
<1>2. PICK item : item = [index |-> current, value |-> value]
  OBVIOUS
<1>3. item \in Results /\ item.index = current
  BY <1>2 DEF IInv, Results
<1>4. config' = config
  BY DEF RegisterCheckpoint
<1>5. PICK s : s = IF config.scored THEN InsertIntoSortedList(list, item)
                   ELSE Append(list, item)
  OBVIOUS
<1>6. list' = DropOld(s, pending' \cup {latest'})
  BY <1>1, <1>2, <1>5
<1>7. \A r \in ToSet(list) : r.index < item.index
  BY <1>3 DEF IInv
<1>8. s \in Seq(Results) /\ Ranked(s) /\ ToSet(s) \subseteq ToSet(list) \cup {item}
  <2>1. CASE config.scored
    <3>1. \A r \in ToSet(list) : r.index # item.index
      <4>1. ToSet(list) \subseteq Results
        BY DEF IInv, ToSet
      <4>2. \A r \in ToSet(list) : r.index \in Nat
        BY <4>1 DEF Results
      <4>3. QED
        BY <1>3, <1>7, <4>2 DEF IInv
    <3>2. QED
      BY <1>3, <1>5, <2>1, <3>1, InsertRanked DEF IInv
  <2>2. CASE ~config.scored
    BY <1>3, <1>5, <1>7, <2>2, AppendRanked DEF IInv
  <2>3. QED
    BY <2>1, <2>2
<1>9. list' \in Seq(Results) /\ Ranked(list') /\ ToSet(list') \subseteq ToSet(s)
  BY <1>6, <1>8, DropKeeps
<1>10. ASSUME NEW r \in ToSet(list') PROVE r.index < current'
  <2>1. current \in Nat /\ current' = current + 1
    BY <1>1 DEF IInv
  <2>2. CASE r = item
    BY <1>3, <2>1, <2>2
  <2>3. CASE r \in ToSet(list)
    <3>1. r.index \in Nat /\ r.index < current
      <4>1. r \in Results
        BY <2>3 DEF IInv, ToSet
      <4>2. QED
        BY <2>3, <4>1 DEF IInv, Results
    <3>2. QED
      BY <2>1, <3>1
  <2>4. QED
    BY <1>8, <1>9, <2>2, <2>3
<1>11. Ranked(list)'
  BY <1>4, <1>9, RankedStays
<1>12. current' \in Nat /\ ConfigOK'
  BY <1>1, <1>4 DEF IInv, ConfigOK
<1>13. QED
  BY <1>9, <1>10, <1>11, <1>12 DEF IInv, ToSet

(* A validation takes a result out and puts it back with its new score. *)
LEMMA ValidatedKeeps ==
  ASSUME IInv, Validated
  PROVE  IInv'
<1>1. PICK r \in ToSet(list), value \in Values :
        /\ list' = DropOld(InsertIntoSortedList(RemoveFirst(list, r),
                                                [r EXCEPT !.value = value]),
                           pending' \cup {latest})
        /\ UNCHANGED <<config, latest, current>>
  BY DEF Validated
<1>2. r \in Results
  BY DEF IInv, ToSet
<1>3. PICK item : item = [r EXCEPT !.value = value]
  OBVIOUS
<1>4. item \in Results /\ item.index = r.index
  BY <1>2, <1>3 DEF Results
<1>5. PICK s : s = RemoveFirst(list, r)
  OBVIOUS
<1>6. /\ s \in Seq(Results) /\ Ranked(s) /\ ToSet(s) \subseteq ToSet(list)
      /\ \A q \in ToSet(s) : q.index # item.index
  BY <1>4, <1>5, RemoveRanked DEF IInv
<1>7. PICK t : t = InsertIntoSortedList(s, item)
  OBVIOUS
<1>8. t \in Seq(Results) /\ Ranked(t) /\ ToSet(t) \subseteq ToSet(s) \cup {item}
  BY <1>4, <1>6, <1>7, InsertRanked DEF IInv
<1>9. list' = DropOld(t, pending' \cup {latest})
  BY <1>1, <1>3, <1>5, <1>7
<1>10. list' \in Seq(Results) /\ Ranked(list') /\ ToSet(list') \subseteq ToSet(t)
  BY <1>8, <1>9, DropKeeps
<1>11. \A q \in ToSet(list') : q.index < current
  BY <1>4, <1>6, <1>8, <1>10 DEF IInv
<1>12. Ranked(list)'
  <2>1. config' = config
    BY <1>1
  <2>2. QED
    BY <1>10, <2>1, RankedStays
<1>13. QED
  BY <1>1, <1>10, <1>11, <1>12 DEF IInv, ConfigOK, ToSet

(* A validation without a result drops, if anything. *)
LEMMA NotValidatedKeeps ==
  ASSUME IInv, NotValidated
  PROVE  IInv'
<1>1. /\ list' = DropOld(list, pending' \cup {latest})
      /\ UNCHANGED <<config, latest, current>>
  BY DEF NotValidated
<1>2. list' \in Seq(Results) /\ Ranked(list') /\ ToSet(list') \subseteq ToSet(list)
  BY <1>1, DropKeeps DEF IInv
<1>3. Ranked(list)'
  <2>1. config' = config
    BY <1>1
  <2>2. QED
    BY <1>2, <2>1, RankedStays
<1>4. QED
  BY <1>1, <1>2, <1>3 DEF IInv, ConfigOK, ToSet

(* An insertion that raised leaves the list with what it had, or without the *)
(* result it was to put back.                                                *)
LEMMA RaisesKeeps ==
  ASSUME IInv, RegisterRaises \/ ValidatedRaises
  PROVE  IInv'
<1>1. config' = config /\ current' = current
  BY DEF RegisterRaises, ValidatedRaises
<1>2. list' = list \/ \E r \in ToSet(list) : list' = RemoveFirst(list, r)
  BY DEF RegisterRaises, ValidatedRaises
<1>3. list' \in Seq(Results) /\ Ranked(list') /\ ToSet(list') \subseteq ToSet(list)
  BY <1>2, RemoveRanked DEF IInv
<1>4. Ranked(list)'
  BY <1>1, <1>3, RankedStays
<1>5. QED
  BY <1>1, <1>3, <1>4 DEF IInv, ConfigOK, ToSet

(* The list stays ranked through every sequence of reports, validations    *)
(* that change a score, insertions that raise, and drops.                  *)
THEOREM Invariance == Spec => []IInv
<1>1. Init => IInv
  <2>1. SUFFICES ASSUME Init PROVE IInv
    OBVIOUS
  <2>2. PICK e : e = <<>>
    OBVIOUS
  <2>3. e \in Seq(Results) /\ DOMAIN e = {}
    BY <2>2
  <2>4. list = e /\ current = 0 /\ ConfigOK
    BY <2>1, <2>2 DEF Init, ConfigOK
  <2>5. QED
    BY <2>3, <2>4 DEF IInv, Ranked, ToSet
<1>2. IInv /\ [Next]_vars => IInv'
  <2>1. SUFFICES ASSUME IInv, [Next]_vars PROVE IInv'
    OBVIOUS
  <2>2. CASE RegisterCheckpoint
    BY <2>1, <2>2, RegisterKeeps
  <2>3. CASE Validated
    BY <2>1, <2>3, ValidatedKeeps
  <2>4. CASE NotValidated
    BY <2>1, <2>4, NotValidatedKeeps
  <2>5. CASE UNCHANGED vars
    <3>1. config' = config /\ list' = list /\ current' = current
      BY <2>5 DEF vars
    <3>2. Ranked(list)'
      BY <2>1, <3>1, RankedStays DEF IInv
    <3>3. QED
      BY <2>1, <3>1, <3>2 DEF IInv, ConfigOK, ToSet
  <2>6. CASE RegisterRaises \/ ValidatedRaises
    BY <2>1, <2>6, RaisesKeeps
  <2>7. QED
    BY <2>1, <2>2, <2>3, <2>4, <2>5, <2>6 DEF Next
<1>3. QED
  BY <1>1, <1>2, PTL DEF Spec

(* As many results are better than one of a ranked list as follow it. *)
LEMMA BetterFollow ==
  ASSUME IInv, NEW i \in 1..Len(list)
  PROVE  Cardinality({b \in ToSet(list) : Better(b, list[i])}) = Len(list) - i
<1>1. Len(list) \in Nat /\ DOMAIN list = 1..Len(list)
  BY DEF IInv
<1>2. PICK S : S = {b \in ToSet(list) : Better(b, list[i])}
  OBVIOUS
<1>3. \A k \in 1..Len(list) : list[k] \in Results
  BY DEF IInv
<1>4. PICK f : f = [k \in (i + 1)..Len(list) |-> list[k]]
  OBVIOUS
<1>5. \A k \in (i + 1)..Len(list) : k \in DOMAIN list /\ i < k /\ f[k] = list[k]
  BY <1>1, <1>4
<1>6. f \in [(i + 1)..Len(list) -> S]
  <2>1. ASSUME NEW k \in (i + 1)..Len(list) PROVE list[k] \in S
    BY <1>1, <1>2, <1>5 DEF IInv, Ranked, ToSet
  <2>2. QED
    BY <1>4, <2>1
<1>7. ASSUME NEW k \in (i + 1)..Len(list), NEW l \in (i + 1)..Len(list), f[k] = f[l]
      PROVE  k = l
  <2>1. list[k] = list[l] /\ k \in DOMAIN list /\ l \in DOMAIN list
    BY <1>5, <1>7
  <2>2. ~(k < l) /\ ~(l < k)
    BY <2>1 DEF IInv, Ranked
  <2>3. QED
    BY <1>1, <2>2
<1>8. ASSUME NEW b \in S PROVE \E k \in (i + 1)..Len(list) : f[k] = b
  <2>1. PICK k \in 1..Len(list) : b = list[k]
    BY <1>1, <1>2 DEF ToSet
  <2>2. Better(list[k], list[i])
    BY <1>2, <2>1
  <2>3. k # i
    BY <1>3, <2>2, BetterOrder DEF IInv
  <2>4. ~(k < i)
    <3>1. k < i => Better(list[i], list[k])
      BY <1>1 DEF IInv, Ranked
    <3>2. QED
      BY <1>3, <2>2, <3>1, BetterOrder DEF IInv
  <2>5. k \in (i + 1)..Len(list)
    BY <1>1, <2>3, <2>4
  <2>6. QED
    BY <1>5, <2>1, <2>5
<1>9. f \in Bijection((i + 1)..Len(list), S)
  BY <1>6, <1>7, <1>8 DEF Bijection, Injection, Surjection, IsInjective
<1>10. /\ IsFiniteSet((i + 1)..Len(list))
       /\ Cardinality((i + 1)..Len(list)) = Len(list) - i
  <2>1. /\ IsFiniteSet((i + 1)..Len(list))
        /\ Cardinality((i + 1)..Len(list)) =
             IF i + 1 > Len(list) THEN 0 ELSE Len(list) - (i + 1) + 1
    <3>1. i + 1 \in Int /\ Len(list) \in Int
      BY <1>1
    <3>2. QED
      BY <3>1, FS_Interval
  <2>2. QED
    BY <1>1, <2>1
<1>11. Cardinality(S) = Cardinality((i + 1)..Len(list))
  BY <1>9, <1>10, FS_Bijection DEF ExistsBijection
<1>12. QED
  BY <1>2, <1>10, <1>11

(* The slice [: -num_to_keep] is the results that num_to_keep others are   *)
(* better than, as CheckpointManager assumes, however often validations    *)
(* changed scores in between.                                              *)
THEOREM SliceHoldsWorst == Spec => []SliceIsWorst
<1>1. ASSUME IInv PROVE SliceIsWorst
  <2>1. Len(list) \in Nat /\ DOMAIN list = 1..Len(list) /\ NumToKeep \in Nat \ {0}
    BY <1>1, ResultListAssumption DEF IInv
  <2>2. ToSet(WorstSlice(list)) = {list[i] : i \in 1..(Len(list) - NumToKeep)}
    <3>1. CASE Len(list) - NumToKeep < 1
      <4>1. WorstSlice(list) = <<>>
        BY <2>1, <3>1, SubSeqEmpty DEF WorstSlice
      <4>2. ToSet(<<>>) = {} /\ 1..(Len(list) - NumToKeep) = {}
        BY <2>1, <3>1 DEF ToSet
      <4>3. QED
        BY <4>1, <4>2
    <3>2. CASE Len(list) - NumToKeep >= 1
      <4>1. PICK n \in 1..Len(list) : n = Len(list) - NumToKeep
        <5>1. Len(list) - NumToKeep \in 1..Len(list)
          BY <2>1, <3>2
        <5>2. QED
          BY <5>1
      <4>2. PICK w : w = SubSeq(list, 1, n)
        OBVIOUS
      <4>3. w \in Seq(Results) /\ Len(w) = n /\ \A k \in 1..n : w[k] = list[k]
        BY <1>1, <2>1, <4>1, <4>2, Part DEF IInv
      <4>4. ToSet(w) = {list[i] : i \in 1..n}
        BY <4>3 DEF ToSet
      <4>5. QED
        BY <4>1, <4>2, <4>4 DEF WorstSlice
    <3>3. QED
      BY <2>1, <3>1, <3>2
  <2>3. \A i \in 1..Len(list) :
          Cardinality({b \in ToSet(list) : Better(b, list[i])}) >= NumToKeep
            <=> i \in 1..(Len(list) - NumToKeep)
    <3>1. ASSUME NEW i \in 1..Len(list)
          PROVE  Cardinality({b \in ToSet(list) : Better(b, list[i])}) >= NumToKeep
                   <=> i \in 1..(Len(list) - NumToKeep)
      <4>1. Cardinality({b \in ToSet(list) : Better(b, list[i])}) = Len(list) - i
        BY <1>1, BetterFollow
      <4>2. Len(list) - i >= NumToKeep <=> i \in 1..(Len(list) - NumToKeep)
        BY <2>1
      <4>3. QED
        BY <4>1, <4>2
    <3>2. QED
      BY <3>1
  <2>4. \A i \in 1..(Len(list) - NumToKeep) : i \in 1..Len(list)
    BY <2>1
  <2>5. ToSet(list) = {list[i] : i \in 1..Len(list)}
    BY <2>1 DEF ToSet
  <2>6. QED
    BY <2>2, <2>3, <2>4, <2>5 DEF SliceIsWorst
<1>2. QED
  BY <1>1, Invariance, PTL

(* Among results with a number, one that checkpoint_score_order prefers is *)
(* never before a worse one, so it is never dropped first.                 *)
THEOREM BestValuesLast == Spec => []KeepsBestValues
<1>1. ASSUME IInv PROVE KeepsBestValues
  <2>1. SUFFICES ASSUME NEW i \in DOMAIN list, NEW j \in DOMAIN list, config.scored, i < j,
                        list[i].value \in Metrics, list[j].value \in Metrics
                 PROVE  IF config.order = "max" THEN list[i].value <= list[j].value
                        ELSE list[i].value >= list[j].value
    BY DEF KeepsBestValues
  <2>2. PICK v, w : v = list[i].value /\ w = list[j].value
    OBVIOUS
  <2>3. v \in Int /\ w \in Int /\ v # NaN /\ w # NaN /\ v # Missing /\ w # Missing
        /\ v # Text /\ w # Text
    BY <2>1, <2>2, ResultListAssumption
  <2>4. Better(list[j], list[i])
    BY <1>1, <2>1 DEF IInv, Ranked
  <2>5. CASE config.order = "max"
    <3>1. Score(list[i]) = <<1, 1 * v>> /\ Score(list[j]) = <<1, 1 * w>>
      BY <2>1, <2>2, <2>3, <2>5 DEF Score, Raw, Unscorable
    <3>2. QED
      BY <2>2, <2>3, <2>4, <2>5, <3>1 DEF Better, Greater
  <2>6. CASE config.order # "max"
    <3>1. Score(list[i]) = <<1, (-1) * v>> /\ Score(list[j]) = <<1, (-1) * w>>
      BY <2>1, <2>2, <2>3, <2>6 DEF Score, Raw, Unscorable
    <3>2. QED
      BY <2>2, <2>3, <2>4, <2>6, <3>1 DEF Better, Greater
  <2>7. QED
    BY <2>5, <2>6
<1>2. QED
  BY <1>1, Invariance, PTL
=============================================================================
