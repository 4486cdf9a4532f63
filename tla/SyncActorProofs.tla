--------------------------- MODULE SyncActorProofs ----------------------------
(***************************************************************************)
(* Proofs of the safety properties of SyncActor for any world size and any *)
(* number of calls, worker failures, resets, warnings and timeouts.        *)
(*                                                                         *)
(* The event loop is a queue, so the invariant is about queues: which      *)
(* turns they hold, that no call has two turns, and which turns come       *)
(* first.  The counter is right because a call that enters was not inside, *)
(* and Agreement holds because the calls of a completed barrier leave      *)
(* before any later call starts.                                           *)
(***************************************************************************)
EXTENDS SyncActor, SequenceTheorems, FiniteSetTheorems, TLAPS

(* The turns of calls inside the barrier. *)
InsideSteps == {"barrier", "rewait", "expired"}

StartSteps == {"call", "setup"}

Pending == ToSet(waiting) \cup ToSet(queue)

(* No call has two turns in s. *)
UniqueCalls(s) == \A i, j \in 1..Len(s) : s[i].call = s[j].call => i = j

(* In s, all turns in A come before all turns in B. *)
Precede(s, A, B) == \A i, j \in 1..Len(s) : s[i] \in A /\ s[j] \in B => i < j

-----------------------------------------------------------------------------
(* What holds always: no call has two turns, and calls are numbered. *)

Unique ==
  /\ UniqueCalls(waiting)
  /\ UniqueCalls(queue)
  /\ \A x \in ToSet(waiting), y \in ToSet(queue) : x.call # y.call

(* A waiting call entered the barrier or waits for the end of a reset. *)
Waits == \A x \in ToSet(waiting) : x.step \in {"setup", "barrier"}

(* A call has a number its rank has reached, and took an index. *)
Numbered ==
  \A x \in Pending : x # ResetTurn =>
    x.call.number <= worker[x.call.rank].number /\ x.call.index # 0

(* The controller waits while its reset is in the queue. *)
OneReset == ResetTurn \in ToSet(queue) => control.step = "resetting"

GotShape == got = [r \in Ranks |-> got[r]]

(* The last call of a barrier leaves in the turn in which it enters. *)
Counts == CounterIsInside /\ IsFiniteSet(Inside) /\ actor.counter < WorldSize

Orderly == Unique /\ Waits /\ Numbered /\ OneReset /\ GotShape /\ Counts

-----------------------------------------------------------------------------
(* What holds until a warning interval ends while the call's turn is due. *)

(* While the barrier is reset, the calls inside have a turn; only then a call waits for it. *)
ResetNotifies ==
  /\ \A x \in Pending : x.step # "rewait"
  /\ \A x \in ToSet(waiting) : x.step = "setup" <=> actor.reset

(* The members of the last complete barrier left, or are about to. *)
GroupNotified ==
  /\ \A x \in Pending : x.call \in group => x \in ToSet(queue) /\ x.step \in InsideSteps
  /\ \A x \in ToSet(queue) : x.step = "barrier" => actor.reset \/ x.call \in group
  /\ \A c \in group : c.number <= worker[c.rank].number
  /\ Inside \cap group # {} => Inside \subseteq group

(* A rank has at most one call with the actor, and none when it is not blocked. *)
OneCallPerRank ==
  /\ \A x, y \in Pending \ {ResetTurn} : x.call.rank = y.call.rank => x = y
  /\ \A x \in Pending \ {ResetTurn} : worker[x.call.rank].status # "idle"

(* The turns of the rank the controller replaces. *)
OfReplaced == {x \in Turns \ {ResetTurn} : x.call.rank = control.rank}

(***************************************************************************)
(* The call of a failed worker enters before the reset it causes, so that  *)
(* it is gone when the worker is replaced.                                 *)
(***************************************************************************)
ResetReplaces ==
  /\ control.step # "watching" => worker[control.rank].status = "dead"
  /\ control.step # "replacing" =>
       ~actor.reset /\ \A x \in Pending : x.step # "setup"
  /\ control.step = "resetting" =>
       Precede(queue, {x \in OfReplaced : x.step = "call"}, {ResetTurn})
  /\ control.step = "replacing" =>
       \A x \in Pending \cap OfReplaced : x \in ToSet(queue) /\ x.step \in InsideSteps

Started == {x \in Turns : x.step \in StartSteps}

Leaving == {x \in Turns : x.step \in InsideSteps /\ x.call \in group}

(* The group leaves before the next call starts. *)
GroupLeavesFirst == Precede(queue, Leaving, Started)

OneEach(calls) == \A s \in Ranks : Cardinality({c \in calls : c.rank = s}) = 1

(* The data is that of rank 0 in the barrier that completes or has completed. *)
DataOfRankZero ==
  /\ group # {} => OneEach(group)
  /\ Inside \cap group # {} => actor.data \in group /\ actor.data.rank = 0
  /\ Inside \cap group = {} => \A c \in Inside : c.rank = 0 => actor.data = c

Calm ==
  /\ ResetNotifies
  /\ GroupNotified
  /\ OneCallPerRank
  /\ ResetReplaces
  /\ GroupLeavesFirst
  /\ DataOfRankZero
  /\ Agreement

IInv == TypeOK /\ Orderly /\ (budget.warnings = 0 => Calm)

-----------------------------------------------------------------------------
(* Sequences: which elements they have, and in which order. *)

(* The turns that remain. *)
LEMMA TailSeq ==
  ASSUME NEW S, NEW s \in Seq(S), s # <<>>, UniqueCalls(s)
  PROVE  /\ Head(s) \in ToSet(s) /\ Head(s) \in S
         /\ Tail(s) \in Seq(S) /\ UniqueCalls(Tail(s))
         /\ ToSet(Tail(s)) = ToSet(s) \ {Head(s)}
         /\ \A x \in ToSet(Tail(s)) : x.call # Head(s).call
<1>1. /\ Len(s) \in Nat /\ Len(s) # 0 /\ DOMAIN s = 1..Len(s) /\ Head(s) = s[1]
      /\ Head(s) \in S /\ Tail(s) \in Seq(S)
  BY EmptySeq, LenProperties, HeadTailProperties
<1>2. Len(Tail(s)) = Len(s) - 1 /\ DOMAIN Tail(s) = 1..Len(Tail(s))
  BY HeadTailProperties, LenProperties
<1>3. ASSUME NEW i \in 1..Len(Tail(s))
      PROVE  i + 1 \in 2..Len(s) /\ i + 1 \in DOMAIN s /\ Tail(s)[i] = s[i + 1]
  BY <1>1, <1>2, HeadTailProperties
<1>4. ASSUME NEW x \in ToSet(Tail(s)) PROVE x \in ToSet(s) /\ x.call # Head(s).call
  <2>1. PICK i \in 1..Len(Tail(s)) : x = Tail(s)[i]
    BY <1>2 DEF ToSet
  <2>2. i + 1 \in 2..Len(s) /\ i + 1 \in DOMAIN s /\ x = s[i + 1]
    BY <1>3, <2>1
  <2>3. i + 1 \in 1..Len(s) /\ 1 \in 1..Len(s) /\ i + 1 # 1
    BY <1>1, <2>2
  <2>4. QED
    BY <1>1, <2>2, <2>3 DEF ToSet, UniqueCalls
<1>5. ASSUME NEW x \in ToSet(s), x # Head(s) PROVE x \in ToSet(Tail(s))
  <2>1. PICK i \in 1..Len(s) : x = s[i]
    BY <1>1 DEF ToSet
  <2>2. i # 1
    BY <1>1, <1>5, <2>1
  <2>3. i - 1 \in 1..Len(Tail(s))
    BY <1>1, <1>2, <2>2
  <2>4. Tail(s)[i - 1] = s[(i - 1) + 1]
    BY <1>3, <2>3
  <2>5. (i - 1) + 1 = i
    OBVIOUS
  <2>6. QED
    BY <1>2, <2>1, <2>3, <2>4, <2>5 DEF ToSet
<1>6. UniqueCalls(Tail(s))
  <2> SUFFICES ASSUME NEW i \in 1..Len(Tail(s)), NEW j \in 1..Len(Tail(s)),
                      Tail(s)[i].call = Tail(s)[j].call
               PROVE  i = j
    BY DEF UniqueCalls
  <2>1. i + 1 \in 1..Len(s) /\ j + 1 \in 1..Len(s) /\ s[i + 1].call = s[j + 1].call
    BY <1>1, <1>3
  <2>2. i + 1 = j + 1
    BY <2>1 DEF UniqueCalls
  <2>3. QED
    BY <2>2
<1>7. Head(s) \in ToSet(s)
  BY <1>1 DEF ToSet
<1>8. QED
  BY <1>1, <1>4, <1>5, <1>6, <1>7

(* One more turn at the end. *)
LEMMA AppendSeq ==
  ASSUME NEW S, NEW s \in Seq(S), NEW y \in S, UniqueCalls(s),
         \A x \in ToSet(s) : x.call # y.call
  PROVE  /\ Append(s, y) \in Seq(S) /\ UniqueCalls(Append(s, y))
         /\ ToSet(Append(s, y)) = ToSet(s) \cup {y}
<1> DEFINE a == Append(s, y)
<1>1. /\ Len(s) \in Nat /\ DOMAIN s = 1..Len(s) /\ a \in Seq(S) /\ Len(a) = Len(s) + 1
      /\ \A i \in 1..Len(s) : a[i] = s[i]
      /\ a[Len(s) + 1] = y
  BY LenProperties, AppendProperties
<1>2. DOMAIN a = 1..Len(a)
  BY <1>1, LenProperties
<1> HIDE DEF a
<1>3. \A i \in 1..Len(a) : i = Len(s) + 1 \/ i \in 1..Len(s)
  BY <1>1
<1>4. Len(s) + 1 \in 1..Len(a) /\ 1..Len(s) \subseteq 1..Len(a)
  BY <1>1
<1>5. ToSet(a) = ToSet(s) \cup {y}
  BY <1>1, <1>2, <1>3, <1>4 DEF ToSet
<1>6. UniqueCalls(a)
  <2> SUFFICES ASSUME NEW i \in 1..Len(a), NEW j \in 1..Len(a), a[i].call = a[j].call
               PROVE  i = j
    BY DEF UniqueCalls
  <2>1. \A k \in 1..Len(s) : a[k] \in ToSet(s)
    BY <1>1 DEF ToSet
  <2>2. CASE i \in 1..Len(s) /\ j \in 1..Len(s)
    BY <1>1, <2>2 DEF UniqueCalls
  <2>3. CASE i = Len(s) + 1 \/ j = Len(s) + 1
    BY <1>1, <1>3, <2>1, <2>3
  <2>4. QED
    BY <1>3, <2>2, <2>3
<1>7. QED
  BY <1>1, <1>5, <1>6 DEF a

(* Two parts without a common call. *)
LEMMA ConcatSeq ==
  ASSUME NEW S, NEW s \in Seq(S), NEW t \in Seq(S), UniqueCalls(s), UniqueCalls(t),
         \A x \in ToSet(s), y \in ToSet(t) : x.call # y.call
  PROVE  /\ s \o t \in Seq(S) /\ UniqueCalls(s \o t)
         /\ ToSet(s \o t) = ToSet(s) \cup ToSet(t)
<1> DEFINE a == s \o t
<1>1. /\ Len(s) \in Nat /\ DOMAIN s = 1..Len(s) /\ Len(t) \in Nat /\ DOMAIN t = 1..Len(t)
      /\ a \in Seq(S) /\ Len(a) = Len(s) + Len(t)
  BY LenProperties, ConcatProperties
<1>2. DOMAIN a = 1..Len(a)
  BY <1>1, LenProperties
<1>3. ASSUME NEW i \in 1..Len(a)
      PROVE  \/ i \in 1..Len(s) /\ a[i] = s[i]
             \/ i - Len(s) \in 1..Len(t) /\ a[i] = t[i - Len(s)]
  <2>1. a[i] = IF i <= Len(s) THEN s[i] ELSE t[i - Len(s)]
    BY <1>1, ConcatProperties
  <2> HIDE DEF a
  <2>2. QED
    BY <1>1, <2>1
<1>4. \A i \in 1..Len(s) : i \in 1..Len(a) /\ a[i] = s[i]
  BY <1>1, ConcatProperties
<1>5. ASSUME NEW i \in 1..Len(t) PROVE i + Len(s) \in 1..Len(a) /\ a[i + Len(s)] = t[i]
  <2>1. i + Len(s) \in 1..(Len(s) + Len(t)) /\ ~(i + Len(s) <= Len(s))
    BY <1>1
  <2>2. a[i + Len(s)] = t[(i + Len(s)) - Len(s)] /\ (i + Len(s)) - Len(s) = i
    BY <1>1, <2>1, ConcatProperties
  <2> HIDE DEF a
  <2>3. QED
    BY <1>1, <2>1, <2>2
<1> HIDE DEF a
<1>6. ToSet(a) = ToSet(s) \cup ToSet(t)
  <2>1. ToSet(a) \subseteq ToSet(s) \cup ToSet(t)
    BY <1>1, <1>2, <1>3 DEF ToSet
  <2>2. ToSet(s) \subseteq ToSet(a)
    BY <1>1, <1>2, <1>4 DEF ToSet
  <2>3. ToSet(t) \subseteq ToSet(a)
    BY <1>1, <1>2, <1>5 DEF ToSet
  <2>4. QED
    BY <2>1, <2>2, <2>3
<1>7. UniqueCalls(a)
  <2> SUFFICES ASSUME NEW i \in 1..Len(a), NEW j \in 1..Len(a), a[i].call = a[j].call
               PROVE  i = j
    BY DEF UniqueCalls
  <2>1. CASE i \in 1..Len(s) /\ a[i] = s[i] /\ j \in 1..Len(s) /\ a[j] = s[j]
    BY <2>1 DEF UniqueCalls
  <2>2. CASE /\ i - Len(s) \in 1..Len(t) /\ a[i] = t[i - Len(s)]
             /\ j - Len(s) \in 1..Len(t) /\ a[j] = t[j - Len(s)]
    <3>1. i - Len(s) = j - Len(s)
      BY <2>2 DEF UniqueCalls
    <3>2. QED
      BY <1>1, <3>1
  <2>3. CASE /\ i \in 1..Len(s) /\ a[i] = s[i]
             /\ j - Len(s) \in 1..Len(t) /\ a[j] = t[j - Len(s)]
    BY <1>1, <2>3 DEF ToSet
  <2>4. CASE /\ j \in 1..Len(s) /\ a[j] = s[j]
             /\ i - Len(s) \in 1..Len(t) /\ a[i] = t[i - Len(s)]
    BY <1>1, <2>4 DEF ToSet
  <2>5. QED
    BY <1>3, <2>1, <2>2, <2>3, <2>4
<1>8. QED
  BY <1>1, <1>6, <1>7 DEF a

(* The order of what remains. *)
LEMMA PrecedeTail ==
  ASSUME NEW S, NEW s \in Seq(S), s # <<>>, NEW A, NEW B, Precede(s, A, B)
  PROVE  Precede(Tail(s), A, B)
<1> SUFFICES ASSUME NEW i \in 1..Len(Tail(s)), NEW j \in 1..Len(Tail(s)),
                    Tail(s)[i] \in A, Tail(s)[j] \in B
             PROVE  i < j
  BY DEF Precede
<1>1. Len(s) \in Nat /\ Len(Tail(s)) = Len(s) - 1
  BY HeadTailProperties, LenProperties
<1>2. Tail(s)[i] = s[i + 1] /\ Tail(s)[j] = s[j + 1]
  BY HeadTailProperties
<1>3. i + 1 \in 1..Len(s) /\ j + 1 \in 1..Len(s)
  BY <1>1
<1>4. i + 1 < j + 1
  BY <1>2, <1>3 DEF Precede
<1>5. QED
  BY <1>4

(* The first turn is not preceded. *)
LEMMA PrecedeHead ==
  ASSUME NEW S, NEW s \in Seq(S), s # <<>>, NEW A, NEW B, Precede(s, A, B), Head(s) \in B
  PROVE  ToSet(s) \cap A = {}
<1> SUFFICES ASSUME NEW x \in ToSet(s), x \in A PROVE FALSE
  OBVIOUS
<1>1. Len(s) \in Nat /\ Len(s) # 0 /\ DOMAIN s = 1..Len(s) /\ Head(s) = s[1]
  BY EmptySeq, LenProperties
<1>2. PICK i \in 1..Len(s) : x = s[i]
  BY <1>1 DEF ToSet
<1>3. 1 \in 1..Len(s)
  BY <1>1
<1>4. i < 1
  BY <1>1, <1>2, <1>3 DEF Precede
<1>5. QED
  BY <1>4

(* A turn at the end is preceded by all. *)
LEMMA PrecedeAppend ==
  ASSUME NEW S, NEW s \in Seq(S), NEW y \in S, NEW A, NEW B, Precede(s, A, B), y \notin A
  PROVE  Precede(Append(s, y), A, B)
<1> DEFINE a == Append(s, y)
<1>1. /\ Len(s) \in Nat /\ Len(a) = Len(s) + 1
      /\ \A i \in 1..Len(s) : a[i] = s[i]
      /\ a[Len(s) + 1] = y
  BY LenProperties, AppendProperties
<1> HIDE DEF a
<1>2. ASSUME NEW i \in 1..Len(a), NEW j \in 1..Len(a), a[i] \in A, a[j] \in B
      PROVE  i < j
  <2>1. i # Len(s) + 1
    BY <1>1, <1>2
  <2>2. i \in 1..Len(s)
    BY <1>1, <2>1
  <2>3. CASE j = Len(s) + 1
    BY <1>1, <2>2, <2>3
  <2>4. CASE j # Len(s) + 1
    <3>1. j \in 1..Len(s)
      BY <1>1, <2>4
    <3>2. QED
      BY <1>1, <1>2, <2>2, <3>1 DEF Precede
  <2>5. QED
    BY <2>3, <2>4
<1>3. QED
  BY <1>2 DEF Precede, a

(* Turns that do not occur together are in order. *)
LEMMA PrecedeWithout ==
  ASSUME NEW S, NEW s \in Seq(S), NEW A, NEW B,
         ToSet(s) \cap A = {} \/ ToSet(s) \cap B = {}
  PROVE  Precede(s, A, B)
<1>1. \A i \in 1..Len(s) : s[i] \in ToSet(s)
  BY LenProperties DEF ToSet
<1>2. QED
  BY <1>1 DEF Precede

(* Fewer turns are in order, too. *)
LEMMA PrecedeSubset ==
  ASSUME NEW s, NEW A, NEW B, NEW C, NEW D, Precede(s, A, B), C \subseteq A, D \subseteq B
  PROVE  Precede(s, C, D)
  BY DEF Precede

(* Nothing that has to come first follows. *)
LEMMA PrecedeConcat ==
  ASSUME NEW S, NEW s \in Seq(S), NEW t \in Seq(S), NEW A, NEW B, Precede(s, A, B),
         ToSet(t) \cap A = {}
  PROVE  Precede(s \o t, A, B)
<1> DEFINE a == s \o t
<1>1. Len(s) \in Nat /\ Len(t) \in Nat /\ DOMAIN t = 1..Len(t) /\ Len(a) = Len(s) + Len(t)
  BY LenProperties, ConcatProperties
<1>2. ASSUME NEW i \in 1..Len(a)
      PROVE  \/ i \in 1..Len(s) /\ a[i] = s[i]
             \/ ~(i \in 1..Len(s)) /\ a[i] \in ToSet(t)
  <2>1. a[i] = IF i <= Len(s) THEN s[i] ELSE t[i - Len(s)]
    BY <1>1, ConcatProperties
  <2> HIDE DEF a
  <2>2. ~(i <= Len(s)) => i - Len(s) \in DOMAIN t
    BY <1>1
  <2>3. QED
    BY <1>1, <2>1, <2>2 DEF ToSet
<1> HIDE DEF a
<1>3. ASSUME NEW i \in 1..Len(a), NEW j \in 1..Len(a), a[i] \in A, a[j] \in B
      PROVE  i < j
  <2>1. i \in 1..Len(s) /\ a[i] = s[i]
    BY <1>2, <1>3
  <2>2. CASE j \in 1..Len(s) /\ a[j] = s[j]
    BY <1>3, <2>1, <2>2 DEF Precede
  <2>3. CASE ~(j \in 1..Len(s))
    BY <1>1, <2>1, <2>3
  <2>4. QED
    BY <1>2, <2>2, <2>3
<1>4. QED
  BY <1>3 DEF Precede, a

(* A turn is taken out of the middle. *)
LEMMA RemoveAtSeq ==
  ASSUME NEW S, NEW s \in Seq(S), NEW k \in 1..Len(s), UniqueCalls(s)
  PROVE  /\ RemoveAt(s, k) \in Seq(S) /\ UniqueCalls(RemoveAt(s, k))
         /\ ToSet(RemoveAt(s, k)) = ToSet(s) \ {s[k]}
<1> DEFINE p == SubSeq(s, 1, k - 1)
           q == SubSeq(s, k + 1, Len(s))
<1>1. Len(s) \in Nat /\ DOMAIN s = 1..Len(s) /\ \A i \in 1..Len(s) : s[i] \in S
  BY LenProperties, ElementOfSeq
<1>2. /\ p \in Seq(S) /\ Len(p) = k - 1 /\ \A i \in 1..(k - 1) : p[i] = s[i]
  <2>1. 1 \in Int /\ k - 1 \in Int /\ \A i \in 1..(k - 1) : i \in 1..Len(s) /\ s[i] \in S
    BY <1>1
  <2>2. /\ p \in Seq(S) /\ Len(p) = IF 1 <= k - 1 THEN (k - 1) - 1 + 1 ELSE 0
        /\ \A i \in 1..((k - 1) - 1 + 1) : p[i] = s[1 + i - 1]
    BY <2>1, SubSeqProperties
  <2>3. (k - 1) - 1 + 1 = k - 1 /\ \A i \in 1..(k - 1) : 1 + i - 1 = i
    OBVIOUS
  <2> HIDE DEF p
  <2>4. QED
    BY <1>1, <2>2, <2>3
<1>3. /\ q \in Seq(S) /\ Len(q) = Len(s) - k /\ \A i \in 1..(Len(s) - k) : q[i] = s[k + i]
  <2>1. k + 1 \in Int /\ Len(s) \in Int /\ \A i \in (k + 1)..Len(s) : s[i] \in S
    BY <1>1
  <2>2. /\ q \in Seq(S)
        /\ Len(q) = IF k + 1 <= Len(s) THEN Len(s) - (k + 1) + 1 ELSE 0
        /\ \A i \in 1..(Len(s) - (k + 1) + 1) : q[i] = s[(k + 1) + i - 1]
    BY <2>1, SubSeqProperties
  <2>3. Len(s) - (k + 1) + 1 = Len(s) - k /\ \A i \in 1..(Len(s) - k) : (k + 1) + i - 1 = k + i
    BY <1>1
  <2> HIDE DEF p, q
  <2>4. Len(q) = Len(s) - k
    <3>1. Len(s) \in Nat /\ k \in Nat /\ k <= Len(s)
      BY <1>1
    <3>2. Len(q) = IF k + 1 <= Len(s) THEN Len(s) - (k + 1) + 1 ELSE 0
      BY <2>2
    <3>3. QED
      BY <3>1, <3>2
  <2>5. ASSUME NEW i \in 1..(Len(s) - k) PROVE q[i] = s[k + i]
    BY <2>2, <2>3
  <2>6. QED
    BY <2>2, <2>4, <2>5
<1>4. DOMAIN p = 1..(k - 1) /\ DOMAIN q = 1..(Len(s) - k)
  BY <1>2, <1>3, LenProperties
<1>5. RemoveAt(s, k) = p \o q
  BY DEF RemoveAt
<1> HIDE DEF p, q
<1>6. /\ \A i \in 1..(k - 1) : i \in 1..Len(s) /\ i # k
      /\ \A i \in 1..(Len(s) - k) : k + i \in 1..Len(s) /\ k + i # k
      /\ \A i \in 1..(k - 1) : \A j \in 1..(Len(s) - k) : i # k + j
  BY <1>1
<1>7. UniqueCalls(p)
  BY <1>2, <1>6 DEF UniqueCalls
<1>8. UniqueCalls(q)
  <2> SUFFICES ASSUME NEW i \in 1..Len(q), NEW j \in 1..Len(q), q[i].call = q[j].call
               PROVE  i = j
    BY DEF UniqueCalls
  <2>1. k + i = k + j
    BY <1>3, <1>6 DEF UniqueCalls
  <2>2. QED
    BY <1>1, <1>3, <2>1
<1>9. \A x \in ToSet(p), y \in ToSet(q) : x.call # y.call
  BY <1>2, <1>3, <1>4, <1>6 DEF ToSet, UniqueCalls
<1>10. ToSet(p) \cup ToSet(q) = ToSet(s) \ {s[k]}
  <2>1. ToSet(p) \subseteq ToSet(s) \ {s[k]}
    BY <1>1, <1>2, <1>4, <1>6 DEF ToSet, UniqueCalls
  <2>2. ToSet(q) \subseteq ToSet(s) \ {s[k]}
    BY <1>1, <1>3, <1>4, <1>6 DEF ToSet, UniqueCalls
  <2>3. ASSUME NEW x \in ToSet(s), x # s[k] PROVE x \in ToSet(p) \cup ToSet(q)
    <3>1. PICK i \in 1..Len(s) : x = s[i]
      BY <1>1 DEF ToSet
    <3>2. CASE i < k
      <4>1. i \in 1..(k - 1)
        BY <1>1, <3>2
      <4>2. QED
        BY <1>2, <1>4, <3>1, <4>1 DEF ToSet
    <3>3. CASE i > k
      <4>1. i - k \in 1..(Len(s) - k) /\ k + (i - k) = i
        BY <1>1, <3>3
      <4>2. q[i - k] = s[k + (i - k)]
        BY <1>3, <4>1
      <4>3. QED
        BY <1>4, <3>1, <4>1, <4>2 DEF ToSet
    <3>4. i < k \/ i > k
      BY <1>1, <2>3, <3>1
    <3>5. QED
      BY <3>2, <3>3, <3>4
  <2>4. QED
    BY <2>1, <2>2, <2>3
<1>11. QED
  BY <1>2, <1>3, <1>5, <1>7, <1>8, <1>9, <1>10, ConcatSeq

(* A turn in the middle continues at another step of its call. *)
LEMMA ReplaceAtSeq ==
  ASSUME NEW S, NEW s \in Seq(S), NEW k \in 1..Len(s), UniqueCalls(s), NEW y \in S,
         y.call = s[k].call
  PROVE  /\ ReplaceAt(s, k, y) \in Seq(S) /\ UniqueCalls(ReplaceAt(s, k, y))
         /\ ToSet(ReplaceAt(s, k, y)) = (ToSet(s) \ {s[k]}) \cup {y}
         /\ \A A, B : Precede(s, A, B) /\ (y \in A => s[k] \in A) /\ (y \in B => s[k] \in B)
              => Precede(ReplaceAt(s, k, y), A, B)
<1> DEFINE a == ReplaceAt(s, k, y)
<1>1. /\ Len(s) \in Nat /\ DOMAIN s = 1..Len(s) /\ a \in Seq(S) /\ Len(a) = Len(s)
      /\ \A i \in 1..Len(s) : a[i] = IF i = k THEN y ELSE s[i]
  BY LenProperties, ExceptSeq DEF ReplaceAt
<1>2. DOMAIN a = 1..Len(s)
  BY <1>1, LenProperties
<1> HIDE DEF a
<1>3. UniqueCalls(a)
  BY <1>1 DEF UniqueCalls
<1>4. ToSet(a) = (ToSet(s) \ {s[k]}) \cup {y}
  <2>1. ASSUME NEW x \in ToSet(a) PROVE x \in (ToSet(s) \ {s[k]}) \cup {y}
    <3>1. PICK i \in 1..Len(s) : x = a[i]
      BY <1>2 DEF ToSet
    <3>2. CASE i = k
      BY <1>1, <3>1, <3>2
    <3>3. CASE i # k
      <4>1. x = s[i] /\ s[i].call # s[k].call
        BY <1>1, <3>1, <3>3 DEF UniqueCalls
      <4>2. QED
        BY <1>1, <4>1 DEF ToSet
    <3>4. QED
      BY <3>2, <3>3
  <2>2. ToSet(s) \ {s[k]} \subseteq ToSet(a)
    BY <1>1, <1>2 DEF ToSet
  <2>3. y \in ToSet(a)
    BY <1>1, <1>2 DEF ToSet
  <2>4. QED
    BY <2>1, <2>2, <2>3
<1>5. ASSUME NEW A, NEW B, Precede(s, A, B), y \in A => s[k] \in A, y \in B => s[k] \in B
      PROVE  Precede(a, A, B)
  BY <1>1, <1>5 DEF Precede
<1>6. QED
  BY <1>1, <1>3, <1>4, <1>5 DEF a

-----------------------------------------------------------------------------
(* Turns and calls. *)

CallSteps == {"call", "setup", "barrier", "rewait", "expired"}

(* A turn is that of a call or of the reset. *)
LEMMA TurnTypes ==
  ASSUME NEW x \in Turns
  PROVE  /\ x.step \in CallSteps \cup {"reset"}
         /\ x = ResetTurn <=> x.step = "reset"
         /\ x # ResetTurn => x.call \in Calls /\ x.step \in CallSteps
         /\ x = ResetTurn => x.call = None
  BY DEF Turns, ResetTurn, Turn, CallSteps

(* The turn of a call. *)
LEMMA TurnOfCall ==
  ASSUME NEW step \in CallSteps, NEW call \in Calls
  PROVE  /\ Turn(step, call) \in Turns /\ Turn(step, call) # ResetTurn
         /\ Turn(step, call).step = step /\ Turn(step, call).call = call
  BY DEF Turns, ResetTurn, Turn, CallSteps

(* The components of a call. *)
LEMMA CallTypes ==
  ASSUME NEW c \in Calls
  PROVE  c.rank \in Ranks /\ c.number \in Nat /\ c.life \in Nat /\ c.index \in Nat /\ c # None
  BY SyncAssumption DEF Calls

(* The elements of a sequence have its type. *)
LEMMA SetOfSeq ==
  ASSUME NEW S, NEW s \in Seq(S)
  PROVE  ToSet(s) \subseteq S /\ (ToSet(s) = {} <=> s = <<>>)
<1>1. ToSet(s) \subseteq S
  BY LenProperties, ElementOfSeq DEF ToSet
<1>2. s = <<>> => ToSet(s) = {}
  <2>1. ASSUME s = <<>> PROVE DOMAIN s = {}
    <3>1. Len(s) = 0 /\ DOMAIN s = 1..Len(s)
      BY <2>1, EmptySeq, LenProperties
    <3>2. 1..0 = {}
      OBVIOUS
    <3>3. QED
      BY <3>1, <3>2
  <2>2. QED
    BY <2>1 DEF ToSet
<1>3. s # <<>> => ToSet(s) # {}
  <2>1. ASSUME s # <<>> PROVE 1 \in DOMAIN s
    <3>1. Len(s) \in Nat \ {0} /\ DOMAIN s = 1..Len(s)
      BY <2>1, EmptySeq, LenProperties
    <3>2. QED
      BY <3>1
  <2>2. QED
    BY <2>1 DEF ToSet
<1>4. QED
  BY <1>1, <1>2, <1>3

(* Pending turns are turns, and a call has one of them. *)
LEMMA PendingTurns ==
  ASSUME TypeOK, Unique
  PROVE  /\ Pending \subseteq Turns /\ ToSet(waiting) \subseteq Pending
         /\ ToSet(queue) \subseteq Pending
         /\ \A x, y \in Pending : x.call = y.call => x = y
         /\ \A x \in ToSet(waiting) : x \notin ToSet(queue)
<1>1. queue \in Seq(Turns) /\ waiting \in Seq(Turns)
  BY DEF TypeOK
<1>2. ToSet(queue) \subseteq Turns /\ ToSet(waiting) \subseteq Turns
  BY <1>1, SetOfSeq
<1>3. \A s \in Seq(Turns) : UniqueCalls(s) =>
        \A x, y \in ToSet(s) : x.call = y.call => x = y
  <2> SUFFICES ASSUME NEW s \in Seq(Turns), UniqueCalls(s), NEW x \in ToSet(s),
                      NEW y \in ToSet(s), x.call = y.call
               PROVE  x = y
    OBVIOUS
  <2>1. PICK i, j \in 1..Len(s) : x = s[i] /\ y = s[j]
    BY LenProperties DEF ToSet
  <2>2. QED
    BY <2>1 DEF UniqueCalls
<1>4. QED
  BY <1>1, <1>2, <1>3 DEF Pending, Unique

(* The calls inside, by their turns. *)
LEMMA InsideCalls ==
  ASSUME NEW w \in Seq(Turns), NEW q \in Seq(Turns), NEW c
  PROVE  c \in CallsAt({"barrier", "rewait", "expired"}, w \o q) <=>
           \E x \in ToSet(w) \cup ToSet(q) : x.step \in InsideSteps /\ x.call = c
<1>1. ToSet(w \o q) = ToSet(w) \cup ToSet(q)
  <2>1. \A s : ToSet(s) = Range(s)
    BY DEF ToSet, Range
  <2>2. QED
    BY <2>1, RangeConcatenation
<1>2. QED
  BY <1>1 DEF CallsAt, InsideSteps

(* The same in the current and in the next state. *)
LEMMA InsideMembers ==
  ASSUME NEW c
  PROVE  /\ TypeOK => (c \in Inside <=> \E x \in Pending : x.step \in InsideSteps /\ x.call = c)
         /\ TypeOK' => (c \in Inside' <=> \E x \in Pending' : x.step \in InsideSteps /\ x.call = c)
<1>1. TypeOK => queue \in Seq(Turns) /\ waiting \in Seq(Turns)
  BY DEF TypeOK
<1>2. TypeOK' => queue' \in Seq(Turns) /\ waiting' \in Seq(Turns)
  BY DEF TypeOK
<1>3. TypeOK => (c \in Inside <=> \E x \in Pending : x.step \in InsideSteps /\ x.call = c)
  BY <1>1, InsideCalls DEF Inside, Pending
<1>4. TypeOK' => (c \in Inside' <=> \E x \in Pending' : x.step \in InsideSteps /\ x.call = c)
  BY <1>2, InsideCalls DEF Inside, Pending
<1>5. QED
  BY <1>3, <1>4

(* A turn that is followed by one of the same call, both inside or both not. *)
LEMMA SameInside ==
  ASSUME TypeOK, TypeOK', NEW x \in Pending, NEW y,
         Pending' = (Pending \ {x}) \cup {y}, y.call = x.call,
         x.step \in InsideSteps <=> y.step \in InsideSteps
  PROVE  Inside' = Inside
<1>1. ASSUME NEW c \in Inside PROVE c \in Inside'
  <2>1. PICK z \in Pending : z.step \in InsideSteps /\ z.call = c
    BY InsideMembers
  <2>2. CASE z = x
    BY <2>1, <2>2, InsideMembers
  <2>3. CASE z # x
    BY <2>1, <2>3, InsideMembers
  <2>4. QED
    BY <2>2, <2>3
<1>2. ASSUME NEW c \in Inside' PROVE c \in Inside
  <2>1. PICK z \in Pending' : z.step \in InsideSteps /\ z.call = c
    BY InsideMembers
  <2>2. CASE z = y
    BY <2>1, <2>2, InsideMembers
  <2>3. CASE z # y
    BY <2>1, <2>3, InsideMembers
  <2>4. QED
    BY <2>2, <2>3
<1>3. QED
  BY <1>1, <1>2

-----------------------------------------------------------------------------
(* The end of a turn. *)

(* The turn at the head. *)
LEMMA HeadTurn ==
  ASSUME TypeOK, Unique, queue # <<>>
  PROVE  /\ Head(queue) \in Turns /\ Head(queue) \in ToSet(queue) /\ Head(queue) \in Pending
         /\ Tail(queue) \in Seq(Turns) /\ UniqueCalls(Tail(queue))
         /\ ToSet(Tail(queue)) = ToSet(queue) \ {Head(queue)}
         /\ \A x \in Pending : x.call = Head(queue).call => x = Head(queue)
<1>1. queue \in Seq(Turns)
  BY DEF TypeOK
<1>2. QED
  BY <1>1, PendingTurns, TailSeq DEF Unique, Pending

(* The call goes on waiting. *)
LEMMA EndAndWait ==
  ASSUME TypeOK, Unique, queue # <<>>, NEW y \in Turns, y.call = Head(queue).call,
         EndTurn(FALSE, Append(waiting, y))
  PROVE  /\ queue' \in Seq(Turns) /\ waiting' \in Seq(Turns) /\ Unique'
         /\ queue' = Tail(queue) /\ ToSet(queue)' = ToSet(queue) \ {Head(queue)}
         /\ ToSet(waiting)' = ToSet(waiting) \cup {y}
         /\ Pending' = (Pending \ {Head(queue)}) \cup {y}
<1>1. queue' = Tail(queue) /\ waiting' = Append(waiting, y)
  BY DEF EndTurn
<1>2. waiting \in Seq(Turns) /\ UniqueCalls(waiting)
  BY DEF TypeOK, Unique
<1>3. \A x \in ToSet(waiting) : x.call # y.call
  BY HeadTurn DEF Unique
<1>4. /\ waiting' \in Seq(Turns) /\ UniqueCalls(waiting)'
      /\ ToSet(waiting)' = ToSet(waiting) \cup {y}
  BY <1>1, <1>2, <1>3, AppendSeq
<1>5. /\ queue' \in Seq(Turns) /\ UniqueCalls(queue)'
      /\ ToSet(queue)' = ToSet(queue) \ {Head(queue)}
  BY <1>1, HeadTurn
<1>6. \A x \in ToSet(waiting)', z \in ToSet(queue)' : x.call # z.call
  BY <1>4, <1>5, HeadTurn DEF Unique, Pending
<1>7. Pending' = (Pending \ {Head(queue)}) \cup {y}
  BY <1>4, <1>5, PendingTurns, HeadTurn DEF Pending
<1>8. QED
  BY <1>1, <1>4, <1>5, <1>6, <1>7 DEF Unique

(* The call leaves, and the waiting calls are notified or not. *)
LEMMA EndAndLeave ==
  ASSUME TypeOK, Unique, queue # <<>>, NEW b \in BOOLEAN, EndTurn(b, waiting)
  PROVE  /\ queue' \in Seq(Turns) /\ waiting' \in Seq(Turns) /\ Unique'
         /\ Pending' = Pending \ {Head(queue)}
         /\ b  => /\ queue' = Tail(queue) \o waiting /\ waiting' = <<>> /\ ToSet(waiting)' = {}
                  /\ ToSet(queue)' = (ToSet(queue) \ {Head(queue)}) \cup ToSet(waiting)
         /\ ~b => /\ queue' = Tail(queue) /\ waiting' = waiting
                  /\ ToSet(queue)' = ToSet(queue) \ {Head(queue)}
<1>1. waiting \in Seq(Turns) /\ UniqueCalls(waiting)
  BY DEF TypeOK, Unique
<1>2. CASE b
  <2>1. queue' = Tail(queue) \o waiting /\ waiting' = <<>>
    BY <1>2 DEF EndTurn
  <2>2. \A x \in ToSet(Tail(queue)), y \in ToSet(waiting) : x.call # y.call
    BY HeadTurn DEF Unique
  <2>3. /\ queue' \in Seq(Turns) /\ UniqueCalls(queue)'
        /\ ToSet(queue)' = (ToSet(queue) \ {Head(queue)}) \cup ToSet(waiting)
    <3>1. PICK u \in Seq(Turns) : u = Tail(queue) /\ UniqueCalls(u)
      BY HeadTurn
    <3>2. \A x \in ToSet(u), y \in ToSet(waiting) : x.call # y.call
      BY <2>2, <3>1
    <3>3. /\ u \o waiting \in Seq(Turns) /\ UniqueCalls(u \o waiting)
          /\ ToSet(u \o waiting) = ToSet(u) \cup ToSet(waiting)
      BY <1>1, <3>1, <3>2, ConcatSeq
    <3>4. QED
      BY <2>1, <3>1, <3>3, HeadTurn
  <2>4. waiting' \in Seq(Turns) /\ ToSet(waiting)' = {}
    BY <2>1, EmptySeq, SetOfSeq
  <2>5. UniqueCalls(waiting)'
    <3>1. Len(waiting') = 0 /\ 1..0 = {}
      BY <2>1, EmptySeq
    <3>2. QED
      BY <3>1 DEF UniqueCalls
  <2>6. Unique'
    BY <2>3, <2>4, <2>5 DEF Unique
  <2>7. Pending' = Pending \ {Head(queue)}
    BY <2>3, <2>4, PendingTurns, HeadTurn DEF Pending
  <2>8. QED
    BY <1>2, <2>1, <2>3, <2>4, <2>6, <2>7
<1>3. CASE ~b
  <2>1. queue' = Tail(queue) /\ waiting' = waiting
    BY <1>3 DEF EndTurn
  <2>2. /\ queue' \in Seq(Turns) /\ UniqueCalls(queue)'
        /\ ToSet(queue)' = ToSet(queue) \ {Head(queue)} /\ ToSet(waiting)' = ToSet(waiting)
    BY <2>1, HeadTurn
  <2>3. Unique'
    BY <1>1, <2>1, <2>2 DEF Unique
  <2>4. Pending' = Pending \ {Head(queue)}
    BY <2>2, PendingTurns, HeadTurn DEF Pending
  <2>5. QED
    BY <1>1, <1>3, <2>1, <2>2, <2>3, <2>4
<1>4. QED
  BY <1>2, <1>3

-----------------------------------------------------------------------------
(* The counter, the workers and what a step leaves alone. *)

Actors == [counter : 0..WorldSize, worldSize : {0, WorldSize}, data : Calls \cup {None},
           reset : BOOLEAN]

(* A call inside is counted, and its leaving is, too. *)
LEMMA LeftActor ==
  ASSUME TypeOK, Counts, NEW c \in Inside
  PROVE  /\ actor.counter \in Nat \ {0} /\ Left(actor) \in Actors
         /\ Left(actor).counter = actor.counter - 1
         /\ actor.counter = 1 => Left(actor) = Idle /\ Inside = {c}
         /\ actor.counter # 1 => /\ Left(actor).data = actor.data
                                 /\ Left(actor).reset = actor.reset
         /\ ~actor.reset => ~Left(actor).reset
<1>1. actor \in Actors /\ WorldSize \in Nat \ {0} /\ actor.counter = Cardinality(Inside)
  BY SyncAssumption DEF TypeOK, Actors, Counts, CounterIsInside
<1>2. actor.counter \in Nat \ {0}
  <2>1. Cardinality(Inside) # 0
    BY FS_EmptySet DEF Counts
  <2>2. actor.counter \in Nat
    BY <1>1 DEF Actors
  <2>3. QED
    BY <1>1, <2>1, <2>2
<1>3. actor.counter = 1 => Inside = {c}
  <2>1. Cardinality(Inside) = 1 => \E x : Inside = {x}
    BY FS_Singleton DEF Counts
  <2>2. QED
    BY <1>1, <2>1
<1>4. Idle \in Actors /\ Idle.counter = 0 /\ ~Idle.reset
  BY <1>1 DEF Idle, Actors
<1>5. CASE actor.counter = 1
  BY <1>1, <1>2, <1>3, <1>4, <1>5 DEF Left
<1>6. CASE actor.counter # 1
  <2>1. Left(actor) = [actor EXCEPT !.counter = @ - 1]
    BY <1>6 DEF Left
  <2>2. /\ actor.counter \in 0..WorldSize /\ actor.counter - 1 \in 0..WorldSize
    BY <1>1, <1>2 DEF Actors
  <2>3. QED
    BY <1>1, <1>2, <1>6, <2>1, <2>2 DEF Actors
<1>7. QED
  BY <1>5, <1>6

(* The count after a call has left. *)
LEMMA LeaveCounts ==
  ASSUME TypeOK, Counts, NEW c \in Inside, Inside' = Inside \ {c}, actor' = Left(actor)
  PROVE  Counts' /\ (actor.counter = 1 <=> Inside' = {})
<1>1. actor.counter = Cardinality(Inside) /\ IsFiniteSet(Inside) /\ actor.counter < WorldSize
  BY DEF Counts, CounterIsInside
<1>2. IsFiniteSet(Inside') /\ Cardinality(Inside') = Cardinality(Inside) - 1
  BY <1>1, FS_RemoveElement
<1>3. actor.counter \in Nat /\ actor'.counter = actor.counter - 1
  BY LeftActor
<1>4. Cardinality(Inside') = 0 <=> Inside' = {}
  BY <1>2, FS_EmptySet
<1>5. actor'.counter = Cardinality(Inside') /\ (actor.counter = 1 <=> Inside' = {})
  BY <1>1, <1>2, <1>3, <1>4
<1>6. actor'.counter = 0 => actor' = Idle
  <2>1. actor'.counter = 0 => actor.counter = 1
    BY <1>3
  <2>2. QED
    BY <2>1, LeftActor
<1>7. actor'.counter < WorldSize
  BY <1>1, <1>3, SyncAssumption
<1>8. QED
  BY <1>2, <1>5, <1>6, <1>7 DEF Counts, CounterIsInside

(* The answer to a call changes its caller only. *)
LEMMA ReplyTypes ==
  ASSUME TypeOK, NEW call \in Calls, NEW status \in {"idle", "dead"}, NEW index \in Nat,
         Reply(call, status, index)
  PROVE  /\ worker' \in [Ranks -> [status : {"idle", "calling", "dead"}, number : Nat,
                                   life : Nat, index : Nat]]
         /\ \A r \in Ranks : /\ worker'[r].number = worker[r].number
                             /\ r # call.rank => worker'[r].status = worker[r].status
                             /\ worker[r].status = "dead" => worker'[r].status = "dead"
<1>1. worker \in [Ranks -> [status : {"idle", "calling", "dead"}, number : Nat,
                            life : Nat, index : Nat]]
  BY DEF TypeOK
<1>2. call.rank \in Ranks
  BY CallTypes
<1>3. CASE worker[call.rank].status = "calling" /\ worker[call.rank].number = call.number
  <2>1. worker' = [worker EXCEPT ![call.rank] =
                     [worker[call.rank] EXCEPT !.status = status, !.index = index]]
    BY <1>3 DEF Reply
  <2>2. [worker[call.rank] EXCEPT !.status = status, !.index = index] \in
          [status : {"idle", "calling", "dead"}, number : Nat, life : Nat, index : Nat]
    BY <1>1, <1>2
  <2>3. /\ worker' \in [Ranks -> [status : {"idle", "calling", "dead"}, number : Nat,
                                  life : Nat, index : Nat]]
        /\ \A r \in Ranks : r # call.rank => worker'[r] = worker[r]
        /\ worker'[call.rank].number = worker[call.rank].number
    BY <1>1, <1>2, <2>1, <2>2
  <2>4. QED
    BY <1>3, <2>3
<1>4. CASE ~(worker[call.rank].status = "calling" /\ worker[call.rank].number = call.number)
  <2>1. worker' = worker
    BY <1>4 DEF Reply
  <2>2. QED
    BY <1>1, <2>1
<1>5. QED
  BY <1>3, <1>4

(* Nobody enters or leaves. *)
LEMMA SameCounts ==
  ASSUME Counts, Inside' = Inside, actor' = actor
  PROVE  Counts'
  BY DEF Counts, CounterIsInside

-----------------------------------------------------------------------------
(* The turns of the event loop. *)

(* A call that waits for the end of a reset is not inside. *)
LEMMA WaitForResetKeeps ==
  ASSUME IInv, WaitForReset
  PROVE  IInv'
<1> DEFINE t == Head(queue)
           y == Turn("setup", t.call)
<1>1. /\ TypeOK /\ Unique /\ Counts /\ Orderly /\ queue # <<>> /\ t.step \in StartSteps
      /\ actor.reset /\ EndTurn(FALSE, Append(waiting, y))
      /\ UNCHANGED <<actor, worker, control, group, got, budget>>
  BY DEF IInv, Orderly, WaitForReset, Starts, StartSteps
<1>2. /\ t \in Turns /\ t \in ToSet(queue) /\ t \in Pending /\ t # ResetTurn /\ t.call \in Calls
      /\ \A x \in Pending : x.call = t.call => x = t
  BY <1>1, HeadTurn, TurnTypes DEF StartSteps
<1>3. /\ y \in Turns /\ y # ResetTurn /\ y.step = "setup" /\ y.call = t.call
  BY <1>2, TurnOfCall DEF CallSteps
<1> HIDE DEF t, y
<1>4. /\ queue' \in Seq(Turns) /\ waiting' \in Seq(Turns) /\ Unique'
      /\ queue' = Tail(queue) /\ ToSet(queue)' = ToSet(queue) \ {t}
      /\ ToSet(waiting)' = ToSet(waiting) \cup {y} /\ Pending' = (Pending \ {t}) \cup {y}
  BY <1>1, <1>3, EndAndWait DEF t
<1>5. TypeOK'
  BY <1>1, <1>4 DEF TypeOK
<1>6. Inside' = Inside
  BY <1>1, <1>3, <1>4, <1>5, InsideMembers DEF InsideSteps, StartSteps
<1>7. Orderly'
  <2>1. Waits'
    BY <1>1, <1>3, <1>4 DEF Orderly, Waits
  <2>2. Numbered'
    BY <1>1, <1>2, <1>3, <1>4 DEF Orderly, Numbered
  <2>3. OneReset' /\ GotShape'
    BY <1>1, <1>4 DEF Orderly, OneReset, GotShape
  <2>4. QED
    BY <1>1, <1>4, <1>6, <2>1, <2>2, <2>3, SameCounts DEF Orderly
<1>8. ASSUME Calm PROVE Calm'
  <2>1. ResetNotifies'
    BY <1>1, <1>3, <1>4, <1>8 DEF Calm, ResetNotifies
  <2>2. GroupNotified'
    BY <1>1, <1>2, <1>3, <1>4, <1>6, <1>8 DEF Calm, GroupNotified, InsideSteps, StartSteps
  <2>3. OneCallPerRank'
    BY <1>1, <1>2, <1>3, <1>4, <1>8 DEF Calm, OneCallPerRank
  <2>4. ResetReplaces'
    BY <1>1, <1>2, <1>3, <1>4, <1>8
       DEF Calm, ResetReplaces, OfReplaced, InsideSteps, StartSteps
  <2>5. GroupLeavesFirst'
    <3>1. queue \in Seq(Turns) /\ Precede(queue, Leaving, Started) /\ Leaving' = Leaving
      BY <1>1, <1>8 DEF TypeOK, Calm, GroupLeavesFirst, Leaving
    <3>2. QED
      BY <1>1, <1>4, <3>1, PrecedeTail DEF GroupLeavesFirst, Started
  <2>6. DataOfRankZero' /\ Agreement'
    BY <1>1, <1>6, <1>8 DEF Calm, DataOfRankZero, OneEach, Agreement
  <2>7. QED
    BY <2>1, <2>2, <2>3, <2>4, <2>5, <2>6 DEF Calm
<1>9. QED
  BY <1>1, <1>5, <1>7, <1>8 DEF IInv

(* What the entering call makes of the actor. *)
LEMMA CountedActor ==
  ASSUME TypeOK, Counts, NEW c \in Calls, ~actor.reset
  PROVE  /\ Counted(actor, c) \in Actors
         /\ Counted(actor, c).counter = actor.counter + 1
         /\ Counted(actor, c).worldSize = WorldSize /\ ~Counted(actor, c).reset
         /\ Counted(actor, c).data = IF c.rank = 0 THEN c ELSE actor.data
<1>1. actor \in Actors /\ WorldSize \in Nat \ {0} /\ actor.counter < WorldSize
  BY SyncAssumption DEF TypeOK, Actors, Counts
<1>2. actor.counter + 1 \in 0..WorldSize
  BY <1>1 DEF Actors
<1>3. Counted(actor, c) = [actor EXCEPT !.worldSize = WorldSize,
                                        !.data = IF c.rank = 0 THEN c ELSE actor.data,
                                        !.counter = actor.counter + 1]
  BY <1>1 DEF Counted
<1>4. (IF c.rank = 0 THEN c ELSE actor.data) \in Calls \cup {None}
  BY <1>1 DEF Actors
<1>5. QED
  BY <1>1, <1>2, <1>3, <1>4 DEF Actors

(* When a call starts, no member of the last group is inside any more. *)
LEMMA GroupHasLeft ==
  ASSUME TypeOK, Unique, Waits, Calm, queue # <<>>, Head(queue).step \in StartSteps
  PROVE  Inside \cap group = {} /\ Head(queue).call \notin group
<1>1. queue \in Seq(Turns) /\ Precede(queue, Leaving, Started) /\ Head(queue) \in Started
  BY HeadTurn DEF TypeOK, Calm, GroupLeavesFirst, Started
<1>2. ToSet(queue) \cap Leaving = {}
  BY <1>1, PrecedeHead
<1>3. ASSUME NEW c \in Inside, c \in group PROVE FALSE
  <2>1. PICK x \in Pending : x.step \in InsideSteps /\ x.call = c
    BY InsideMembers
  <2>2. x \in ToSet(queue) /\ x \in Turns
    BY <1>3, <2>1, PendingTurns DEF Calm, GroupNotified
  <2>3. QED
    BY <1>2, <1>3, <2>1, <2>2 DEF Leaving
<1>4. Head(queue).call \notin group
  BY HeadTurn DEF Calm, GroupNotified, InsideSteps, StartSteps
<1>5. QED
  BY <1>3, <1>4

(* A call that enters was not inside. *)
LEMMA EnterAndWaitKeeps ==
  ASSUME IInv, EnterAndWait
  PROVE  IInv'
<1> DEFINE t == Head(queue)
           y == Turn("barrier", t.call)
<1>1. /\ TypeOK /\ Unique /\ Waits /\ Counts /\ Orderly /\ queue # <<>>
      /\ t.step \in StartSteps /\ ~actor.reset /\ EndTurn(FALSE, Append(waiting, y))
      /\ actor' = Counted(actor, t.call)
      /\ actor'.counter # actor'.worldSize
      /\ UNCHANGED <<worker, control, group, got, budget>>
  BY DEF IInv, Orderly, EnterAndWait, Starts, StartSteps
<1>2. /\ t \in Turns /\ t \in ToSet(queue) /\ t \in Pending /\ t # ResetTurn /\ t.call \in Calls
      /\ \A x \in Pending : x.call = t.call => x = t
  BY <1>1, HeadTurn, TurnTypes DEF StartSteps
<1>3. /\ y \in Turns /\ y # ResetTurn /\ y.step = "barrier" /\ y.call = t.call
  BY <1>2, TurnOfCall DEF CallSteps
<1>4. /\ actor' \in Actors /\ actor'.counter = actor.counter + 1 /\ actor'.worldSize = WorldSize
      /\ ~actor'.reset /\ actor'.data = IF t.call.rank = 0 THEN t.call ELSE actor.data
  BY <1>1, <1>2, CountedActor
<1> HIDE DEF t, y
<1>5. /\ queue' \in Seq(Turns) /\ waiting' \in Seq(Turns) /\ Unique'
      /\ queue' = Tail(queue) /\ ToSet(queue)' = ToSet(queue) \ {t}
      /\ ToSet(waiting)' = ToSet(waiting) \cup {y} /\ Pending' = (Pending \ {t}) \cup {y}
  BY <1>1, <1>3, EndAndWait DEF t
<1>6. TypeOK'
  BY <1>1, <1>4, <1>5 DEF TypeOK, Actors
<1>7. Inside' = Inside \cup {t.call} /\ t.call \notin Inside
  BY <1>1, <1>2, <1>3, <1>5, <1>6, InsideMembers DEF InsideSteps, StartSteps
<1>8. Counts'
  <2>1. IsFiniteSet(Inside') /\ Cardinality(Inside') = Cardinality(Inside) + 1
    BY <1>1, <1>7, FS_AddElement DEF Counts
  <2>2. actor.counter = Cardinality(Inside) /\ actor.counter \in Nat /\ WorldSize \in Nat
    BY <1>1, SyncAssumption DEF Counts, CounterIsInside, TypeOK
  <2>3. actor'.counter < WorldSize /\ actor'.counter # 0
    BY <1>1, <1>4, <2>2 DEF Counts
  <2>4. QED
    BY <1>4, <2>1, <2>2, <2>3 DEF Counts, CounterIsInside
<1>9. Orderly'
  <2>1. Waits'
    BY <1>1, <1>3, <1>5 DEF Waits
  <2>2. Numbered'
    BY <1>1, <1>2, <1>3, <1>5 DEF Orderly, Numbered
  <2>3. OneReset' /\ GotShape'
    BY <1>1, <1>5 DEF Orderly, OneReset, GotShape
  <2>4. QED
    BY <1>5, <1>8, <2>1, <2>2, <2>3 DEF Orderly
<1>10. ASSUME Calm PROVE Calm'
  <2>0. Inside \cap group = {} /\ t.call \notin group /\ Inside' \cap group' = {}
    <3>1. Inside \cap group = {} /\ t.call \notin group
      BY <1>1, <1>10, GroupHasLeft DEF t
    <3>2. QED
      BY <1>1, <1>7, <3>1
  <2>1. ResetNotifies'
    BY <1>1, <1>3, <1>4, <1>5, <1>10 DEF Calm, ResetNotifies
  <2>2. GroupNotified'
    BY <1>1, <1>3, <1>4, <1>5, <1>10, <2>0 DEF Calm, GroupNotified
  <2>3. OneCallPerRank'
    BY <1>1, <1>2, <1>3, <1>5, <1>10 DEF Calm, OneCallPerRank
  <2>4. ResetReplaces'
    <3>1. control'.step = "resetting" =>
            Precede(queue', {x \in OfReplaced' : x.step = "call"}, {ResetTurn})
      <4>1. queue \in Seq(Turns) /\ OfReplaced' = OfReplaced
        BY <1>1 DEF TypeOK, OfReplaced
      <4>2. QED
        BY <1>1, <1>5, <1>10, <4>1, PrecedeTail DEF Calm, ResetReplaces
    <3>2. QED
      BY <1>1, <1>2, <1>3, <1>4, <1>5, <1>10, <3>1
         DEF Calm, ResetReplaces, OfReplaced, InsideSteps, StartSteps
  <2>5. GroupLeavesFirst'
    <3>1. queue \in Seq(Turns) /\ Precede(queue, Leaving, Started) /\ Leaving' = Leaving
      BY <1>1, <1>10 DEF TypeOK, Calm, GroupLeavesFirst, Leaving
    <3>2. QED
      BY <1>1, <1>5, <3>1, PrecedeTail DEF GroupLeavesFirst, Started
  <2>6. DataOfRankZero'
    <3>1. ASSUME NEW c \in Inside', c.rank = 0 PROVE actor'.data = c
      <4>1. CASE c = t.call
        BY <1>4, <3>1, <4>1
      <4>2. CASE c # t.call
        <5>1. c \in Inside
          BY <1>7, <4>2
        <5>2. PICK x \in Pending : x.step \in InsideSteps /\ x.call = c
          BY <1>1, <5>1, InsideMembers
        <5>3. x # ResetTurn /\ x # t
          BY <1>1, <5>2 DEF InsideSteps, StartSteps, ResetTurn, Turn
        <5>4. t.call.rank # 0
          BY <1>2, <1>10, <3>1, <5>2, <5>3 DEF Calm, OneCallPerRank
        <5>5. QED
          BY <1>4, <1>10, <2>0, <3>1, <5>1, <5>4 DEF Calm, DataOfRankZero
      <4>3. QED
        BY <4>1, <4>2
    <3>2. QED
      BY <1>1, <1>10, <2>0, <3>1 DEF Calm, DataOfRankZero, OneEach
  <2>7. Agreement'
    BY <1>1, <1>10 DEF Calm, Agreement
  <2>8. QED
    BY <2>1, <2>2, <2>3, <2>4, <2>5, <2>6, <2>7 DEF Calm
<1>11. QED
  BY <1>1, <1>6, <1>9, <1>10 DEF IInv

(***************************************************************************)
(* As many calls as ranks, no two of the same rank: one call of each rank. *)
(***************************************************************************)
LEMMA OneOfEachRank ==
  ASSUME NEW G \in SUBSET Calls, IsFiniteSet(G), Cardinality(G) = WorldSize,
         \A c, d \in G : c.rank = d.rank => c = d
  PROVE  OneEach(G) /\ \A s \in Ranks : \E c \in G : c.rank = s
<1> DEFINE f == [c \in G |-> c.rank]
<1>1. IsFiniteSet(Ranks) /\ Cardinality(Ranks) = WorldSize
  <2>1. WorldSize \in Nat \ {0} /\ 0 \in Int /\ WorldSize - 1 \in Int
    BY SyncAssumption
  <2>2. /\ IsFiniteSet(0..(WorldSize - 1))
        /\ Cardinality(0..(WorldSize - 1)) =
             IF 0 > WorldSize - 1 THEN 0 ELSE (WorldSize - 1) - 0 + 1
    BY <2>1, FS_Interval
  <2>3. ~(0 > WorldSize - 1) /\ (WorldSize - 1) - 0 + 1 = WorldSize
    BY <2>1
  <2>4. QED
    BY <2>2, <2>3 DEF Ranks
<1>2. f \in Injection(G, Ranks)
  <2>1. f \in [G -> Ranks]
    BY CallTypes
  <2>2. \A c, d \in G : f[c] = f[d] => c = d
    OBVIOUS
  <2>3. QED
    BY <2>1, <2>2 DEF Injection, IsInjective
<1>3. f \in Surjection(G, Ranks)
  BY <1>1, <1>2, FS_Injection
<1>4. ASSUME NEW s \in Ranks PROVE \E c \in G : c.rank = s
  BY <1>3 DEF Surjection
<1>5. ASSUME NEW s \in Ranks PROVE Cardinality({c \in G : c.rank = s}) = 1
  <2>1. PICK c \in G : c.rank = s
    BY <1>4
  <2>2. {d \in G : d.rank = s} = {c}
    BY <2>1
  <2>3. QED
    BY <2>2, FS_Singleton
<1>6. QED
  BY <1>4, <1>5 DEF OneEach

(* The last call enters: the barrier is complete, with one call of each rank. *)
LEMMA EnterAndCompleteKeeps ==
  ASSUME IInv, EnterAndComplete
  PROVE  IInv'
<1> DEFINE t == Head(queue)
           a == Counted(actor, t.call)
<1>1. /\ TypeOK /\ Unique /\ Waits /\ Counts /\ Orderly /\ queue # <<>>
      /\ t.step \in StartSteps /\ ~actor.reset /\ EndTurn(TRUE, waiting)
      /\ a.counter = a.worldSize /\ actor' = Left(a)
      /\ group' = Inside \cup {t.call}
      /\ Reply(t.call, "idle", t.call.index)
      /\ got' = [got EXCEPT ![t.call.rank] =
                   [call |-> t.call, data |-> a.data, group |-> group']]
      /\ UNCHANGED <<control, budget>>
  BY DEF IInv, Orderly, EnterAndComplete, Return, Starts, StartSteps
<1>2. /\ t \in Turns /\ t \in ToSet(queue) /\ t \in Pending /\ t # ResetTurn /\ t.call \in Calls
      /\ \A x \in Pending : x.call = t.call => x = t
  BY <1>1, HeadTurn, TurnTypes DEF StartSteps
<1>3. /\ t.call.rank \in Ranks /\ t.call.index \in Nat /\ t.call # None
  BY <1>2, CallTypes
<1>4. /\ a \in Actors /\ a.counter = actor.counter + 1 /\ a.worldSize = WorldSize
      /\ ~a.reset /\ a.data = IF t.call.rank = 0 THEN t.call ELSE actor.data
  BY <1>1, <1>2, CountedActor
<1>5. /\ worker' \in [Ranks -> [status : {"idle", "calling", "dead"}, number : Nat,
                                life : Nat, index : Nat]]
      /\ \A r \in Ranks : /\ worker'[r].number = worker[r].number
                          /\ r # t.call.rank => worker'[r].status = worker[r].status
                          /\ worker[r].status = "dead" => worker'[r].status = "dead"
  BY <1>1, <1>2, <1>3, ReplyTypes
<1> HIDE DEF t, a
<1>6. /\ queue' \in Seq(Turns) /\ waiting' \in Seq(Turns) /\ Unique'
      /\ Pending' = Pending \ {t} /\ queue' = Tail(queue) \o waiting
      /\ ToSet(waiting)' = {} /\ ToSet(queue)' = (ToSet(queue) \ {t}) \cup ToSet(waiting)
  BY <1>1, EndAndLeave DEF t
<1>7. /\ actor' \in Actors /\ actor'.counter = actor.counter /\ ~actor'.reset
      /\ actor.counter = 0 => actor' = Idle
      /\ actor.counter # 0 => actor'.data = a.data
  <2>1. actor.counter \in Nat
    BY <1>1 DEF TypeOK
  <2>2. CASE actor.counter = 0
    <3>1. Idle \in Actors /\ Idle.counter = 0 /\ ~Idle.reset
      BY SyncAssumption DEF Idle, Actors
    <3>2. actor' = Idle
      BY <1>1, <1>4, <2>2 DEF Left
    <3>3. QED
      BY <2>2, <3>1, <3>2
  <2>3. CASE actor.counter # 0
    <3>1. a.counter # 1 /\ a.counter - 1 = actor.counter
      BY <1>4, <2>1, <2>3
    <3>2. actor' = [a EXCEPT !.counter = actor.counter]
      BY <1>1, <3>1 DEF Left
    <3>3. actor.counter \in 0..WorldSize
      BY <1>1 DEF TypeOK
    <3>4. QED
      BY <1>4, <2>3, <3>2, <3>3 DEF Actors
  <2>4. QED
    BY <2>2, <2>3
<1>8. group' \subseteq Calls
  BY <1>1, <1>2, InsideMembers, PendingTurns, TurnTypes DEF InsideSteps
<1>9. /\ GotShape' /\ \A r \in Ranks : r # t.call.rank => got'[r] = got[r]
      /\ got'[t.call.rank] = [call |-> t.call, data |-> a.data, group |-> group']
  BY <1>1, <1>3 DEF Orderly, GotShape
<1>10. TypeOK'
  <2>1. \A r \in Ranks : got'[r] # None => got'[r].call \in Calls
    BY <1>1, <1>2, <1>9 DEF TypeOK
  <2>2. QED
    BY <1>1, <1>5, <1>6, <1>7, <1>8, <2>1 DEF TypeOK, Actors
<1>11. Inside' = Inside /\ t.call \notin Inside
  <2>1. \A x \in Pending : x.step \in InsideSteps => x # t
    BY <1>1 DEF InsideSteps, StartSteps
  <2>2. \A c : c \in Inside <=> \E x \in Pending : x.step \in InsideSteps /\ x.call = c
    BY <1>1, InsideMembers
  <2>3. \A c : c \in Inside' <=> \E x \in Pending' : x.step \in InsideSteps /\ x.call = c
    BY <1>10, InsideMembers
  <2>4. QED
    BY <1>2, <1>6, <2>1, <2>2, <2>3
<1>12. Counts'
  BY <1>1, <1>7, <1>11 DEF Counts, CounterIsInside
<1>13. Orderly'
  <2>1. Waits'
    BY <1>6 DEF Waits
  <2>2. Numbered'
    <3>1. ASSUME NEW x \in Pending', x # ResetTurn
          PROVE  x.call.number <= worker'[x.call.rank].number /\ x.call.index # 0
      <4>1. x \in Pending /\ x \in Turns
        BY <1>1, <1>6, <3>1, PendingTurns
      <4>2. x.call.rank \in Ranks
        BY <3>1, <4>1, TurnTypes, CallTypes
      <4>3. QED
        BY <1>1, <1>5, <3>1, <4>1, <4>2 DEF Orderly, Numbered
    <3>2. QED
      BY <3>1 DEF Numbered
  <2>3. OneReset'
    <3>1. ResetTurn \notin ToSet(waiting)
      BY <1>1 DEF Waits, ResetTurn, Turn
    <3>2. QED
      BY <1>1, <1>6, <3>1 DEF Orderly, OneReset
  <2>4. QED
    BY <1>6, <1>9, <1>12, <2>1, <2>2, <2>3 DEF Orderly
<1>14. ASSUME Calm PROVE Calm'
  <2>1. Inside \cap group = {} /\ t.call \notin group
    BY <1>1, <1>14, GroupHasLeft DEF t
  <2>2. /\ IsFiniteSet(group') /\ Cardinality(group') = WorldSize
    <3>1. /\ IsFiniteSet(group') /\ Cardinality(group') = Cardinality(Inside) + 1
      BY <1>1, <1>11, FS_AddElement DEF Counts
    <3>2. actor.counter = Cardinality(Inside) /\ actor.counter + 1 = WorldSize
      BY <1>1, <1>4 DEF Counts, CounterIsInside
    <3>3. QED
      BY <3>1, <3>2
  <2>3. \A c \in group' : \E x \in Pending :
          x.call = c /\ x # ResetTurn /\ (x = t \/ x.step \in InsideSteps)
    BY <1>1, <1>2, InsideMembers DEF InsideSteps, ResetTurn, Turn
  <2>4. \A c, d \in group' : c.rank = d.rank => c = d
    BY <1>14, <2>3 DEF Calm, OneCallPerRank
  <2>5. OneEach(group') /\ \A s \in Ranks : \E c \in group' : c.rank = s
    BY <1>8, <2>2, <2>4, OneOfEachRank
  <2>6. ASSUME NEW x \in Pending', x # ResetTurn PROVE x.step \in InsideSteps
    <3>1. x \in Pending /\ x # t /\ x.call.rank \in Ranks
      BY <1>1, <1>6, <2>6, PendingTurns, TurnTypes, CallTypes
    <3>2. PICK c \in group' : c.rank = x.call.rank
      BY <2>5, <3>1
    <3>3. PICK z \in Pending : z.call = c /\ z # ResetTurn /\ (z = t \/ z.step \in InsideSteps)
      BY <2>3
    <3>4. z = x
      BY <1>14, <2>6, <3>1, <3>2, <3>3 DEF Calm, OneCallPerRank
    <3>5. QED
      BY <3>1, <3>3, <3>4
  <2>7. a.data \in group' /\ a.data.rank = 0
    <3>1. CASE t.call.rank = 0
      BY <1>1, <1>4, <3>1
    <3>2. CASE t.call.rank # 0
      <4>1. 0 \in Ranks
        BY SyncAssumption DEF Ranks
      <4>2. PICK c \in group' : c.rank = 0
        BY <2>5, <4>1
      <4>3. c \in Inside
        BY <1>1, <3>2, <4>2
      <4>4. actor.data = c
        BY <1>14, <2>1, <4>2, <4>3 DEF Calm, DataOfRankZero
      <4>5. QED
        BY <1>4, <3>2, <4>2, <4>4
    <3>3. QED
      BY <3>1, <3>2
  <2>8. ResetNotifies'
    BY <1>6, <1>14 DEF Calm, ResetNotifies
  <2>9. GroupNotified'
    <3>1. \A x \in Pending' : x.call \in group' => x \in ToSet(queue)' /\ x.step \in InsideSteps
      <4>1. ResetTurn.call \notin group'
        BY <1>8, SyncAssumption DEF ResetTurn, Turn
      <4>2. QED
        BY <1>6, <2>6, <4>1 DEF Pending
    <3>2. \A x \in ToSet(queue)' : x.step = "barrier" => x.call \in group'
      BY <1>1, <1>6, <1>10, <1>11, InsideMembers DEF InsideSteps, Pending
    <3>3. ASSUME NEW c \in group' PROVE c.number <= worker'[c.rank].number
      <4>1. c.rank \in Ranks
        BY <1>8, CallTypes
      <4>2. c.number <= worker[c.rank].number
        BY <1>1, <2>3 DEF Orderly, Numbered
      <4>3. QED
        BY <1>5, <4>1, <4>2
    <3>4. QED
      BY <1>1, <1>11, <3>1, <3>2, <3>3 DEF GroupNotified
  <2>10. OneCallPerRank'
    <3>1. \A x, z \in Pending' \ {ResetTurn} : x.call.rank = z.call.rank => x = z
      BY <1>6, <1>14 DEF Calm, OneCallPerRank
    <3>2. ASSUME NEW x \in Pending' \ {ResetTurn} PROVE worker'[x.call.rank].status # "idle"
      <4>1. x \in Pending \ {ResetTurn} /\ x # t /\ x.call.rank \in Ranks
        BY <1>1, <1>6, PendingTurns, TurnTypes, CallTypes
      <4>2. x.call.rank # t.call.rank
        BY <1>2, <1>14, <4>1 DEF Calm, OneCallPerRank
      <4>3. QED
        BY <1>5, <1>14, <4>1, <4>2 DEF Calm, OneCallPerRank
    <3>3. QED
      BY <3>1, <3>2 DEF OneCallPerRank
  <2>11. ResetReplaces'
    <3>1. control' = control /\ OfReplaced' = OfReplaced /\ control.rank \in Ranks
      BY <1>1 DEF OfReplaced, TypeOK
    <3>2. control.step = "resetting" =>
            Precede(queue', {x \in OfReplaced : x.step = "call"}, {ResetTurn})
      <4>1. queue' \in Seq(Turns) /\ ToSet(queue)' \cap {x \in OfReplaced : x.step = "call"} = {}
        BY <1>6, <2>6 DEF OfReplaced, Pending, InsideSteps
      <4>2. QED
        BY <4>1, PrecedeWithout
    <3>3. \A x \in Pending' \cap OfReplaced : x \in ToSet(queue)' /\ x.step \in InsideSteps
      BY <1>6, <2>6 DEF OfReplaced, Pending
    <3>4. \A x \in Pending' : x.step # "setup"
      BY <2>6 DEF InsideSteps, ResetTurn, Turn
    <3>5. QED
      BY <1>5, <1>7, <1>14, <3>1, <3>2, <3>3, <3>4 DEF Calm, ResetReplaces
  <2>12. GroupLeavesFirst'
    <3>1. queue' \in Seq(Turns) /\ ToSet(queue)' \cap Started = {}
      BY <1>6, <2>6 DEF Started, StartSteps, InsideSteps, Pending, ResetTurn, Turn
    <3>2. QED
      BY <3>1, PrecedeWithout DEF GroupLeavesFirst, Started
  <2>13. DataOfRankZero'
    <3>1. Inside' \subseteq group'
      BY <1>1, <1>11
    <3>2. Inside' # {} => actor.counter # 0
      <4>1. Cardinality(Inside) = 0 <=> Inside = {}
        BY <1>1, FS_EmptySet DEF Counts
      <4>2. QED
        BY <1>1, <1>11, <4>1 DEF Counts, CounterIsInside
    <3>3. QED
      BY <1>7, <2>5, <2>7, <3>1, <3>2 DEF DataOfRankZero, OneEach
  <2>14. Agreement'
    BY <1>1, <1>3, <1>9, <1>14, <2>5, <2>7 DEF Calm, Agreement, OneEach
  <2>15. QED
    BY <2>8, <2>9, <2>10, <2>11, <2>12, <2>13, <2>14 DEF Calm
<1>15. QED
  BY <1>1, <1>10, <1>13, <1>14 DEF IInv

(* A call leaves the barrier; the last one notifies those who wait for it. *)
LEMMA LeavingStep ==
  ASSUME IInv, queue # <<>>, Head(queue).step \in InsideSteps,
         actor' = Left(actor), EndTurn(actor.counter = 1, waiting),
         NEW status \in {"idle", "dead"}, NEW index \in Nat,
         Reply(Head(queue).call, status, index),
         UNCHANGED <<control, group, budget>>,
         GotShape', \A r \in Ranks : got'[r] # None => got'[r].call \in Calls,
         Calm => Agreement'
  PROVE  IInv'
<1> DEFINE t == Head(queue)
<1>1. TypeOK /\ Unique /\ Waits /\ Counts /\ Orderly
  BY DEF IInv, Orderly
<1>2. /\ t \in Turns /\ t \in ToSet(queue) /\ t \in Pending /\ t # ResetTurn /\ t.call \in Calls
      /\ \A x \in Pending : x.call = t.call => x = t
  BY <1>1, HeadTurn, TurnTypes DEF InsideSteps
<1>3. /\ worker' \in [Ranks -> [status : {"idle", "calling", "dead"}, number : Nat,
                                life : Nat, index : Nat]]
      /\ \A r \in Ranks : /\ worker'[r].number = worker[r].number
                          /\ r # t.call.rank => worker'[r].status = worker[r].status
                          /\ worker[r].status = "dead" => worker'[r].status = "dead"
  BY <1>1, <1>2, ReplyTypes
<1>4. t.step \in InsideSteps /\ t.call \in Inside
  BY <1>1, <1>2, InsideMembers
<1>5. /\ queue' \in Seq(Turns) /\ waiting' \in Seq(Turns) /\ Unique'
      /\ Pending' = Pending \ {t}
      /\ actor.counter = 1 =>
           /\ queue' = Tail(queue) \o waiting /\ ToSet(waiting)' = {}
           /\ ToSet(queue)' = (ToSet(queue) \ {t}) \cup ToSet(waiting)
      /\ actor.counter # 1 =>
           /\ queue' = Tail(queue) /\ waiting' = waiting
           /\ ToSet(queue)' = ToSet(queue) \ {t}
  BY <1>1, EndAndLeave
<1> HIDE DEF t
<1>6. /\ actor' \in Actors
      /\ actor.counter # 1 => actor'.data = actor.data /\ actor'.reset = actor.reset
      /\ ~actor.reset => ~actor'.reset
  BY <1>1, <1>4, LeftActor
<1>7. TypeOK'
  BY <1>1, <1>3, <1>5, <1>6 DEF TypeOK, Actors
<1>8. Inside' = Inside \ {t.call}
  <2>1. \A c : c \in Inside <=> \E x \in Pending : x.step \in InsideSteps /\ x.call = c
    BY <1>1, InsideMembers
  <2>2. \A c : c \in Inside' <=> \E x \in Pending' : x.step \in InsideSteps /\ x.call = c
    BY <1>7, InsideMembers
  <2>3. QED
    BY <1>2, <1>5, <2>1, <2>2
<1>9. Counts' /\ (actor.counter = 1 <=> Inside' = {})
  BY <1>1, <1>4, <1>8, LeaveCounts
<1>10. Orderly'
  <2>1. Waits'
    BY <1>1, <1>5 DEF Waits
  <2>2. ASSUME NEW x \in Pending', x # ResetTurn
        PROVE  x.call.number <= worker'[x.call.rank].number /\ x.call.index # 0
    <3>1. x \in Pending /\ x.call.rank \in Ranks
      BY <1>1, <1>5, <2>2, PendingTurns, TurnTypes, CallTypes
    <3>2. QED
      BY <1>1, <1>3, <2>2, <3>1 DEF Orderly, Numbered
  <2>3. OneReset'
    <3>1. ResetTurn \notin ToSet(waiting)
      BY <1>1 DEF Waits, ResetTurn, Turn
    <3>2. QED
      BY <1>1, <1>5, <3>1 DEF Orderly, OneReset
  <2>4. QED
    BY <1>5, <1>9, <2>1, <2>2, <2>3 DEF Orderly, Numbered
<1>11. ASSUME Calm PROVE Calm'
  <2>1. ResetNotifies'
    BY <1>5, <1>6, <1>11 DEF Calm, ResetNotifies
  <2>2. GroupNotified'
    <3>1. \A x \in Pending' : x.call \in group' => x \in ToSet(queue)' /\ x.step \in InsideSteps
      BY <1>5, <1>11 DEF Calm, GroupNotified
    <3>2. ASSUME NEW x \in ToSet(queue)', x.step = "barrier" PROVE actor'.reset \/ x.call \in group'
      <4>1. x.call \in Inside'
        BY <1>7, <3>2, InsideMembers DEF InsideSteps, Pending
      <4>2. actor.counter # 1
        BY <1>9, <4>1
      <4>3. QED
        BY <1>5, <1>6, <1>11, <3>2, <4>2 DEF Calm, GroupNotified
    <3>3. ASSUME NEW c \in group' PROVE c.number <= worker'[c.rank].number
      <4>1. c.rank \in Ranks
        BY <1>7, CallTypes DEF TypeOK
      <4>2. QED
        BY <1>3, <1>11, <4>1 DEF Calm, GroupNotified
    <3>4. Inside' \cap group' # {} => Inside' \subseteq group'
      BY <1>8, <1>11 DEF Calm, GroupNotified
    <3>5. QED
      BY <3>1, <3>2, <3>3, <3>4 DEF GroupNotified
  <2>3. OneCallPerRank'
    <3>1. \A x, z \in Pending' \ {ResetTurn} : x.call.rank = z.call.rank => x = z
      BY <1>5, <1>11 DEF Calm, OneCallPerRank
    <3>2. ASSUME NEW x \in Pending' \ {ResetTurn} PROVE worker'[x.call.rank].status # "idle"
      <4>1. x \in Pending \ {ResetTurn} /\ x # t /\ x.call.rank \in Ranks
        BY <1>1, <1>5, PendingTurns, TurnTypes, CallTypes
      <4>2. x.call.rank # t.call.rank
        BY <1>2, <1>11, <4>1 DEF Calm, OneCallPerRank
      <4>3. QED
        BY <1>3, <1>11, <4>1, <4>2 DEF Calm, OneCallPerRank
    <3>3. QED
      BY <3>1, <3>2 DEF OneCallPerRank
  <2>4. ResetReplaces'
    <3>1. control' = control /\ OfReplaced' = OfReplaced /\ control.rank \in Ranks
      BY <1>1 DEF OfReplaced, TypeOK
    <3>2. ASSUME control.step = "resetting"
          PROVE  Precede(queue', {x \in OfReplaced : x.step = "call"}, {ResetTurn})
      <4> DEFINE A == {x \in OfReplaced : x.step = "call"}
      <4>1. queue \in Seq(Turns) /\ waiting \in Seq(Turns) /\ Precede(queue, A, {ResetTurn})
        BY <1>1, <1>11, <3>2 DEF TypeOK, Calm, ResetReplaces
      <4>2. ToSet(waiting) \cap A = {}
        BY <1>1 DEF Waits
      <4> HIDE DEF A
      <4>3. Tail(queue) \in Seq(Turns) /\ Precede(Tail(queue), A, {ResetTurn})
        BY <1>1, <4>1, HeadTurn, PrecedeTail
      <4>4. Precede(Tail(queue) \o waiting, A, {ResetTurn})
        BY <4>1, <4>2, <4>3, PrecedeConcat
      <4>5. QED
        BY <1>5, <4>3, <4>4 DEF A
    <3>3. control.step = "replacing" =>
            \A x \in Pending' \cap OfReplaced : x \in ToSet(queue)' /\ x.step \in InsideSteps
      BY <1>5, <1>11 DEF Calm, ResetReplaces
    <3>4. control.step # "replacing" => ~actor'.reset /\ \A x \in Pending' : x.step # "setup"
      BY <1>5, <1>6, <1>11 DEF Calm, ResetReplaces
    <3>5. QED
      BY <1>3, <1>11, <3>1, <3>2, <3>3, <3>4 DEF Calm, ResetReplaces
  <2>5. GroupLeavesFirst'
    <3>1. queue \in Seq(Turns) /\ Precede(queue, Leaving, Started) /\ Leaving' = Leaving
      BY <1>1, <1>11 DEF TypeOK, Calm, GroupLeavesFirst, Leaving
    <3>2. CASE actor.counter # 1
      BY <1>5, <3>1, <3>2, PrecedeTail DEF GroupLeavesFirst, Started
    <3>3. CASE actor.counter = 1
      <4>1. ToSet(queue)' \cap Leaving' = {}
        BY <1>7, <1>9, <3>3, InsideMembers DEF Leaving, Pending
      <4>2. QED
        BY <1>5, <4>1, PrecedeWithout DEF GroupLeavesFirst, Started
    <3>4. QED
      BY <3>2, <3>3
  <2>6. DataOfRankZero'
    <3>1. CASE actor.counter = 1
      BY <1>9, <1>11, <3>1 DEF Calm, DataOfRankZero, OneEach
    <3>2. CASE actor.counter # 1
      <4>1. actor'.data = actor.data
        BY <1>6, <3>2
      <4>2. QED
        BY <1>8, <1>11, <4>1 DEF Calm, DataOfRankZero, GroupNotified, OneEach
    <3>3. QED
      BY <3>1, <3>2
  <2>7. QED
    BY <1>11, <2>1, <2>2, <2>3, <2>4, <2>5, <2>6 DEF Calm
<1>12. QED
  BY <1>1, <1>7, <1>10, <1>11 DEF IInv

(* A notified call returns the data of its group, or the barrier was reset. *)
LEMMA ResumeKeeps ==
  ASSUME IInv, Resume
  PROVE  IInv'
<1> DEFINE t == Head(queue)
<1>1. /\ TypeOK /\ Unique /\ Orderly /\ queue # <<>> /\ t.step = "barrier"
      /\ actor' = Left(actor) /\ EndTurn(actor.counter = 1, waiting)
      /\ UNCHANGED <<control, group, budget>>
  BY DEF IInv, Orderly, Resume
<1>2. /\ t \in Turns /\ t \in ToSet(queue) /\ t \in Pending /\ t # ResetTurn /\ t.call \in Calls
  BY <1>1, HeadTurn, TurnTypes
<1>3. t.call.index \in Nat /\ t.call.index - 1 \in Nat /\ t.call.rank \in Ranks /\ t.call # None
  <2>1. t.call.index # 0
    BY <1>1, <1>2 DEF Orderly, Numbered
  <2>2. QED
    BY <1>2, <2>1, CallTypes
<1>4. CASE Broken /\ Reply(t.call, "idle", t.call.index - 1) /\ UNCHANGED got
  <2>1. GotShape' /\ \A r \in Ranks : got'[r] # None => got'[r].call \in Calls
    BY <1>1, <1>4 DEF Orderly, GotShape, TypeOK
  <2>2. Calm => Agreement'
    BY <1>1, <1>4 DEF Calm, Agreement
  <2>3. QED
    BY <1>1, <1>3, <1>4, <2>1, <2>2, LeavingStep DEF InsideSteps
<1>5. CASE ~Broken /\ Return(t.call, actor.data, group)
  <2>1. /\ Reply(t.call, "idle", t.call.index)
        /\ got' = [got EXCEPT ![t.call.rank] =
                     [call |-> t.call, data |-> actor.data, group |-> group]]
    BY <1>5 DEF Return
  <2>2. /\ GotShape' /\ \A r \in Ranks : r # t.call.rank => got'[r] = got[r]
        /\ got'[t.call.rank] = [call |-> t.call, data |-> actor.data, group |-> group]
    BY <1>1, <1>3, <2>1 DEF Orderly, GotShape
  <2>3. ASSUME NEW r \in Ranks, got'[r] # None PROVE got'[r].call \in Calls
    <3> HIDE DEF t
    <3>1. CASE r = t.call.rank
      BY <1>2, <2>2, <3>1
    <3>2. CASE r # t.call.rank
      BY <1>1, <2>2, <2>3, <3>2 DEF TypeOK
    <3>3. QED
      BY <3>1, <3>2
  <2>4. ASSUME Calm PROVE Agreement'
    <3>1. t.call \in group
      BY <1>1, <1>2, <1>5, <2>4 DEF Calm, GroupNotified, Broken
    <3>2. t.call \in Inside
      BY <1>1, <1>2, InsideMembers DEF InsideSteps
    <3>3. actor.data \in group /\ actor.data.rank = 0 /\ OneEach(group)
      BY <2>4, <3>1, <3>2 DEF Calm, DataOfRankZero
    <3>4. QED
      BY <1>1, <1>3, <2>2, <2>4, <3>1, <3>3 DEF Calm, Agreement, OneEach
  <2>5. QED
    BY <1>1, <1>3, <2>1, <2>2, <2>3, <2>4, LeavingStep DEF InsideSteps
<1>6. QED
  BY <1>4, <1>5 DEF Resume

(* A call that timed out leaves like any other. *)
LEMMA RaiseTimeoutKeeps ==
  ASSUME IInv, RaiseTimeout
  PROVE  IInv'
<1> DEFINE t == Head(queue)
<1>1. /\ TypeOK /\ Unique /\ Orderly /\ queue # <<>> /\ t.step = "expired"
      /\ actor' = Left(actor) /\ EndTurn(actor.counter = 1, waiting)
      /\ Reply(t.call, "dead", t.call.index)
      /\ UNCHANGED <<control, group, got, budget>>
  BY DEF IInv, Orderly, RaiseTimeout
<1>2. t.call.index \in Nat
  BY <1>1, HeadTurn, TurnTypes, CallTypes
<1>3. GotShape' /\ \A r \in Ranks : got'[r] # None => got'[r].call \in Calls
  BY <1>1 DEF Orderly, GotShape, TypeOK
<1>4. Calm => Agreement'
  BY <1>1 DEF Calm, Agreement
<1>5. QED
  BY <1>1, <1>2, <1>3, <1>4, LeavingStep DEF InsideSteps


(* A call that waits again is still inside. *)
LEMMA WaitAgainKeeps ==
  ASSUME IInv, WaitAgain
  PROVE  IInv'
<1> DEFINE t == Head(queue)
           y == Turn("barrier", t.call)
<1>1. /\ TypeOK /\ Unique /\ Counts /\ Orderly /\ queue # <<>> /\ t.step = "rewait"
      /\ EndTurn(FALSE, Append(waiting, y))
      /\ UNCHANGED <<actor, worker, control, group, got, budget>>
  BY DEF IInv, Orderly, WaitAgain
<1>2. /\ t \in Turns /\ t \in ToSet(queue) /\ t \in Pending /\ t # ResetTurn /\ t.call \in Calls
      /\ \A x \in Pending : x.call = t.call => x = t
  BY <1>1, HeadTurn, TurnTypes
<1>3. /\ y \in Turns /\ y # ResetTurn /\ y.step = "barrier" /\ y.call = t.call
  BY <1>2, TurnOfCall DEF CallSteps
<1> HIDE DEF t, y
<1>4. /\ queue' \in Seq(Turns) /\ waiting' \in Seq(Turns) /\ Unique'
      /\ ToSet(queue)' = ToSet(queue) \ {t}
      /\ ToSet(waiting)' = ToSet(waiting) \cup {y} /\ Pending' = (Pending \ {t}) \cup {y}
  BY <1>1, <1>3, EndAndWait DEF t
<1>5. TypeOK'
  BY <1>1, <1>4 DEF TypeOK
<1>6. Inside' = Inside
  BY <1>1, <1>2, <1>3, <1>4, <1>5, SameInside DEF InsideSteps
<1>7. Orderly'
  <2>1. Waits'
    BY <1>1, <1>3, <1>4 DEF Orderly, Waits
  <2>2. Numbered'
    BY <1>1, <1>2, <1>3, <1>4 DEF Orderly, Numbered
  <2>3. OneReset' /\ GotShape'
    BY <1>1, <1>4 DEF Orderly, OneReset, GotShape
  <2>4. QED
    BY <1>1, <1>4, <1>6, <2>1, <2>2, <2>3, SameCounts DEF Orderly
<1>8. ~Calm
  BY <1>1, <1>2 DEF Calm, ResetNotifies
<1>9. QED
  BY <1>1, <1>5, <1>7, <1>8 DEF IInv

(***************************************************************************)
(* The reset is asked for after every call of the failed worker, so that   *)
(* none of them starts after it.                                           *)
(***************************************************************************)
LEMMA ResetKeeps ==
  ASSUME IInv, Reset
  PROVE  IInv'
<1> DEFINE t == Head(queue)
<1>1. /\ TypeOK /\ Unique /\ Waits /\ Counts /\ Orderly /\ queue # <<>> /\ t.step = "reset"
      /\ actor' = [actor EXCEPT !.reset = @ \/ SomeoneInside]
      /\ EndTurn(SomeoneInside, waiting)
      /\ control' = [control EXCEPT !.step = "replacing"]
      /\ UNCHANGED <<worker, group, got, budget>>
  BY DEF IInv, Orderly, Reset
<1>2. t \in Turns /\ t \in ToSet(queue) /\ t \in Pending /\ t = ResetTurn
  BY <1>1, HeadTurn, TurnTypes
<1>3. /\ actor' \in Actors /\ actor'.counter = actor.counter /\ actor'.data = actor.data
      /\ actor'.reset = (actor.reset \/ SomeoneInside)
      /\ ~SomeoneInside => actor' = actor
  <2>1. actor \in Actors /\ SomeoneInside \in BOOLEAN
    BY <1>1 DEF TypeOK, Actors, SomeoneInside
  <2>2. ~SomeoneInside => actor = Idle
    BY <1>1 DEF SomeoneInside, Counts, CounterIsInside
  <2>3. QED
    BY <1>1, <2>1, <2>2 DEF Actors, Idle
<1>4. /\ control' \in [step : {"watching", "resetting", "replacing"}, rank : Ranks]
      /\ control'.step = "replacing" /\ control'.rank = control.rank
  BY <1>1 DEF TypeOK
<1>5. /\ queue' \in Seq(Turns) /\ waiting' \in Seq(Turns) /\ Unique' /\ Pending' = Pending \ {t}
      /\ SomeoneInside =>
           /\ queue' = Tail(queue) \o waiting /\ ToSet(waiting)' = {}
           /\ ToSet(queue)' = (ToSet(queue) \ {t}) \cup ToSet(waiting)
      /\ ~SomeoneInside =>
           /\ queue' = Tail(queue) /\ waiting' = waiting
           /\ ToSet(queue)' = ToSet(queue) \ {t}
  <2>1. SomeoneInside \in BOOLEAN
    BY DEF SomeoneInside
  <2>2. QED
    BY <1>1, <2>1, EndAndLeave
<1> HIDE DEF t
<1>6. TypeOK'
  BY <1>1, <1>3, <1>4, <1>5 DEF TypeOK, Actors
<1>7. Inside' = Inside
  <2>1. \A x \in Pending' : x \in Pending
    BY <1>5
  <2>2. \A x \in Pending : x.step \in InsideSteps => x \in Pending'
    BY <1>1, <1>5 DEF InsideSteps
  <2>3. ASSUME NEW c PROVE c \in Inside' <=> c \in Inside
    BY <1>1, <1>6, <2>1, <2>2, InsideMembers
  <2>4. QED
    BY <2>3
<1>8. Counts'
  BY <1>1, <1>3, <1>7 DEF Counts, CounterIsInside, SomeoneInside
<1>9. Orderly'
  <2>1. ResetTurn \notin ToSet(waiting)
    BY <1>1 DEF Waits, ResetTurn, Turn
  <2>2. Waits' /\ OneReset'
    BY <1>1, <1>2, <1>5, <2>1 DEF Waits, OneReset
  <2>3. Numbered' /\ GotShape'
    BY <1>1, <1>5 DEF Orderly, Numbered, GotShape
  <2>4. QED
    BY <1>5, <1>8, <2>2, <2>3 DEF Orderly
<1>10. ASSUME Calm PROVE Calm'
  <2>1. control.step = "resetting" /\ ~actor.reset /\ \A x \in Pending : x.step # "setup"
    BY <1>1, <1>2, <1>10 DEF Orderly, OneReset, Calm, ResetReplaces
  <2>2. ToSet(waiting)' = {}
    <3>1. ASSUME ~SomeoneInside, NEW x \in ToSet(waiting) PROVE FALSE
      <4>1. x \in Pending /\ x.step = "barrier"
        BY <1>1, <2>1 DEF Waits, Pending
      <4>2. x.call \in Inside
        BY <1>1, <4>1, InsideMembers DEF InsideSteps
      <4>3. Cardinality(Inside) # 0
        BY <1>1, <4>2, FS_EmptySet DEF Counts
      <4>4. QED
        BY <1>1, <3>1, <4>3 DEF Counts, CounterIsInside, SomeoneInside
    <3>2. QED
      BY <1>5, <3>1
  <2>3. ResetNotifies'
    BY <1>5, <1>10, <2>2 DEF Calm, ResetNotifies
  <2>4. Pending' = ToSet(queue)'
    BY <2>2 DEF Pending
  <2>5. GroupNotified'
    <3>1. \A x \in ToSet(queue)' : x.step = "barrier" => actor'.reset \/ x.call \in group
      BY <1>3, <1>5, <1>10 DEF Calm, GroupNotified
    <3>2. QED
      BY <1>1, <1>5, <1>7, <1>10, <2>4, <3>1 DEF Calm, GroupNotified
  <2>6. OneCallPerRank'
    BY <1>1, <1>5, <1>10 DEF Calm, OneCallPerRank
  <2>7. ResetReplaces'
    <3>1. ToSet(queue) \cap {x \in OfReplaced : x.step = "call"} = {}
      <4>1. queue \in Seq(Turns) /\ Head(queue) \in {ResetTurn}
        BY <1>1, <1>2 DEF TypeOK, t
      <4>2. Precede(queue, {x \in OfReplaced : x.step = "call"}, {ResetTurn})
        BY <1>10, <2>1 DEF Calm, ResetReplaces
      <4>3. QED
        BY <1>1, <4>1, <4>2, PrecedeHead
    <3>2. OfReplaced' = OfReplaced
      BY <1>4 DEF OfReplaced
    <3>3. ASSUME NEW x \in Pending', x \in OfReplaced PROVE x.step \in InsideSteps
      <4>1. x \in Pending /\ x.step # "setup" /\ x.step # "call" /\ x # ResetTurn
        BY <1>1, <1>5, <2>1, <3>1, <3>3 DEF Pending, Waits, OfReplaced
      <4>2. x.step \in CallSteps
        BY <3>3, TurnTypes DEF OfReplaced
      <4>3. QED
        BY <4>1, <4>2 DEF CallSteps, InsideSteps
    <3>4. worker'[control'.rank].status = "dead"
      BY <1>1, <1>4, <1>10, <2>1 DEF Calm, ResetReplaces
    <3>5. QED
      BY <1>4, <2>4, <3>2, <3>3, <3>4 DEF ResetReplaces
  <2>8. GroupLeavesFirst'
    <3>1. /\ queue \in Seq(Turns) /\ waiting \in Seq(Turns)
          /\ Precede(queue, Leaving, Started) /\ Leaving' = Leaving
      BY <1>1, <1>10 DEF TypeOK, Calm, GroupLeavesFirst, Leaving
    <3>2. ToSet(waiting) \cap Leaving = {}
      BY <1>1, <1>10, PendingTurns DEF Calm, GroupNotified, Leaving
    <3>3. Tail(queue) \in Seq(Turns) /\ Precede(Tail(queue), Leaving, Started)
      BY <1>1, <3>1, HeadTurn, PrecedeTail
    <3>4. Precede(Tail(queue) \o waiting, Leaving, Started)
      BY <3>1, <3>2, <3>3, PrecedeConcat
    <3>5. QED
      BY <1>5, <3>1, <3>3, <3>4 DEF GroupLeavesFirst, Started
  <2>9. DataOfRankZero' /\ Agreement'
    BY <1>1, <1>3, <1>7, <1>10 DEF Calm, DataOfRankZero, OneEach, Agreement
  <2>10. QED
    BY <2>3, <2>5, <2>6, <2>7, <2>8, <2>9 DEF Calm
<1>11. QED
  BY <1>1, <1>6, <1>9, <1>10 DEF IInv

-----------------------------------------------------------------------------
(* The timers. *)

(* A call moves from waiting, or from its place in the queue, to its next step. *)
LEMMA TimerFires ==
  ASSUME TypeOK, Unique, NEW step \in {"rewait", "expired"}, Fires(step)
  PROVE  \E x \in Pending, y \in Turns :
           /\ x.step = "barrier" /\ y.step = step /\ y.call = x.call
           /\ queue' \in Seq(Turns) /\ waiting' \in Seq(Turns) /\ Unique'
           /\ ToSet(waiting)' = ToSet(waiting) \ {x}
           /\ ToSet(queue)' = (ToSet(queue) \ {x}) \cup {y}
           /\ Pending' = (Pending \ {x}) \cup {y}
           /\ \A A, B : /\ Precede(queue, A, B) /\ y \notin B
                        /\ y \in A => x \in A /\ x \in ToSet(queue)
                        => Precede(queue', A, B)
<1>1. /\ queue \in Seq(Turns) /\ waiting \in Seq(Turns)
      /\ DOMAIN queue = 1..Len(queue) /\ DOMAIN waiting = 1..Len(waiting)
      /\ UniqueCalls(queue) /\ UniqueCalls(waiting)
  BY LenProperties DEF TypeOK, Unique
<1>2. CASE \E k \in DOMAIN waiting :
             /\ waiting[k].step = "barrier"
             /\ waiting' = RemoveAt(waiting, k)
             /\ queue' = Append(queue, Turn(step, waiting[k].call))
  <2>1. PICK k \in 1..Len(waiting) :
               /\ waiting[k].step = "barrier"
               /\ waiting' = RemoveAt(waiting, k)
               /\ queue' = Append(queue, Turn(step, waiting[k].call))
    BY <1>1, <1>2
  <2>2. PICK x : x = waiting[k]
    OBVIOUS
  <2>3. PICK y : y = Turn(step, x.call)
    OBVIOUS
  <2>4. x \in ToSet(waiting) /\ x \in Pending /\ x \in Turns /\ x.step = "barrier" /\ x.call \in Calls
    <3>1. x \in ToSet(waiting) /\ x.step = "barrier"
      BY <1>1, <2>1, <2>2 DEF ToSet
    <3>2. QED
      BY <3>1, PendingTurns, TurnTypes
  <2>5. y \in Turns /\ y.step = step /\ y.call = x.call
    BY <2>3, <2>4, TurnOfCall DEF CallSteps
  <2>6. /\ waiting' \in Seq(Turns) /\ UniqueCalls(waiting)'
        /\ ToSet(waiting)' = ToSet(waiting) \ {x}
    BY <1>1, <2>1, <2>2, RemoveAtSeq
  <2>7. \A z \in ToSet(queue) : z.call # y.call
    BY <2>4, <2>5 DEF Unique
  <2>8. /\ queue' = Append(queue, y) /\ queue' \in Seq(Turns) /\ UniqueCalls(queue)'
        /\ ToSet(queue)' = ToSet(queue) \cup {y}
    BY <1>1, <2>1, <2>2, <2>3, <2>5, <2>7, AppendSeq
  <2>9. x \notin ToSet(queue)
    BY <2>4, PendingTurns
  <2>10. \A u, z \in ToSet(waiting) : u.call = z.call => u = z
    BY PendingTurns
  <2>11. Unique'
    BY <2>4, <2>5, <2>6, <2>8, <2>10 DEF Unique
  <2>12. Pending' = (Pending \ {x}) \cup {y}
    BY <2>4, <2>6, <2>8, <2>9 DEF Pending
  <2>13. ASSUME NEW A, NEW B, Precede(queue, A, B), y \notin B,
                y \in A => x \in A /\ x \in ToSet(queue)
         PROVE  Precede(queue', A, B)
    BY <1>1, <2>5, <2>8, <2>9, <2>13, PrecedeAppend
  <2>14. ToSet(queue)' = (ToSet(queue) \ {x}) \cup {y}
    BY <2>8, <2>9
  <2>15. QED
    BY <2>4, <2>5, <2>6, <2>8, <2>11, <2>12, <2>13, <2>14
<1>3. CASE \E k \in DOMAIN queue :
             /\ queue[k].step = "barrier"
             /\ queue' = ReplaceAt(queue, k, Turn(step, queue[k].call))
             /\ UNCHANGED waiting
  <2>1. PICK k \in 1..Len(queue) :
               /\ queue[k].step = "barrier"
               /\ queue' = ReplaceAt(queue, k, Turn(step, queue[k].call))
               /\ UNCHANGED waiting
    BY <1>1, <1>3
  <2>2. PICK x : x = queue[k]
    OBVIOUS
  <2>3. PICK y : y = Turn(step, x.call)
    OBVIOUS
  <2>4. x \in ToSet(queue) /\ x \in Pending /\ x \in Turns /\ x.step = "barrier" /\ x.call \in Calls
    <3>1. x \in ToSet(queue) /\ x.step = "barrier"
      BY <1>1, <2>1, <2>2 DEF ToSet
    <3>2. QED
      BY <3>1, PendingTurns, TurnTypes
  <2>5. y \in Turns /\ y.step = step /\ y.call = x.call
    BY <2>3, <2>4, TurnOfCall DEF CallSteps
  <2>6. /\ queue' \in Seq(Turns) /\ UniqueCalls(queue)'
        /\ ToSet(queue)' = (ToSet(queue) \ {x}) \cup {y}
        /\ \A A, B : Precede(queue, A, B) /\ (y \in A => x \in A) /\ (y \in B => x \in B)
             => Precede(queue', A, B)
    <3>1. queue' = ReplaceAt(queue, k, y) /\ y.call = queue[k].call
      BY <2>1, <2>2, <2>3, <2>5
    <3>2. QED
      BY <1>1, <2>2, <2>5, <3>1, ReplaceAtSeq
  <2>7. x \notin ToSet(waiting)
    BY <2>4, PendingTurns
  <2>8. Unique'
    BY <1>1, <2>1, <2>4, <2>5, <2>6 DEF Unique
  <2>9. Pending' = (Pending \ {x}) \cup {y}
    BY <2>1, <2>6, <2>7 DEF Pending
  <2>10. waiting' \in Seq(Turns) /\ ToSet(waiting)' = ToSet(waiting) \ {x}
    BY <1>1, <2>1, <2>7
  <2>11. QED
    BY <2>4, <2>5, <2>6, <2>8, <2>9, <2>10
<1>4. QED
  BY <1>2, <1>3 DEF Fires

(* What every timer keeps. *)
LEMMA TimerKeeps ==
  ASSUME IInv, NEW step \in {"rewait", "expired"}, Fires(step),
         UNCHANGED <<actor, worker, control, group, got>>,
         budget' \in [deaths : Nat, warnings : Nat, expiries : Nat]
  PROVE  TypeOK' /\ Orderly' /\ Inside' = Inside
<1>1. TypeOK /\ Unique /\ Waits /\ Counts /\ Orderly
  BY DEF IInv, Orderly
<1>2. PICK x \in Pending, y \in Turns :
             /\ x.step = "barrier" /\ y.step = step /\ y.call = x.call
             /\ queue' \in Seq(Turns) /\ waiting' \in Seq(Turns) /\ Unique'
             /\ ToSet(waiting)' = ToSet(waiting) \ {x}
             /\ ToSet(queue)' = (ToSet(queue) \ {x}) \cup {y}
             /\ Pending' = (Pending \ {x}) \cup {y}
  BY <1>1, TimerFires
<1>3. x \in Turns /\ x # ResetTurn /\ y # ResetTurn
  BY <1>1, <1>2, PendingTurns, TurnTypes
<1>4. TypeOK'
  BY <1>1, <1>2 DEF TypeOK
<1>5. Inside' = Inside
  <2>1. x.step \in InsideSteps /\ y.step \in InsideSteps
    BY <1>2 DEF InsideSteps
  <2>2. QED
    BY <1>1, <1>2, <1>4, <2>1, SameInside
<1>6. Waits'
  BY <1>1, <1>2 DEF Waits
<1>7. Numbered'
  BY <1>1, <1>2, <1>3 DEF Orderly, Numbered
<1>8. OneReset' /\ GotShape'
  BY <1>1, <1>2, <1>3 DEF Orderly, OneReset, GotShape
<1>9. QED
  BY <1>1, <1>2, <1>4, <1>5, <1>6, <1>7, <1>8, SameCounts DEF Orderly

(* Once a warning has come late, nothing is claimed about the order. *)
LEMMA WarningFiresKeeps ==
  ASSUME IInv, WarningFires
  PROVE  IInv'
<1>1. /\ Fires("rewait") /\ UNCHANGED <<actor, worker, control, group, got>>
      /\ budget' = [budget EXCEPT !.warnings = @ + 1]
  BY DEF WarningFires, Spend
<1>2. budget' \in [deaths : Nat, warnings : Nat, expiries : Nat] /\ budget'.warnings # 0
  <2>1. budget \in [deaths : Nat, warnings : Nat, expiries : Nat]
    BY DEF IInv, TypeOK
  <2>2. budget.warnings + 1 \in Nat /\ budget.warnings + 1 # 0
    BY <2>1
  <2>3. QED
    BY <1>1, <2>1, <2>2
<1>3. QED
  BY <1>1, <1>2, TimerKeeps DEF IInv

(* A call that exceeds its time stays inside until its turn. *)
LEMMA TimeoutFiresKeeps ==
  ASSUME IInv, TimeoutFires
  PROVE  IInv'
<1>1. /\ Fires("expired") /\ UNCHANGED <<actor, worker, control, group, got>>
      /\ budget' = [budget EXCEPT !.expiries = @ + 1]
  BY DEF TimeoutFires, Spend
<1>2. /\ budget' \in [deaths : Nat, warnings : Nat, expiries : Nat]
      /\ budget'.warnings = budget.warnings
  <2>1. budget \in [deaths : Nat, warnings : Nat, expiries : Nat]
    BY DEF IInv, TypeOK
  <2>2. QED
    BY <1>1, <2>1
<1>3. TypeOK /\ Unique /\ Waits /\ Orderly
  BY DEF IInv, Orderly
<1>4. TypeOK' /\ Orderly' /\ Inside' = Inside
  BY <1>1, <1>2, TimerKeeps
<1>5. PICK x \in Pending, y \in Turns :
             /\ x.step = "barrier" /\ y.step = "expired" /\ y.call = x.call
             /\ queue' \in Seq(Turns)
             /\ ToSet(waiting)' = ToSet(waiting) \ {x}
             /\ ToSet(queue)' = (ToSet(queue) \ {x}) \cup {y}
             /\ Pending' = (Pending \ {x}) \cup {y}
             /\ \A A, B : /\ Precede(queue, A, B) /\ y \notin B
                          /\ y \in A => x \in A /\ x \in ToSet(queue)
                          => Precede(queue', A, B)
  BY <1>1, <1>3, TimerFires
<1>6. x \in Turns /\ x # ResetTurn /\ y # ResetTurn
  BY <1>3, <1>5, PendingTurns, TurnTypes
<1>7. ASSUME Calm PROVE Calm'
  <2>1. ResetNotifies'
    BY <1>1, <1>5, <1>7 DEF Calm, ResetNotifies
  <2>2. GroupNotified'
    <3>1. \A z \in Pending' : z.call \in group' => z \in ToSet(queue)' /\ z.step \in InsideSteps
      BY <1>1, <1>5, <1>7 DEF Calm, GroupNotified, InsideSteps
    <3>2. \A z \in ToSet(queue)' : z.step = "barrier" => actor'.reset \/ z.call \in group'
      BY <1>1, <1>5, <1>7 DEF Calm, GroupNotified
    <3>3. QED
      BY <1>1, <1>4, <1>7, <3>1, <3>2 DEF Calm, GroupNotified
  <2>3. OneCallPerRank'
    BY <1>1, <1>5, <1>6, <1>7 DEF Calm, OneCallPerRank
  <2>4. ResetReplaces'
    <3>1. control' = control /\ OfReplaced' = OfReplaced
      BY <1>1 DEF OfReplaced
    <3>2. control.step = "resetting" =>
            Precede(queue', {z \in OfReplaced : z.step = "call"}, {ResetTurn})
      <4>1. y \notin {z \in OfReplaced : z.step = "call"} /\ y \notin {ResetTurn}
        BY <1>5, <1>6
      <4>2. QED
        BY <1>5, <1>7, <4>1 DEF Calm, ResetReplaces
    <3>3. control.step = "replacing" =>
            \A z \in Pending' \cap OfReplaced : z \in ToSet(queue)' /\ z.step \in InsideSteps
      BY <1>5, <1>7 DEF Calm, ResetReplaces, InsideSteps
    <3>4. control.step # "replacing" => ~actor'.reset /\ \A z \in Pending' : z.step # "setup"
      BY <1>1, <1>5, <1>7 DEF Calm, ResetReplaces
    <3>5. QED
      BY <1>1, <1>7, <3>1, <3>2, <3>3, <3>4 DEF Calm, ResetReplaces
  <2>5. GroupLeavesFirst'
    <3>1. Precede(queue, Leaving, Started) /\ Leaving' = Leaving
      BY <1>1, <1>7 DEF Calm, GroupLeavesFirst, Leaving
    <3>2. y \notin Started
      BY <1>5 DEF Started, StartSteps
    <3>3. y \in Leaving => x \in Leaving /\ x \in ToSet(queue)
      BY <1>5, <1>6, <1>7 DEF Leaving, Calm, GroupNotified, InsideSteps
    <3>4. QED
      BY <1>5, <3>1, <3>2, <3>3 DEF GroupLeavesFirst, Started
  <2>6. DataOfRankZero' /\ Agreement'
    BY <1>1, <1>2, <1>4, <1>7 DEF Calm, DataOfRankZero, OneEach, Agreement
  <2>7. QED
    BY <2>1, <2>2, <2>3, <2>4, <2>5, <2>6 DEF Calm
<1>8. QED
  BY <1>2, <1>4, <1>7 DEF IInv

-----------------------------------------------------------------------------
(* The workers and the controller. *)

Workers == [Ranks -> [status : {"idle", "calling", "dead"}, number : Nat,
                      life : Nat, index : Nat]]

(* A call that is made is new, and its rank had no other. *)
LEMMA ReportKeeps ==
  ASSUME IInv, NEW r \in Ranks, Report(r)
  PROVE  IInv'
<1> DEFINE c == [rank |-> r, number |-> worker[r].number + 1, life |-> worker[r].life,
                 index |-> worker[r].index + 1]
           y == Turn("call", c)
<1>1. /\ TypeOK /\ Unique /\ Waits /\ Counts /\ Orderly /\ worker[r].status = "idle"
      /\ UNCHANGED <<actor, waiting, control, group, got, budget>>
  BY DEF IInv, Orderly, Report
<1>2. /\ worker \in Workers /\ worker' \in Workers
      /\ \A s \in Ranks : s # r => worker'[s] = worker[s]
      /\ worker'[r].status = "calling" /\ worker'[r].number = worker[r].number + 1
      /\ worker'[r].index = worker[r].index + 1 /\ worker'[r].life = worker[r].life
  <2>1. worker \in Workers
    BY <1>1 DEF TypeOK, Workers
  <2>2. worker' = [worker EXCEPT ![r] = [worker[r] EXCEPT !.status = "calling",
                     !.number = worker[r].number + 1, !.index = worker[r].index + 1]]
    BY <2>1 DEF Report, Workers
  <2>3. worker[r].number + 1 \in Nat /\ worker[r].index + 1 \in Nat
    BY <2>1 DEF Workers
  <2>4. QED
    BY <2>1, <2>2, <2>3 DEF Workers
<1>3. c \in Calls /\ queue' = Append(queue, y)
  <2>1. worker[r].number + 1 \in Nat /\ worker[r].index + 1 \in Nat /\ worker[r].life \in Nat
    BY <1>2 DEF Workers
  <2>2. c \in Calls
    BY <2>1 DEF Calls
  <2>3. Call(r)' = c
    BY <1>2 DEF Call
  <2>4. QED
    BY <2>2, <2>3 DEF Report
<1>4. c.rank = r /\ c.number = worker'[r].number /\ c.index # 0
  <2>1. worker[r].index \in Nat
    BY <1>2 DEF Workers
  <2>2. QED
    BY <1>2, <2>1
<1>5. y \in Turns /\ y # ResetTurn /\ y.step = "call" /\ y.call = c
  BY <1>3, TurnOfCall DEF CallSteps
<1> HIDE DEF c, y
<1>6. \A s \in Ranks : \A n \in Nat : n <= worker[s].number => n <= worker'[s].number
  BY <1>2 DEF Workers
<1>7. ASSUME NEW d \in Calls, d.number <= worker[d.rank].number PROVE d # c
  <2>1. worker[r].number \in Nat /\ c.number = worker[r].number + 1
    BY <1>2, <1>4 DEF Workers
  <2>2. ~(c.number <= worker[r].number)
    BY <2>1
  <2>3. QED
    BY <1>4, <1>7, <2>2
<1>8. \A x \in Pending : x.call # c
  <2>1. \A x \in Pending : x # ResetTurn =>
          x.call \in Calls /\ x.call.number <= worker[x.call.rank].number
    BY <1>1, PendingTurns, TurnTypes DEF Orderly, Numbered
  <2>2. ResetTurn.call # c
    BY <1>3, SyncAssumption DEF ResetTurn, Turn
  <2>3. QED
    BY <1>7, <2>1, <2>2
<1>9. /\ queue' \in Seq(Turns) /\ UniqueCalls(queue)' /\ ToSet(queue)' = ToSet(queue) \cup {y}
  <2>1. queue \in Seq(Turns) /\ UniqueCalls(queue)
    BY <1>1 DEF TypeOK, Unique
  <2>2. \A x \in ToSet(queue) : x.call # y.call
    BY <1>5, <1>8 DEF Pending
  <2>3. QED
    BY <1>3, <1>5, <2>1, <2>2, AppendSeq
<1>10. Pending' = Pending \cup {y}
  BY <1>1, <1>9 DEF Pending
<1>11. TypeOK'
  BY <1>1, <1>2, <1>9 DEF TypeOK, Workers
<1>12. Inside' = Inside
  <2>1. y.step \notin InsideSteps
    BY <1>5 DEF InsideSteps
  <2>2. ASSUME NEW d PROVE d \in Inside' <=> d \in Inside
    BY <1>1, <1>10, <1>11, <2>1, InsideMembers
  <2>3. QED
    BY <2>2
<1>13. Orderly'
  <2>1. Unique'
    BY <1>1, <1>5, <1>8, <1>9 DEF Unique, Pending
  <2>2. ASSUME NEW x \in Pending', x # ResetTurn
        PROVE  x.call.number <= worker'[x.call.rank].number /\ x.call.index # 0
    <3>1. CASE x = y
      <4>1. worker'[r].number \in Nat
        BY <1>2 DEF Workers
      <4>2. QED
        BY <1>4, <1>5, <3>1, <4>1
    <3>2. CASE x # y
      <4>1. x \in Pending /\ x.call.rank \in Ranks /\ x.call.number \in Nat
        BY <1>1, <1>10, <2>2, <3>2, PendingTurns, TurnTypes, CallTypes
      <4>2. QED
        BY <1>1, <1>6, <2>2, <4>1 DEF Orderly, Numbered
    <3>3. QED
      BY <3>1, <3>2
  <2>3. OneReset' /\ GotShape' /\ Waits'
    BY <1>1, <1>5, <1>9 DEF Orderly, OneReset, GotShape, Waits
  <2>4. QED
    BY <1>1, <1>12, <2>1, <2>2, <2>3, SameCounts DEF Orderly, Numbered
<1>14. ASSUME Calm PROVE Calm'
  <2>1. ResetNotifies'
    BY <1>1, <1>5, <1>10, <1>14 DEF Calm, ResetNotifies
  <2>2. GroupNotified'
    <3>1. \A d \in group : d \in Calls /\ d.rank \in Ranks /\ d.number \in Nat
      BY <1>1, CallTypes DEF TypeOK
    <3>2. c \notin group
      BY <1>7, <1>14, <3>1 DEF Calm, GroupNotified
    <3>3. \A d \in group : d.number <= worker'[d.rank].number
      BY <1>6, <1>14, <3>1 DEF Calm, GroupNotified
    <3>4. QED
      BY <1>1, <1>5, <1>9, <1>10, <1>12, <1>14, <3>2, <3>3 DEF Calm, GroupNotified
  <2>3. OneCallPerRank'
    <3>1. \A x \in Pending \ {ResetTurn} : x.call.rank # r /\ x.call.rank \in Ranks
      BY <1>1, <1>14, PendingTurns, TurnTypes, CallTypes DEF Calm, OneCallPerRank
    <3>2. QED
      BY <1>2, <1>4, <1>5, <1>10, <1>14, <3>1 DEF Calm, OneCallPerRank
  <2>4. ResetReplaces'
    <3>1. control' = control /\ OfReplaced' = OfReplaced /\ control.rank \in Ranks
      BY <1>1 DEF OfReplaced, TypeOK
    <3>2. control.step # "watching" => control.rank # r /\ worker'[control.rank].status = "dead"
      BY <1>1, <1>2, <1>14, <3>1 DEF Calm, ResetReplaces
    <3>3. control.step # "watching" => y \notin OfReplaced
      BY <1>4, <1>5, <3>2 DEF OfReplaced
    <3>4. control.step = "resetting" =>
            Precede(queue', {x \in OfReplaced : x.step = "call"}, {ResetTurn})
      <4>1. queue \in Seq(Turns)
        BY <1>1 DEF TypeOK
      <4>2. QED
        BY <1>3, <1>5, <1>14, <3>3, <4>1, PrecedeAppend DEF Calm, ResetReplaces
    <3>5. control.step = "replacing" =>
            \A x \in Pending' \cap OfReplaced : x \in ToSet(queue)' /\ x.step \in InsideSteps
      BY <1>9, <1>10, <1>14, <3>3 DEF Calm, ResetReplaces
    <3>6. control.step # "replacing" => ~actor'.reset /\ \A x \in Pending' : x.step # "setup"
      BY <1>1, <1>5, <1>10, <1>14 DEF Calm, ResetReplaces
    <3>7. QED
      BY <3>1, <3>2, <3>4, <3>5, <3>6 DEF ResetReplaces
  <2>5. GroupLeavesFirst'
    <3>1. queue \in Seq(Turns) /\ Precede(queue, Leaving, Started) /\ Leaving' = Leaving
      BY <1>1, <1>14 DEF TypeOK, Calm, GroupLeavesFirst, Leaving
    <3>2. y \notin Leaving
      BY <1>5 DEF Leaving, InsideSteps
    <3>3. QED
      BY <1>3, <1>5, <3>1, <3>2, PrecedeAppend DEF GroupLeavesFirst, Started
  <2>6. DataOfRankZero' /\ Agreement'
    BY <1>1, <1>12, <1>14 DEF Calm, DataOfRankZero, OneEach, Agreement
  <2>7. QED
    BY <2>1, <2>2, <2>3, <2>4, <2>5, <2>6 DEF Calm
<1>15. QED
  BY <1>1, <1>11, <1>13, <1>14 DEF IInv

(* A worker's failure does not touch the actor. *)
LEMMA DieKeeps ==
  ASSUME IInv, NEW r \in Ranks, Die(r)
  PROVE  IInv'
<1>1. /\ TypeOK /\ Unique /\ Orderly
      /\ UNCHANGED <<actor, queue, waiting, control, group, got>>
  BY DEF IInv, Orderly, Die
<1>2. /\ worker' \in Workers /\ worker'[r].status = "dead"
      /\ \A s \in Ranks : /\ worker'[s].number = worker[s].number
                          /\ s # r => worker'[s].status = worker[s].status
  <2>1. worker \in Workers
    BY <1>1 DEF TypeOK, Workers
  <2>2. worker' = [worker EXCEPT ![r] = [worker[r] EXCEPT !.status = "dead"]]
    BY DEF Die
  <2>3. QED
    BY <2>1, <2>2 DEF Workers
<1>3. /\ budget' \in [deaths : Nat, warnings : Nat, expiries : Nat]
      /\ budget'.warnings = budget.warnings
  <2>1. budget \in [deaths : Nat, warnings : Nat, expiries : Nat]
    BY <1>1 DEF TypeOK
  <2>2. budget' = [budget EXCEPT !.deaths = @ + 1]
    BY DEF Die, Spend
  <2>3. QED
    BY <2>1, <2>2
<1>4. Pending' = Pending /\ Inside' = Inside /\ ToSet(queue)' = ToSet(queue)
      /\ ToSet(waiting)' = ToSet(waiting)
  BY <1>1 DEF Pending, Inside
<1>5. TypeOK'
  BY <1>1, <1>2, <1>3 DEF TypeOK, Workers
<1>6. \A x \in Pending \ {ResetTurn} : x.call.rank \in Ranks
  BY <1>1, PendingTurns, TurnTypes, CallTypes
<1>7. Orderly'
  <2>1. Unique' /\ Waits' /\ OneReset' /\ GotShape' /\ Counts'
    BY <1>1, <1>4, SameCounts DEF Orderly, Unique, Waits, OneReset, GotShape
  <2>2. Numbered'
    BY <1>1, <1>2, <1>4, <1>6 DEF Orderly, Numbered
  <2>3. QED
    BY <2>1, <2>2 DEF Orderly
<1>8. ASSUME Calm PROVE Calm'
  <2>1. ResetNotifies'
    BY <1>1, <1>4, <1>8 DEF Calm, ResetNotifies
  <2>2. GroupNotified'
    <3>1. \A d \in group : d.rank \in Ranks
      BY <1>1, CallTypes DEF TypeOK
    <3>2. QED
      BY <1>1, <1>2, <1>4, <1>8, <3>1 DEF Calm, GroupNotified
  <2>3. OneCallPerRank'
    BY <1>2, <1>4, <1>6, <1>8 DEF Calm, OneCallPerRank
  <2>4. ResetReplaces'
    <3>1. control.rank \in Ranks
      BY <1>1 DEF TypeOK
    <3>2. QED
      BY <1>1, <1>2, <1>4, <1>8, <3>1 DEF Calm, ResetReplaces, OfReplaced
  <2>5. GroupLeavesFirst'
    BY <1>1, <1>8 DEF Calm, GroupLeavesFirst, Leaving, Started
  <2>6. DataOfRankZero' /\ Agreement'
    BY <1>1, <1>3, <1>4, <1>8 DEF Calm, DataOfRankZero, OneEach, Agreement
  <2>7. QED
    BY <2>1, <2>2, <2>3, <2>4, <2>5, <2>6 DEF Calm
<1>9. QED
  BY <1>3, <1>5, <1>7, <1>8 DEF IInv

(* The reset is behind every turn that is already in the queue. *)
LEMMA RequestResetKeeps ==
  ASSUME IInv, NEW r \in Ranks, RequestReset(r)
  PROVE  IInv'
<1>1. /\ TypeOK /\ Unique /\ Waits /\ Counts /\ Orderly /\ control.step = "watching"
      /\ worker[r].status = "dead" /\ control' = [step |-> "resetting", rank |-> r]
      /\ queue' = Append(queue, ResetTurn)
      /\ UNCHANGED <<actor, waiting, worker, group, got, budget>>
  BY DEF IInv, Orderly, RequestReset, Failed
<1>2. ResetTurn \in Turns /\ ResetTurn.step = "reset" /\ ResetTurn.call = None
  BY DEF Turns, ResetTurn, Turn
<1>3. ResetTurn \notin Pending
  BY <1>1, <1>2 DEF Pending, Waits, Orderly, OneReset
<1>4. \A x \in Pending : x.call # ResetTurn.call
  BY <1>1, <1>2, <1>3, PendingTurns, TurnTypes, SyncAssumption
<1>5. queue \in Seq(Turns) /\ UniqueCalls(queue)
  BY <1>1 DEF TypeOK, Unique
<1>6. /\ queue' \in Seq(Turns) /\ UniqueCalls(queue)'
      /\ ToSet(queue)' = ToSet(queue) \cup {ResetTurn}
  BY <1>1, <1>2, <1>4, <1>5, AppendSeq DEF Pending
<1>7. Pending' = Pending \cup {ResetTurn}
  BY <1>1, <1>6 DEF Pending
<1>8. TypeOK'
  BY <1>1, <1>6 DEF TypeOK
<1>9. Inside' = Inside
  <2>1. ResetTurn.step \notin InsideSteps
    BY <1>2 DEF InsideSteps
  <2>2. ASSUME NEW d PROVE d \in Inside' <=> d \in Inside
    BY <1>1, <1>7, <1>8, <2>1, InsideMembers
  <2>3. QED
    BY <2>2
<1>10. Orderly'
  <2>1. Unique'
    BY <1>1, <1>4, <1>6 DEF Unique, Pending
  <2>2. Waits' /\ Numbered' /\ OneReset' /\ GotShape'
    BY <1>1, <1>7 DEF Orderly, Waits, Numbered, OneReset, GotShape
  <2>3. QED
    BY <1>1, <1>9, <2>1, <2>2, SameCounts DEF Orderly
<1>11. ASSUME Calm PROVE Calm'
  <2>1. ResetNotifies'
    BY <1>1, <1>2, <1>7, <1>11 DEF Calm, ResetNotifies
  <2>2. GroupNotified'
    <3>1. ResetTurn.call \notin group
      BY <1>1, <1>2, SyncAssumption DEF TypeOK
    <3>2. QED
      BY <1>1, <1>2, <1>6, <1>7, <1>9, <1>11, <3>1 DEF Calm, GroupNotified
  <2>3. OneCallPerRank'
    BY <1>1, <1>7, <1>11 DEF Calm, OneCallPerRank
  <2>4. ResetReplaces'
    <3>1. control'.step = "resetting" /\ control'.rank = r
      BY <1>1
    <3>2. Precede(queue', {x \in OfReplaced' : x.step = "call"}, {ResetTurn})
      <4>1. ToSet(queue) \cap {ResetTurn} = {}
        BY <1>3 DEF Pending
      <4>2. Precede(queue, {x \in OfReplaced' : x.step = "call"}, {ResetTurn})
        BY <1>5, <4>1, PrecedeWithout
      <4>3. ResetTurn \notin {x \in OfReplaced' : x.step = "call"}
        BY <1>2
      <4>4. QED
        BY <1>1, <1>2, <1>5, <4>2, <4>3, PrecedeAppend
    <3>3. ~actor'.reset /\ \A x \in Pending' : x.step # "setup"
      BY <1>1, <1>2, <1>7, <1>11 DEF Calm, ResetReplaces
    <3>4. QED
      BY <1>1, <3>1, <3>2, <3>3 DEF ResetReplaces
  <2>5. GroupLeavesFirst'
    <3>1. Precede(queue, Leaving, Started) /\ Leaving' = Leaving
      BY <1>1, <1>11 DEF Calm, GroupLeavesFirst, Leaving
    <3>2. ResetTurn \notin Leaving
      BY <1>2 DEF Leaving, InsideSteps
    <3>3. QED
      BY <1>1, <1>2, <1>5, <3>1, <3>2, PrecedeAppend DEF GroupLeavesFirst, Started
  <2>6. DataOfRankZero' /\ Agreement'
    BY <1>1, <1>9, <1>11 DEF Calm, DataOfRankZero, OneEach, Agreement
  <2>7. QED
    BY <2>1, <2>2, <2>3, <2>4, <2>5, <2>6 DEF Calm
<1>12. QED
  BY <1>1, <1>8, <1>10, <1>11 DEF IInv

(* When the loop has nothing to do, the reset is over. *)
LEMMA QuietActor ==
  ASSUME TypeOK, Orderly, Calm, queue = <<>>
  PROVE  /\ ToSet(queue) = {} /\ Pending = ToSet(waiting)
         /\ ~actor.reset /\ \A x \in Pending : x.step # "setup"
<1>1. ToSet(queue) = {} /\ Pending = ToSet(waiting)
  <2>1. ToSet(queue) = {}
    BY SetOfSeq DEF TypeOK
  <2>2. QED
    BY <2>1 DEF Pending
<1>2. ASSUME actor.reset PROVE FALSE
  <2>1. actor.counter # 0 /\ actor.counter = Cardinality(Inside)
    BY <1>2 DEF Orderly, Counts, CounterIsInside, Idle
  <2>2. PICK c : c \in Inside
    BY <2>1, FS_EmptySet
  <2>3. PICK x \in Pending : x.step \in InsideSteps /\ x.call = c
    BY <2>2, InsideMembers
  <2>4. x.step = "setup"
    BY <1>1, <1>2, <2>3 DEF Calm, ResetNotifies
  <2>5. QED
    BY <2>3, <2>4 DEF InsideSteps
<1>3. QED
  BY <1>1, <1>2 DEF Calm, ResetNotifies

(* A worker that takes over a rank finds no call of its predecessor. *)
LEMMA ReplaceKeeps ==
  ASSUME IInv, NEW r \in Ranks, Replace(r)
  PROVE  IInv'
<1>1. /\ TypeOK /\ Unique /\ Orderly /\ queue = <<>> /\ control.step = "replacing"
      /\ r = control.rank /\ control' = Watching
      /\ UNCHANGED <<actor, queue, waiting, group, got, budget>>
  BY DEF IInv, Orderly, Replace
<1>2. /\ worker' \in Workers
      /\ \A s \in Ranks : /\ worker'[s].number = worker[s].number
                          /\ s # r => worker'[s].status = worker[s].status
  <2>1. worker \in Workers /\ MaxCalls \in Nat
    BY <1>1, SyncAssumption DEF TypeOK, Workers
  <2>2. PICK i \in 0..MaxCalls :
               worker' = [worker EXCEPT ![r].status = "idle", ![r].life = @ + 1, ![r].index = i]
    BY DEF Replace
  <2>3. i \in Nat /\ worker[r].life + 1 \in Nat
    BY <2>1 DEF Workers
  <2>4. QED
    BY <2>1, <2>2, <2>3 DEF Workers
<1>3. /\ control' \in [step : {"watching", "resetting", "replacing"}, rank : Ranks]
      /\ control'.step = "watching"
  BY <1>1, SyncAssumption DEF Watching, Ranks
<1>4. Pending' = Pending /\ Inside' = Inside /\ ToSet(queue)' = ToSet(queue)
      /\ ToSet(waiting)' = ToSet(waiting)
  BY <1>1 DEF Pending, Inside
<1>5. TypeOK'
  BY <1>1, <1>2, <1>3 DEF TypeOK, Workers
<1>6. \A x \in Pending \ {ResetTurn} : x \in Turns /\ x.call.rank \in Ranks
  BY <1>1, PendingTurns, TurnTypes, CallTypes
<1>7. Orderly'
  <2>1. Unique' /\ Waits' /\ GotShape' /\ Counts'
    BY <1>1, <1>4, SameCounts DEF Orderly, Unique, Waits, GotShape
  <2>2. Numbered'
    BY <1>1, <1>2, <1>4, <1>6 DEF Orderly, Numbered
  <2>3. OneReset'
    <3>1. ToSet(queue) = {}
      BY <1>1, SetOfSeq DEF TypeOK
    <3>2. QED
      BY <1>4, <3>1 DEF OneReset
  <2>4. QED
    BY <2>1, <2>2, <2>3 DEF Orderly
<1>8. ASSUME Calm PROVE Calm'
  <2>1. /\ ToSet(queue) = {} /\ Pending = ToSet(waiting)
        /\ ~actor.reset /\ \A x \in Pending : x.step # "setup"
    BY <1>1, <1>8, QuietActor
  <2>2. \A x \in Pending \ {ResetTurn} : x.call.rank # r
    BY <1>1, <1>6, <1>8, <2>1 DEF Calm, ResetReplaces, OfReplaced
  <2>3. ResetNotifies'
    BY <1>1, <1>4, <1>8 DEF Calm, ResetNotifies
  <2>4. GroupNotified'
    <3>1. \A d \in group : d.rank \in Ranks
      BY <1>1, CallTypes DEF TypeOK
    <3>2. QED
      BY <1>1, <1>2, <1>4, <1>8, <3>1 DEF Calm, GroupNotified
  <2>5. OneCallPerRank'
    BY <1>2, <1>4, <1>6, <1>8, <2>2 DEF Calm, OneCallPerRank
  <2>6. ResetReplaces'
    BY <1>1, <1>3, <1>4, <2>1 DEF ResetReplaces
  <2>7. GroupLeavesFirst'
    BY <1>1, <1>8 DEF Calm, GroupLeavesFirst, Leaving, Started
  <2>8. DataOfRankZero' /\ Agreement'
    BY <1>1, <1>4, <1>8 DEF Calm, DataOfRankZero, OneEach, Agreement
  <2>9. QED
    BY <2>3, <2>4, <2>5, <2>6, <2>7, <2>8 DEF Calm
<1>9. QED
  BY <1>1, <1>5, <1>7, <1>8 DEF IInv

-----------------------------------------------------------------------------
(* The theorems. *)

(* The actor is created idle. *)
LEMMA InitIInv == Init => IInv
<1> SUFFICES ASSUME Init PROVE IInv
  OBVIOUS
<1>1. WorldSize \in Nat \ {0} /\ 0 \in Ranks
  BY SyncAssumption DEF Ranks
<1>2. queue = <<>> /\ waiting = <<>> /\ <<>> \in Seq(Turns)
  BY EmptySeq DEF Init
<1>3. TypeOK
  BY <1>1, <1>2 DEF Init, TypeOK, Idle, Watching
<1>4. ToSet(queue) = {} /\ ToSet(waiting) = {} /\ Pending = {}
  <2>1. ToSet(queue) = {} /\ ToSet(waiting) = {}
    BY <1>2, SetOfSeq
  <2>2. QED
    BY <2>1 DEF Pending
<1>5. Inside = {}
  BY <1>3, <1>4, InsideMembers
<1>6. Counts
  <2>1. IsFiniteSet({}) /\ Cardinality({}) = 0
    BY FS_EmptySet
  <2>2. QED
    BY <1>1, <1>5, <2>1 DEF Init, Counts, CounterIsInside, Idle
<1>7. \A A, B : Precede(queue, A, B)
  BY <1>2, <1>4, PrecedeWithout
<1>8. Unique
  <2>1. Len(queue) = 0 /\ Len(waiting) = 0 /\ 1..0 = {}
    BY <1>2, EmptySeq
  <2>2. QED
    BY <1>4, <2>1 DEF Unique, UniqueCalls
<1>9. Orderly
  BY <1>4, <1>6, <1>8 DEF Init, Orderly, Waits, Numbered, OneReset, GotShape
<1>10. ResetNotifies /\ GroupNotified /\ OneCallPerRank
  BY <1>4, <1>5 DEF Init, ResetNotifies, GroupNotified, OneCallPerRank
<1>11. ResetReplaces /\ GroupLeavesFirst
  BY <1>4, <1>7 DEF Init, ResetReplaces, GroupLeavesFirst, Watching, Idle
<1>12. DataOfRankZero /\ Agreement
  BY <1>5 DEF Init, DataOfRankZero, Agreement
<1>13. QED
  BY <1>3, <1>9, <1>10, <1>11, <1>12 DEF IInv, Calm

(* Every step keeps the invariant. *)
LEMMA NextIInv == IInv /\ [Next]_vars => IInv'
<1> SUFFICES ASSUME IInv, [Next]_vars PROVE IInv'
  OBVIOUS
<1>1. CASE EventLoop
  BY <1>1, WaitForResetKeeps, EnterAndWaitKeeps, EnterAndCompleteKeeps, ResumeKeeps,
     WaitAgainKeeps, RaiseTimeoutKeeps, ResetKeeps DEF EventLoop
<1>2. CASE WarningFires
  BY <1>2, WarningFiresKeeps
<1>3. CASE TimeoutFires
  BY <1>3, TimeoutFiresKeeps
<1>4. ASSUME NEW r \in Ranks, Report(r) \/ Die(r) \/ RequestReset(r) \/ Replace(r)
      PROVE  IInv'
  BY <1>4, ReportKeeps, DieKeeps, RequestResetKeeps, ReplaceKeeps
<1>5. CASE UNCHANGED vars
  <2>1. TypeOK'
    BY <1>5 DEF vars, IInv, TypeOK
  <2>2. Orderly'
    BY <1>5 DEF vars, IInv, Orderly, Unique, UniqueCalls, Waits, Numbered, OneReset, GotShape,
                Counts, CounterIsInside, Inside, Pending
  <2>3. Calm => ResetNotifies' /\ GroupNotified' /\ OneCallPerRank' /\ ResetReplaces'
    BY <1>5 DEF vars, Calm, ResetNotifies, GroupNotified, OneCallPerRank, ResetReplaces,
                OfReplaced, Inside, Pending
  <2>4. Calm => GroupLeavesFirst' /\ DataOfRankZero' /\ Agreement'
    BY <1>5 DEF vars, Calm, GroupLeavesFirst, Leaving, Started, DataOfRankZero, OneEach,
                Agreement, Inside
  <2>5. QED
    BY <1>5, <2>1, <2>2, <2>3, <2>4 DEF vars, IInv, Calm
<1>6. QED
  BY <1>1, <1>2, <1>3, <1>4, <1>5 DEF Next

(***************************************************************************)
(* The actor, its callers and the controller keep the order of turns on    *)
(* which the barrier of sync_actor.py depends.                             *)
(***************************************************************************)
THEOREM Invariance == Spec => []IInv
  BY InitIInv, NextIInv, PTL DEF Spec

(* Every variable of the actor, the workers and the controller keeps its shape. *)
THEOREM TypeCorrectness == Spec => []TypeOK
<1>1. IInv => TypeOK
  BY DEF IInv
<1>2. QED
  BY <1>1, Invariance, PTL

(***************************************************************************)
(* _counter counts exactly the calls inside the barrier of                 *)
(* broadcast_from_rank_zero, for any interleaving of calls, resets,        *)
(* warnings, timeouts and worker failures.                                 *)
(***************************************************************************)
THEOREM CounterIsRight == Spec => []CounterIsInside
<1>1. IInv => CounterIsInside
  BY DEF IInv, Orderly, Counts
<1>2. QED
  BY <1>1, Invariance, PTL

(***************************************************************************)
(* What broadcast_from_rank_zero returns is the data of rank 0 among calls *)
(* of every rank that were inside the barrier together.                    *)
(***************************************************************************)
THEOREM RanksAgree == Spec => []Agreement
<1>1. IInv => Agreement
  BY DEF IInv, Calm, Agreement
<1>2. QED
  BY <1>1, Invariance, PTL

(***************************************************************************)
(* When the event loop is out of turns, a reset is over and the calls of a *)
(* completed barrier have left, unless a warning interval ended late.      *)
(***************************************************************************)
THEOREM NobodyStranded == Spec => []NoneStranded
<1>1. IInv => NoneStranded
  <2> SUFFICES ASSUME IInv, budget.warnings = 0, queue = <<>>
               PROVE  /\ ~actor.reset
                      /\ CallsAt({"setup"}, waiting) = {}
                      /\ Inside \cap group = {}
    BY DEF NoneStranded
  <2>1. TypeOK /\ Orderly /\ Calm
    BY DEF IInv
  <2>2. /\ ToSet(queue) = {} /\ Pending = ToSet(waiting)
        /\ ~actor.reset /\ \A x \in Pending : x.step # "setup"
    BY <2>1, QuietActor
  <2>3. CallsAt({"setup"}, waiting) = {}
    BY <2>2 DEF CallsAt
  <2>4. ASSUME NEW c \in Inside, c \in group PROVE FALSE
    <3>1. PICK x \in Pending : x.step \in InsideSteps /\ x.call = c
      BY <2>1, InsideMembers
    <3>2. QED
      BY <2>1, <2>2, <2>4, <3>1 DEF Calm, GroupNotified
  <2>5. QED
    BY <2>2, <2>3, <2>4
<1>2. QED
  BY <1>1, Invariance, PTL

=============================================================================
