------------------------ MODULE ValidationManagerProofs ------------------------
(***************************************************************************)
(* Proofs about ValidationManager, for any checkpoints, limits, time-outs  *)
(* and number of launches.                                                 *)
(***************************************************************************)
EXTENDS ValidationManager, FilterProofs, FiniteSetTheorems

Distinct(s) == \A i, j \in DOMAIN s : s[i] = s[j] => i = j

-----------------------------------------------------------------------------
(* Sequences as the sets of their elements. *)

(* An appended checkpoint is new if it was not there before. *)
LEMMA AppendElements ==
  ASSUME NEW T, NEW s \in Seq(T), NEW e \in T
  PROVE  /\ Append(s, e) \in Seq(T)
         /\ Elements(Append(s, e)) = Elements(s) \cup {e}
         /\ Distinct(s) /\ e \notin Elements(s) => Distinct(Append(s, e))
<1> DEFINE u == Append(s, e)
<1>1. u \in Seq(T) /\ Len(s) \in Nat /\ Len(u) = Len(s) + 1 /\ u[Len(s) + 1] = e
  OBVIOUS
<1>2. \A i \in 1..Len(s) : u[i] = s[i]
  OBVIOUS
<1>3. DOMAIN s = 1..Len(s) /\ DOMAIN u = 1..(Len(s) + 1)
  OBVIOUS
<1> HIDE DEF u
<1>4. \A i \in 1..(Len(s) + 1) : i \in 1..Len(s) \/ i = Len(s) + 1
  BY <1>1
<1>5. Len(s) + 1 \in 1..(Len(s) + 1) /\ \A i \in 1..Len(s) : i \in 1..(Len(s) + 1)
  BY <1>1
<1>6. Elements(u) = Elements(s) \cup {e}
  BY <1>1, <1>2, <1>3, <1>4, <1>5 DEF Elements
<1>7. Distinct(s) /\ e \notin Elements(s) => Distinct(u)
  BY <1>1, <1>2, <1>3, <1>4 DEF Elements, Distinct
<1>8. QED
  BY <1>1, <1>6, <1>7 DEF u

(* A concatenation has no duplicates if its parts have none and share none. *)
LEMMA ConcatElements ==
  ASSUME NEW T, NEW s \in Seq(T), NEW t \in Seq(T)
  PROVE  /\ s \o t \in Seq(T)
         /\ Elements(s \o t) = Elements(s) \cup Elements(t)
         /\ Distinct(s) /\ Distinct(t) /\ Elements(s) \cap Elements(t) = {} =>
              Distinct(s \o t)
<1> DEFINE u == s \o t
<1>1. /\ u \in Seq(T) /\ Len(s) \in Nat /\ Len(t) \in Nat
      /\ DOMAIN s = 1..Len(s) /\ DOMAIN t = 1..Len(t)
      /\ DOMAIN u = 1..(Len(s) + Len(t))
  OBVIOUS
<1>2. \A i \in 1..Len(s) : i \in DOMAIN u /\ u[i] = s[i]
  BY <1>1
<1>3. \A i \in 1..Len(t) : Len(s) + i \in DOMAIN u /\ u[Len(s) + i] = t[i]
  BY <1>1
<1> HIDE DEF u
<1>4. \A i \in DOMAIN u : i \in 1..Len(s) \/ \E j \in 1..Len(t) : i = Len(s) + j
  <2>1. ASSUME NEW i \in DOMAIN u, i \notin 1..Len(s)
        PROVE  \E j \in 1..Len(t) : i = Len(s) + j
    <3>1. i - Len(s) \in 1..Len(t) /\ i = Len(s) + (i - Len(s))
      BY <1>1, <2>1
    <3>2. QED
      BY <3>1
  <2>2. QED
    BY <2>1
<1>5. Elements(u) = Elements(s) \cup Elements(t)
  <2>1. Elements(s) \subseteq Elements(u) /\ Elements(t) \subseteq Elements(u)
    BY <1>1, <1>2, <1>3 DEF Elements
  <2>2. ASSUME NEW i \in DOMAIN u PROVE u[i] \in Elements(s) \cup Elements(t)
    BY <1>1, <1>2, <1>3, <1>4 DEF Elements
  <2>3. QED
    BY <2>1, <2>2 DEF Elements
<1>6. ASSUME Distinct(s), Distinct(t), Elements(s) \cap Elements(t) = {}
      PROVE  Distinct(u)
  <2>1. SUFFICES ASSUME NEW i \in DOMAIN u, NEW j \in DOMAIN u, u[i] = u[j]
                 PROVE  i = j
    BY DEF Distinct
  <2>2. \A k \in 1..Len(s), l \in 1..Len(t) : s[k] # t[l]
    BY <1>1, <1>6 DEF Elements
  <2>3. CASE i \in 1..Len(s)
    <3>1. j \in 1..Len(s)
      BY <1>2, <1>3, <1>4, <2>1, <2>2, <2>3
    <3>2. QED
      BY <1>1, <1>2, <1>6, <2>1, <2>3, <3>1 DEF Distinct
  <2>4. CASE i \notin 1..Len(s)
    <3>1. PICK k \in 1..Len(t) : i = Len(s) + k
      BY <1>4, <2>4
    <3>2. PICK l \in 1..Len(t) : j = Len(s) + l
      BY <1>2, <1>3, <1>4, <2>1, <2>2, <3>1
    <3>3. t[k] = t[l]
      BY <1>3, <2>1, <3>1, <3>2
    <3>4. QED
      BY <1>1, <1>6, <3>1, <3>2, <3>3 DEF Distinct
  <2>5. QED
    BY <2>3, <2>4
<1>7. QED
  BY <1>1, <1>5, <1>6 DEF u

(* A sequence without duplicates is split into two that share nothing. *)
LEMMA SplitElements ==
  ASSUME NEW T, NEW s \in Seq(T), NEW n \in 0..Len(s)
  PROVE  LET a == SubSeq(s, 1, n)
             b == SubSeq(s, n + 1, Len(s))
         IN  /\ a \in Seq(T) /\ Len(a) = n
             /\ b \in Seq(T)
             /\ Elements(s) = Elements(a) \cup Elements(b)
             /\ Distinct(s) => /\ Distinct(a) /\ Distinct(b)
                               /\ Elements(a) \cap Elements(b) = {}
<1> DEFINE a == SubSeq(s, 1, n)
           b == SubSeq(s, n + 1, Len(s))
<1>1. n \in Nat /\ Len(s) \in Nat /\ n <= Len(s) /\ DOMAIN s = 1..Len(s)
  OBVIOUS
<1>2. a \in Seq(T) /\ Len(a) = n /\ DOMAIN a = 1..n /\ \A i \in 1..n : a[i] = s[i]
  BY <1>1
<1>3. /\ b \in Seq(T) /\ DOMAIN b = 1..(Len(s) - n)
      /\ \A i \in 1..(Len(s) - n) : b[i] = s[n + i]
  BY <1>1
<1> HIDE DEF a, b
<1>4. /\ \A i \in 1..n : i \in DOMAIN s
      /\ \A i \in 1..(Len(s) - n) : n + i \in DOMAIN s
  BY <1>1
<1>5. \A i \in DOMAIN s : i \in 1..n \/ \E j \in 1..(Len(s) - n) : i = n + j
  <2>1. ASSUME NEW i \in DOMAIN s, i \notin 1..n
        PROVE  \E j \in 1..(Len(s) - n) : i = n + j
    <3>1. i - n \in 1..(Len(s) - n) /\ i = n + (i - n)
      BY <1>1, <2>1
    <3>2. QED
      BY <3>1
  <2>2. QED
    BY <2>1
<1>6. Elements(s) = Elements(a) \cup Elements(b)
  <2>1. ASSUME NEW i \in DOMAIN a PROVE a[i] \in Elements(s)
    BY <1>2, <1>4 DEF Elements
  <2>2. ASSUME NEW i \in DOMAIN b PROVE b[i] \in Elements(s)
    <3>1. b[i] = s[n + i] /\ n + i \in DOMAIN s
      BY <1>3, <1>4
    <3>2. QED
      BY <3>1 DEF Elements
  <2>3. ASSUME NEW i \in DOMAIN s PROVE s[i] \in Elements(a) \cup Elements(b)
    <3>1. CASE i \in 1..n
      <4>1. i \in DOMAIN a /\ a[i] = s[i]
        BY <1>2, <3>1
      <4>2. QED
        BY <4>1 DEF Elements
    <3>2. CASE i \notin 1..n
      <4>1. PICK j \in 1..(Len(s) - n) : i = n + j
        BY <1>5, <3>2
      <4>2. j \in DOMAIN b /\ b[j] = s[i]
        BY <1>3, <4>1
      <4>3. QED
        BY <4>2 DEF Elements
    <3>3. QED
      BY <3>1, <3>2
  <2>4. QED
    BY <2>1, <2>2, <2>3 DEF Elements
<1>7. ASSUME Distinct(s) PROVE Distinct(a) /\ Distinct(b) /\ Elements(a) \cap Elements(b) = {}
  <2>1. Distinct(a)
    BY <1>2, <1>4, <1>7 DEF Distinct
  <2>2. Distinct(b)
    <3>1. SUFFICES ASSUME NEW i \in DOMAIN b, NEW j \in DOMAIN b, b[i] = b[j] PROVE i = j
      BY DEF Distinct
    <3>2. n + i = n + j
      BY <1>3, <1>4, <1>7, <3>1 DEF Distinct
    <3>3. QED
      BY <1>1, <1>3, <3>2
  <2>3. ASSUME NEW i \in DOMAIN a, NEW j \in DOMAIN b PROVE a[i] # b[j]
    <3>1. i # n + j
      BY <1>1, <1>2, <1>3
    <3>2. QED
      BY <1>2, <1>3, <1>4, <1>7, <3>1 DEF Distinct
  <2>4. QED
    BY <2>1, <2>2, <2>3 DEF Elements
<1>8. QED
  BY <1>2, <1>3, <1>6, <1>7 DEF a, b

(* A selection holds the elements in the set, once if they were there once. *)
LEMMA FilterElements ==
  ASSUME NEW T, NEW s \in Seq(T), NEW S
  PROVE  /\ Filter(s, S) \in Seq(T)
         /\ Len(Filter(s, S)) <= Len(s)
         /\ Elements(Filter(s, S)) = Elements(s) \cap S
         /\ Distinct(s) => Distinct(Filter(s, S))
<1> DEFINE t == Filter(s, S)
<1>1. t \in Seq(T) /\ Selects(t, s, S, Len(s))
  BY FilterSelects
<1> HIDE DEF t
<1>2. PICK p \in [1..Len(t) -> 1..Len(s)] :
        /\ \A k \in 1..Len(t) : t[k] = s[p[k]] /\ t[k] \in S
        /\ \A k, l \in 1..Len(t) : k < l => p[k] < p[l]
  BY <1>1 DEF Selects
<1>3. /\ DOMAIN s = 1..Len(s) /\ DOMAIN t = 1..Len(t)
      /\ Len(s) \in Nat /\ Len(t) \in Nat
  BY <1>1
<1>4. Elements(t) = Elements(s) \cap S
  <2>1. ASSUME NEW k \in DOMAIN t PROVE t[k] \in Elements(s) \cap S
    BY <1>2, <1>3 DEF Elements
  <2>2. ASSUME NEW j \in DOMAIN s, s[j] \in S PROVE s[j] \in Elements(t)
    BY <1>1, <1>3, <2>2 DEF Elements, Selects
  <2>3. QED
    BY <2>1, <2>2 DEF Elements
<1>5. ASSUME Distinct(s) PROVE Distinct(t)
  <2>1. SUFFICES ASSUME NEW k \in DOMAIN t, NEW l \in DOMAIN t, t[k] = t[l] PROVE k = l
    BY DEF Distinct
  <2>2. p[k] = p[l]
    BY <1>2, <1>3, <1>5, <2>1 DEF Distinct
  <2>3. ~(k < l) /\ ~(l < k)
    BY <1>2, <1>3, <2>2
  <2>4. QED
    BY <1>3, <2>3
<1>6. QED
  BY <1>1, <1>4, <1>5 DEF Selects, t

(* The sequences of a finite set hold all of it, once. *)
LEMMA SeqsOfSet ==
  ASSUME NEW S, IsFiniteSet(S), NEW s \in SetToSeqs(S)
  PROVE  s \in Seq(S) /\ Distinct(s) /\ Elements(s) = S
<1>1. Cardinality(S) \in Nat
  BY FS_CardinalityType
<1>2. /\ s \in [1..Cardinality(S) -> S]
      /\ \A i, j \in 1..Cardinality(S) : i # j => s[i] # s[j]
  BY DEF SetToSeqs
<1>3. s \in Seq(S) /\ DOMAIN s = 1..Cardinality(S)
  BY <1>1, <1>2
<1>4. Distinct(s)
  BY <1>2, <1>3 DEF Distinct
<1>5. Elements(s) \subseteq S
  BY <1>2, <1>3 DEF Elements
<1>6. s \in Surjection(1..Cardinality(S), S)
  <2>1. s \in Injection(1..Cardinality(S), S)
    BY <1>2 DEF Injection, IsInjective
  <2>2. Cardinality(1..Cardinality(S)) = Cardinality(S)
    BY <1>1, FS_Interval
  <2>3. QED
    BY <2>1, <2>2, FS_Injection
<1>7. Elements(s) = S
  BY <1>3, <1>5, <1>6 DEF Surjection, Elements
<1>8. QED
  BY <1>3, <1>4, <1>7

-----------------------------------------------------------------------------
(* The inductive invariant. *)

(* What the manager holds. *)
Held == Elements(queue) \cup Elements(inFlight) \cup Elements(finished)

(* A checkpoint is in one place of the bookkeeping. *)
OnePlace ==
  /\ Distinct(queue) /\ Distinct(inFlight) /\ Distinct(finished)
  /\ Elements(queue) \cap Elements(inFlight) = {}
  /\ Elements(queue) \cap Elements(finished) = {}
  /\ Elements(inFlight) \cap Elements(finished) = {}

(* What is held is pending, whatever becomes of the run. *)
HeldIsPending == Held \subseteq Pending

(* What is pending is held, but for what the exception that is ending the  *)
(* run left aside.                                                         *)
PendingIsHeld ==
  Alive => /\ Pending \ Held \subseteq LeftPending
           /\ phase = "running" => Pending \subseteq Held

(* A finished validation has an end, and is cancelled only by a time-out   *)
(* or an abort.                                                            *)
EndsKnown ==
  \A c \in Elements(finished) \ timedOut :
    task[c] \in Ended /\ (task[c] = "cancelled" => aborted)

(* A task in flight is cancelled only by an abort. *)
CancelsKnown ==
  /\ \A c \in Elements(inFlight) : task[c] = "cancelled" => c \in cancelled
  /\ cancelled # {} => aborted

IInv ==
  /\ TypeOK
  /\ OnePlace
  /\ HeldIsPending
  /\ PendingIsHeld
  /\ EndsKnown
  /\ CancelsKnown
  /\ DrainedValidates

-----------------------------------------------------------------------------
(* The bookkeeping of a poll, as sets. *)

(* The three ways out of the in-flight map share it out among them. *)
LEMMA InFlightSplit ==
  ASSUME TypeOK, OnePlace
  PROVE  /\ Overdue \in Seq(Checkpoints) /\ Distinct(Overdue)
         /\ Elements(Overdue) = Elements(inFlight) \cap expired
         /\ Done \in Seq(Checkpoints) /\ Distinct(Done)
         /\ Elements(Done) =
              {c \in Elements(inFlight) : c \notin expired /\ task[c] \in Ended}
         /\ StillInFlight \in Seq(Checkpoints) /\ Distinct(StillInFlight)
         /\ Len(StillInFlight) <= Len(inFlight)
         /\ Elements(StillInFlight) =
              {c \in Elements(inFlight) : c \notin expired /\ task[c] \notin Ended}
<1>1. inFlight \in Seq(Checkpoints) /\ Distinct(inFlight)
  BY DEF TypeOK, OnePlace
<1>2. Elements(inFlight) \subseteq Checkpoints
  BY <1>1 DEF Elements
<1>3. /\ Overdue \in Seq(Checkpoints) /\ Distinct(Overdue)
      /\ Elements(Overdue) = Elements(inFlight) \cap {c \in Checkpoints : IsExpired(c)}
  BY <1>1, FilterElements DEF Overdue
<1>4. /\ Done \in Seq(Checkpoints) /\ Distinct(Done)
      /\ Elements(Done) = Elements(inFlight) \cap {c \in Checkpoints : IsDone(c)}
  BY <1>1, FilterElements DEF Done
<1>5. /\ StillInFlight \in Seq(Checkpoints) /\ Distinct(StillInFlight)
      /\ Len(StillInFlight) <= Len(inFlight)
      /\ Elements(StillInFlight) =
           Elements(inFlight) \cap {c \in Checkpoints : IsStillRunning(c)}
  BY <1>1, FilterElements DEF StillInFlight
<1>6. Elements(Overdue) = Elements(inFlight) \cap expired
  BY <1>2, <1>3 DEF IsExpired
<1>7. Elements(Done) = {c \in Elements(inFlight) : c \notin expired /\ task[c] \in Ended}
  BY <1>2, <1>4 DEF IsDone
<1>8. Elements(StillInFlight) =
        {c \in Elements(inFlight) : c \notin expired /\ task[c] \notin Ended}
  BY <1>2, <1>5 DEF IsStillRunning
<1>9. QED
  BY <1>3, <1>4, <1>5, <1>6, <1>7, <1>8

(* What is finished after the first half of a poll. *)
LEMMA AllFinishedElements ==
  ASSUME TypeOK, OnePlace
  PROVE  /\ AllFinished \in Seq(Checkpoints) /\ Distinct(AllFinished)
         /\ Elements(AllFinished) =
              Elements(finished) \cup Elements(Overdue) \cup Elements(Done)
<1>1. finished \in Seq(Checkpoints) /\ Distinct(finished)
  BY DEF TypeOK, OnePlace
<1>2. PICK u : u = finished \o Overdue
  OBVIOUS
<1>3. Elements(finished) \cap Elements(Overdue) = {}
  BY InFlightSplit DEF OnePlace
<1>4. /\ u \in Seq(Checkpoints) /\ Distinct(u)
      /\ Elements(u) = Elements(finished) \cup Elements(Overdue)
  BY <1>1, <1>2, <1>3, InFlightSplit, ConcatElements
<1>5. Elements(u) \cap Elements(Done) = {}
  BY <1>4, InFlightSplit DEF OnePlace
<1>6. AllFinished = u \o Done
  BY <1>2 DEF AllFinished
<1>7. /\ u \o Done \in Seq(Checkpoints) /\ Distinct(u \o Done)
      /\ Elements(u \o Done) = Elements(u) \cup Elements(Done)
  BY <1>4, <1>5, InFlightSplit, ConcatElements
<1>8. QED
  BY <1>4, <1>6, <1>7

(* A poll takes the first one out. *)
LEMMA FirstLeaves ==
  ASSUME TypeOK, OnePlace, finished' = Rest
  PROVE  /\ First \subseteq Elements(AllFinished)
         /\ \A c, d \in First : c = d
         /\ finished' \in Seq(Checkpoints) /\ Distinct(finished')
         /\ Elements(finished') = Elements(AllFinished) \ First
<1>1. PICK s : s = AllFinished
  OBVIOUS
<1>2. s \in Seq(Checkpoints) /\ Distinct(s)
  BY <1>1, AllFinishedElements
<1>3. CASE s = <<>>
  <2>1. First = {} /\ Elements(s) = {} /\ finished' = s
    BY <1>1, <1>3 DEF First, Rest, Elements
  <2>2. QED
    BY <1>1, <1>2, <2>1
<1>4. CASE s # <<>>
  <2>1. Len(s) \in Nat /\ Len(s) # 0 /\ DOMAIN s = 1..Len(s) /\ 1 \in 0..Len(s)
    BY <1>2, <1>4
  <2>2. First = {s[1]}
    BY <1>1, <2>1 DEF First
  <2>3. PICK a, b : a = SubSeq(s, 1, 1) /\ b = SubSeq(s, 1 + 1, Len(s))
    OBVIOUS
  <2>4. /\ a \in Seq(Checkpoints) /\ Len(a) = 1
        /\ b \in Seq(Checkpoints) /\ Distinct(b)
        /\ Elements(s) = Elements(a) \cup Elements(b)
        /\ Elements(a) \cap Elements(b) = {}
    BY <1>2, <2>1, <2>3, SplitElements
  <2>5. Elements(a) = {s[1]}
    <3>1. a[1] = s[1] /\ DOMAIN a = {1}
      BY <1>2, <2>1, <2>3, <2>4
    <3>2. QED
      BY <3>1 DEF Elements
  <2>6. finished' = b
    <3>1. Tail(s) = SubSeq(s, 2, Len(s))
      BY <1>2, <1>4
    <3>2. QED
      BY <1>1, <1>4, <2>3, <3>1 DEF Rest
  <2>7. QED
    BY <1>1, <2>2, <2>4, <2>5, <2>6
<1>5. QED
  BY <1>3, <1>4

(* The slots that are free are not exceeded, and what starts leaves the    *)
(* queue.                                                                  *)
LEMMA KickOffMoves ==
  ASSUME TypeOK, OnePlace, KickOff
  PROVE  /\ Elements(Started) \subseteq Elements(queue)
         /\ queue' \in Seq(Checkpoints) /\ Distinct(queue')
         /\ Elements(queue') = Elements(queue) \ Elements(Started)
         /\ inFlight' \in Seq(Checkpoints) /\ Distinct(inFlight')
         /\ Elements(inFlight') = Elements(StillInFlight) \cup Elements(Started)
         /\ Len(inFlight') <= limit
<1>1. /\ queue \in Seq(Checkpoints) /\ Len(queue) \in Nat /\ Distinct(queue)
      /\ limit \in Nat
  BY ValidationAssumption DEF TypeOK, OnePlace
<1>2. Len(StillInFlight) \in Nat /\ Len(StillInFlight) <= limit
  <2>1. Len(inFlight) \in Nat /\ Len(inFlight) <= limit
    BY DEF TypeOK
  <2>2. Len(StillInFlight) \in Nat /\ Len(StillInFlight) <= Len(inFlight)
    BY InFlightSplit
  <2>3. QED
    BY <1>1, <2>1, <2>2
<1>3. NumToStart \in 0..Len(queue) /\ Len(StillInFlight) + NumToStart <= limit
  BY <1>1, <1>2 DEF NumToStart
<1>4. PICK n \in 0..Len(queue) : n = NumToStart
  BY <1>3
<1>5. PICK a, b : a = SubSeq(queue, 1, n) /\ b = SubSeq(queue, n + 1, Len(queue))
  OBVIOUS
<1>6. /\ a \in Seq(Checkpoints) /\ Len(a) = n /\ Distinct(a)
      /\ b \in Seq(Checkpoints) /\ Distinct(b)
      /\ Elements(queue) = Elements(a) \cup Elements(b)
      /\ Elements(a) \cap Elements(b) = {}
  BY <1>1, <1>4, <1>5, SplitElements
<1>7. Started = a /\ queue' = b /\ inFlight' = StillInFlight \o a
  BY <1>4, <1>5 DEF KickOff, Started
<1>8. Elements(StillInFlight) \cap Elements(a) = {}
  BY <1>6, InFlightSplit DEF OnePlace
<1>9. /\ inFlight' \in Seq(Checkpoints) /\ Distinct(inFlight')
      /\ Elements(inFlight') = Elements(StillInFlight) \cup Elements(a)
  BY <1>6, <1>7, <1>8, InFlightSplit, ConcatElements
<1>10. Len(inFlight') = Len(StillInFlight) + n
  <2>1. StillInFlight \in Seq(Checkpoints)
    BY InFlightSplit
  <2>2. Len(StillInFlight \o a) = Len(StillInFlight) + Len(a)
    BY <1>6, <2>1
  <2>3. QED
    BY <1>6, <1>7, <2>2
<1>11. QED
  BY <1>3, <1>4, <1>6, <1>7, <1>9, <1>10

(* The tasks after a poll and the launch of those of St. *)
TaskAfter(St) ==
  [c \in Checkpoints |->
     IF c \in St THEN "running"
     ELSE IF c \in Elements(Overdue) THEN "cancelled"
     ELSE task[c]]

(* What the poll of a turn does to the statuses: the first finished        *)
(* validation is settled or dropped, unless it crashed or an abort         *)
(* cancelled it.                                                           *)
PollsFirst ==
  /\ TakeFirst
  /\ status' \in [Checkpoints -> Status] /\ stored' \in [Checkpoints -> Status]
  /\ \A c \in Checkpoints \ First : status'[c] = status[c]
  /\ \A c \in First : status'[c] # "pending" \/ Raises(c) \/ aborted

(* What a turn does, St being what it launches. *)
Turn(St) ==
  /\ PollsFirst
  /\ St \subseteq Elements(queue)
  /\ queue' \in Seq(Checkpoints) /\ Distinct(queue')
  /\ Elements(queue') = Elements(queue) \ St
  /\ inFlight' \in Seq(Checkpoints) /\ Distinct(inFlight')
  /\ Elements(inFlight') = Elements(StillInFlight) \cup St
  /\ Len(inFlight') <= limit
  /\ task' = TaskAfter(St)
  /\ UNCHANGED <<limit, expired, cancelled, aborted, launches>>

(* While nobody aborts, a validation that is processed without an exception *)
(* settles its checkpoint.                                                 *)
LEMMA ProcessedIsSettled ==
  ASSUME TypeOK, OnePlace, EndsKnown, CancelsKnown, ~aborted,
         NEW c \in Elements(AllFinished), ~Raises(c)
  PROVE  Verdict(c) \in Settled
<1>1. CASE c \in AllTimedOut
  BY <1>1 DEF Verdict, Settled
<1>2. CASE c \notin AllTimedOut
  <2>1. c \notin timedOut /\ c \notin Elements(Overdue)
    BY <1>2 DEF AllTimedOut
  <2>2. c \in Elements(finished) \/ c \in Elements(Done)
    BY <2>1, AllFinishedElements
  <2>3. task[c] \in Ended /\ task[c] # "cancelled"
    <3>1. CASE c \in Elements(finished)
      BY <2>1, <3>1 DEF EndsKnown
    <3>2. CASE c \in Elements(Done)
      BY <3>2, InFlightSplit DEF CancelsKnown
    <3>3. QED
      BY <2>2, <3>1, <3>2
  <2>4. task[c] = "ok" \/ task[c] = "raised"
    BY <1>2, <2>3 DEF Raises, Ended
  <2>5. QED
    BY <1>2, <2>4 DEF Verdict, Settled
<1>3. QED
  BY <1>1, <1>2

(* An update leaves every checkpoint with a status. *)
LEMMA UpdatedType ==
  ASSUME TypeOK, NEW S
  PROVE  Updated(S) \in [Checkpoints -> Status]
<1>1. \A c : Verdict(c) \in Status
  BY DEF Verdict, Status, Settled
<1>2. QED
  BY <1>1 DEF Updated, TypeOK

(* An update that raises does so too. *)
LEMMA UpdateRaisesType ==
  ASSUME TypeOK, NEW before, NEW s, NEW saved \in [Checkpoints -> Status],
         UpdateRaises(before, s, saved)
  PROVE  status' \in [Checkpoints -> Status] /\ stored' \in [Checkpoints -> Status]
<1>1. CASE /\ status' = Updated(before \cup Elements(s))
           /\ stored' \in {saved, status'}
  BY <1>1, UpdatedType
<1>2. CASE \E i \in DOMAIN s :
             /\ status' = [Updated(before \cup {s[j] : j \in 1..(i - 1)})
                             EXCEPT ![s[i]] = "dropped"]
             /\ stored' = saved
  <2>1. PICK i \in DOMAIN s :
          /\ status' = [Updated(before \cup {s[j] : j \in 1..(i - 1)})
                          EXCEPT ![s[i]] = "dropped"]
          /\ stored' = saved
    BY <1>2
  <2>2. Updated(before \cup {s[j] : j \in 1..(i - 1)}) \in [Checkpoints -> Status]
    BY UpdatedType
  <2>3. QED
    BY <2>1, <2>2 DEF Status
<1>3. QED
  BY <1>1, <1>2 DEF UpdateRaises

(* A poll that returns settles the first one. *)
LEMMA PollSettles ==
  ASSUME TypeOK, OnePlace, EndsKnown, CancelsKnown, Poll
  PROVE  PollsFirst
<1>1. /\ TakeFirst /\ \A c \in First : ~Raises(c)
      /\ status' = Updated(First) /\ stored' = StoredByPoll
  BY DEF Poll
<1>2. status' \in [Checkpoints -> Status] /\ stored' \in [Checkpoints -> Status]
  BY <1>1, UpdatedType DEF StoredByPoll, TypeOK
<1>3. \A c \in Checkpoints \ First : status'[c] = status[c]
  BY <1>1 DEF Updated
<1>4. ASSUME NEW c \in First, ~aborted PROVE status'[c] # "pending"
  <2>1. c \in Elements(AllFinished) /\ Elements(AllFinished) \subseteq Checkpoints
    <3>1. AllFinished \in Seq(Checkpoints)
      BY AllFinishedElements
    <3>2. Elements(AllFinished) \subseteq Checkpoints
      BY <3>1 DEF Elements
    <3>3. QED
      BY <1>4, <3>2 DEF First, Elements
  <2>2. Verdict(c) \in Settled
    BY <1>1, <1>4, <2>1, ProcessedIsSettled
  <2>3. status'[c] = IF status[c] = "pending" THEN Verdict(c) ELSE status[c]
    BY <1>1, <2>1 DEF Updated
  <2>4. QED
    BY <2>2, <2>3 DEF Settled
<1>5. QED
  BY <1>1, <1>2, <1>3, <1>4 DEF PollsFirst

(* One that raises does so for a crashed task, or with the first one       *)
(* settled or dropped.                                                     *)
LEMMA PollRaisesSettles ==
  ASSUME TypeOK, OnePlace, PollRaises
  PROVE  PollsFirst
<1>1. First \subseteq Checkpoints /\ \A c, d \in First : c = d
  <2>1. AllFinished \in Seq(Checkpoints)
    BY AllFinishedElements
  <2>2. QED
    BY <2>1 DEF First
<1>2. TakeFirst
  BY DEF PollRaises
<1>3. PICK c \in First : \/ Raises(c) /\ UNCHANGED <<status, stored>>
                         \/ Verdict(c) # "pending" /\ UpdateRaises({}, <<c>>, stored)
  BY DEF PollRaises
<1>4. First = {c} /\ c \in Checkpoints
  BY <1>1, <1>3
<1>5. CASE Raises(c) /\ UNCHANGED <<status, stored>>
  BY <1>2, <1>4, <1>5 DEF PollsFirst, TypeOK
<1>6. CASE Verdict(c) # "pending" /\ UpdateRaises({}, <<c>>, stored)
  <2>1. PICK s : s = <<c>>
    OBVIOUS
  <2>2. DOMAIN s = {1} /\ s[1] = c /\ Elements(s) = {c}
    BY <2>1 DEF Elements
  <2>3. UpdateRaises({}, s, stored)
    BY <1>6, <2>1
  <2>4. status' \in [Checkpoints -> Status] /\ stored' \in [Checkpoints -> Status]
    BY <2>3, UpdateRaisesType DEF TypeOK
  <2>5. \/ status' = Updated({c})
        \/ \E i \in DOMAIN s :
             status' = [Updated({} \cup {s[j] : j \in 1..(i - 1)}) EXCEPT ![s[i]] = "dropped"]
    <3>1. {} \cup Elements(s) = {c}
      BY <2>2
    <3>2. QED
      BY <2>3, <3>1 DEF UpdateRaises
  <2>6. CASE status' = Updated({c})
    <3>1. \A d \in Checkpoints \ {c} : status'[d] = status[d]
      BY <2>6 DEF Updated
    <3>2. status'[c] # "pending"
      BY <1>4, <1>6, <2>6 DEF Updated
    <3>3. QED
      BY <1>2, <1>4, <2>4, <3>1, <3>2 DEF PollsFirst
  <2>7. CASE \E i \in DOMAIN s :
               status' = [Updated({} \cup {s[j] : j \in 1..(i - 1)}) EXCEPT ![s[i]] = "dropped"]
    <3>1. {} \cup {s[j] : j \in 1..(1 - 1)} = {}
      OBVIOUS
    <3>2. status' = [Updated({}) EXCEPT ![c] = "dropped"]
      BY <2>2, <2>7, <3>1
    <3>3. /\ Updated({}) \in [Checkpoints -> Status]
          /\ \A d \in Checkpoints : Updated({})[d] = status[d]
      <4>1. \A d \in Checkpoints : Updated({})[d] = status[d]
        BY DEF Updated
      <4>2. QED
        BY <4>1, UpdatedType
    <3>4. status'[c] = "dropped" /\ \A d \in Checkpoints \ {c} : status'[d] = status[d]
      BY <1>4, <3>2, <3>3
    <3>5. QED
      BY <1>2, <1>4, <2>4, <3>4 DEF PollsFirst
  <2>8. QED
    BY <2>5, <2>6, <2>7
<1>7. QED
  BY <1>3, <1>5, <1>6

(* A turn with a kick-off. *)
LEMMA KickOffTurn ==
  ASSUME TypeOK, OnePlace, PollsFirst, KickOff,
         UNCHANGED <<limit, expired, cancelled, aborted, launches>>
  PROVE  Turn(Elements(Started))
<1>1. task' = TaskAfter(Elements(Started))
  BY DEF KickOff, TaskAfter
<1>2. QED
  BY <1>1, KickOffMoves DEF Turn

(* A turn without one. *)
LEMMA NoKickOffTurn ==
  ASSUME TypeOK, OnePlace, PollsFirst, NoKickOff,
         UNCHANGED <<limit, expired, cancelled, aborted, launches>>
  PROVE  Turn({})
<1>1. task' = TaskAfter({})
  BY DEF NoKickOff, TaskAfter
<1>2. /\ queue' = queue /\ inFlight' = StillInFlight
      /\ queue \in Seq(Checkpoints) /\ Distinct(queue)
  BY DEF NoKickOff, TypeOK, OnePlace
<1>3. Len(StillInFlight) <= limit
  <2>1. /\ Len(inFlight) \in Nat /\ Len(inFlight) <= limit
        /\ limit \in Nat
    BY ValidationAssumption DEF TypeOK
  <2>2. Len(StillInFlight) \in Nat /\ Len(StillInFlight) <= Len(inFlight)
    BY InFlightSplit
  <2>3. QED
    BY <2>1, <2>2
<1>4. QED
  BY <1>1, <1>2, <1>3, InFlightSplit DEF Turn

(* How a turn distributes what was held. *)
LEMMA TurnSets ==
  ASSUME TypeOK, OnePlace, NEW St, Turn(St)
  PROVE  /\ Elements(queue') = Elements(queue) \ St
         /\ Elements(inFlight') =
              {c \in Elements(inFlight) : c \notin expired /\ task[c] \notin Ended} \cup St
         /\ Elements(finished') =
              (Elements(finished)
                \cup {c \in Elements(inFlight) : c \in expired \/ task[c] \in Ended}) \ First
         /\ First \subseteq Elements(finished)
              \cup {c \in Elements(inFlight) : c \in expired \/ task[c] \in Ended}
         /\ finished' \in Seq(Checkpoints) /\ Distinct(finished')
         /\ St \subseteq Elements(queue)
<1>1. /\ First \subseteq Elements(AllFinished)
      /\ finished' \in Seq(Checkpoints) /\ Distinct(finished')
      /\ Elements(finished') = Elements(AllFinished) \ First
  BY FirstLeaves DEF Turn, PollsFirst, TakeFirst
<1>2. Elements(AllFinished) =
        Elements(finished) \cup {c \in Elements(inFlight) : c \in expired \/ task[c] \in Ended}
  BY InFlightSplit, AllFinishedElements
<1>3. QED
  BY <1>1, <1>2, InFlightSplit DEF Turn

(* The part of the invariant that a turn keeps whoever takes it. *)
LEMMA TurnKeeps ==
  ASSUME TypeOK, OnePlace, HeldIsPending, EndsKnown, CancelsKnown, NEW St, Turn(St),
         phase' \in Phases, raised' \in BOOLEAN
  PROVE  TypeOK' /\ OnePlace' /\ HeldIsPending' /\ EndsKnown' /\ CancelsKnown'
<1> DEFINE Out == {c \in Elements(inFlight) : c \in expired \/ task[c] \in Ended}
           In == {c \in Elements(inFlight) : c \notin expired /\ task[c] \notin Ended}
<1>1. /\ Elements(queue') = Elements(queue) \ St
      /\ Elements(inFlight') = In \cup St
      /\ Elements(finished') = (Elements(finished) \cup Out) \ First
      /\ First \subseteq Elements(finished) \cup Out
      /\ finished' \in Seq(Checkpoints) /\ Distinct(finished')
      /\ St \subseteq Elements(queue)
  BY TurnSets
<1>2. In \cup Out = Elements(inFlight) /\ In \cap Out = {}
  OBVIOUS
<1>3. Elements(inFlight) \subseteq Checkpoints /\ Elements(queue) \subseteq Checkpoints
      /\ Elements(finished) \subseteq Checkpoints
  BY DEF TypeOK, Elements
<1>4. Elements(Overdue) = Elements(inFlight) \cap expired
  BY InFlightSplit
<1>5. task' = TaskAfter(St)
  BY DEF Turn
<1>6. /\ \A c \in St : task'[c] = "running"
      /\ \A c \in Elements(inFlight) \ expired : task'[c] = task[c]
      /\ \A c \in Elements(finished) : task'[c] = task[c]
  BY <1>1, <1>3, <1>4, <1>5 DEF TaskAfter, OnePlace
<1>7. timedOut' = (timedOut \cup Elements(Overdue)) \ First
  BY DEF Turn, PollsFirst, TakeFirst, AllTimedOut
<1>8. TypeOK'
  <2>1. /\ status' \in [Checkpoints -> Status] /\ stored' \in [Checkpoints -> Status]
        /\ refused' = refused
    BY DEF Turn, PollsFirst, TakeFirst
  <2>2. task' \in [Checkpoints -> {"none", "running"} \cup Ended]
    BY <1>5 DEF TaskAfter, TypeOK, Ended
  <2>3. timedOut' \subseteq Elements(finished')
    BY <1>1, <1>4, <1>7 DEF TypeOK
  <2>4. QED
    BY <1>1, <2>1, <2>2, <2>3 DEF TypeOK, Turn, Elements
<1>9. OnePlace'
  <2>1. /\ Elements(queue)' \cap Elements(inFlight)' = {}
        /\ Elements(queue)' \cap Elements(finished)' = {}
        /\ Elements(inFlight)' \cap Elements(finished)' = {}
    BY <1>1, <1>2 DEF OnePlace, Elements
  <2>2. Distinct(queue)' /\ Distinct(inFlight)' /\ Distinct(finished)'
    BY <1>1 DEF Turn, Distinct
  <2>3. QED
    BY <2>1, <2>2 DEF OnePlace
<1>10. HeldIsPending'
  <2>1. ASSUME NEW c \in Checkpoints, c \notin First PROVE status'[c] = status[c]
    BY <2>1 DEF Turn, PollsFirst
  <2>2. Held' \subseteq Held \ First
    BY <1>1, <1>2 DEF Held, OnePlace, Elements
  <2>3. QED
    BY <1>3, <2>1, <2>2 DEF HeldIsPending, Pending, Held
<1>11. EndsKnown'
  <2>1. SUFFICES ASSUME NEW c \in Elements(finished'), c \notin timedOut'
                 PROVE  task'[c] \in Ended /\ (task'[c] = "cancelled" => aborted')
    BY DEF EndsKnown, Elements
  <2>2. c \notin First /\ c \notin timedOut /\ c \notin Elements(Overdue)
    BY <1>1, <1>7, <2>1
  <2>3. aborted' = aborted
    BY DEF Turn
  <2>4. CASE c \in Elements(finished)
    BY <1>6, <2>2, <2>3, <2>4 DEF EndsKnown
  <2>5. CASE c \in Out
    <3>1. c \in Elements(inFlight) \ expired /\ task[c] \in Ended
      BY <1>4, <2>2, <2>5
    <3>2. QED
      BY <1>6, <2>3, <3>1 DEF CancelsKnown
  <2>6. QED
    BY <1>1, <2>1, <2>4, <2>5
<1>12. CancelsKnown'
  <2>1. ASSUME NEW c \in Elements(inFlight') PROVE task'[c] # "cancelled"
    BY <1>1, <1>6 DEF Ended
  <2>2. QED
    BY <2>1 DEF CancelsKnown, Turn, Elements
<1>13. QED
  BY <1>8, <1>9, <1>10, <1>11, <1>12

(* Who is pending and no longer held after a turn. *)
LEMMA TurnLoses ==
  ASSUME TypeOK, OnePlace, HeldIsPending, EndsKnown, CancelsKnown, NEW St, Turn(St), ~aborted,
         NEW c \in Checkpoints, status'[c] = "pending", c \notin Held'
  PROVE  \/ c \in Pending \ Held /\ task'[c] = task[c]
         \/ c \in First /\ Raises(c) /\ task'[c] = "crashed"
<1>1. /\ Elements(queue') = Elements(queue) \ St
      /\ Elements(inFlight') =
           {d \in Elements(inFlight) : d \notin expired /\ task[d] \notin Ended} \cup St
      /\ Elements(finished') =
           (Elements(finished)
             \cup {d \in Elements(inFlight) : d \in expired \/ task[d] \in Ended}) \ First
      /\ St \subseteq Elements(queue)
  BY TurnSets
<1>2. Held \ First \subseteq Held'
  BY <1>1 DEF Held, Elements
<1>3. Elements(Overdue) = Elements(inFlight) \cap expired
  BY InFlightSplit
<1>4. First \subseteq Elements(AllFinished) /\ \A d, e \in First : d = e
  BY FirstLeaves DEF Turn, PollsFirst, TakeFirst
<1>5. task' = TaskAfter(St)
  BY DEF Turn
<1>6. CASE c \notin First
  <2>1. status'[c] = status[c]
    BY <1>6 DEF Turn, PollsFirst
  <2>2. c \notin Held
    BY <1>2, <1>6
  <2>3. task'[c] = task[c]
    BY <1>1, <1>3, <1>5, <2>2 DEF TaskAfter, Held
  <2>4. QED
    BY <2>1, <2>2, <2>3 DEF Pending
<1>7. CASE c \in First
  <2>2. Raises(c)
    BY <1>7 DEF Turn, PollsFirst
  <2>3. c \notin Elements(Overdue) /\ task[c] = "crashed"
    BY <2>2 DEF Raises, AllTimedOut
  <2>4. c \notin St
    <3>1. c \in Elements(finished) \cup Elements(inFlight)
      BY <1>4, <1>7, AllFinishedElements, InFlightSplit
    <3>2. QED
      BY <1>1, <3>1 DEF OnePlace
  <2>5. QED
    BY <1>5, <1>7, <2>2, <2>3, <2>4 DEF TaskAfter
<1>8. QED
  BY <1>6, <1>7

-----------------------------------------------------------------------------
(* Every action keeps the invariant. *)

(* The invariant holds in a new manager of a new run. *)
LEMMA InitHolds == Init => IInv
<1>1. SUFFICES ASSUME Init PROVE IInv
  OBVIOUS
<1>2. PICK e : e = <<>>
  OBVIOUS
<1>3. e \in Seq(Checkpoints) /\ Len(e) = 0 /\ Elements(e) = {} /\ Distinct(e)
  BY <1>2 DEF Elements, Distinct
<1>4. queue = e /\ inFlight = e /\ finished = e
  BY <1>1, <1>2 DEF Init
<1>5. TypeOK
  <2>1. limit \in Limits /\ 0 <= limit
    BY <1>1, ValidationAssumption DEF Init
  <2>2. launches \in 1..MaxLaunches
    BY <1>1, ValidationAssumption DEF Init
  <2>3. QED
    BY <1>1, <1>3, <1>4, <2>1, <2>2 DEF Init, TypeOK, Status, Phases
<1>6. OnePlace /\ HeldIsPending /\ EndsKnown
  BY <1>3, <1>4 DEF OnePlace, HeldIsPending, Held, EndsKnown
<1>7. PendingIsHeld /\ DrainedValidates
  BY <1>1 DEF Init, PendingIsHeld, DrainedValidates, Pending
<1>8. CancelsKnown
  BY <1>1, <1>3, <1>4 DEF Init, CancelsKnown
<1>9. QED
  BY <1>5, <1>6, <1>7, <1>8 DEF IInv

(* A report puts a checkpoint that was never held at the end of the queue. *)
LEMMA ReportKeeps ==
  ASSUME IInv, NEW c \in Checkpoints, Report(c)
  PROVE  IInv'
<1>1. /\ phase = "running" /\ ~aborted /\ status[c] = "unreported"
      /\ status' = [status EXCEPT ![c] = "pending"] /\ queue' = Append(queue, c)
      /\ stored' = status' /\ refused' = refused
      /\ UNCHANGED <<inFlight, timedOut, finished, limit, task, expired, cancelled>>
      /\ UNCHANGED <<phase, raised, aborted, launches>>
  BY DEF Report, tasks, control
<1>2. TypeOK /\ OnePlace /\ HeldIsPending
  BY DEF IInv
<1>3. c \notin Held
  BY <1>1, <1>2 DEF HeldIsPending, Pending
<1>4. queue' \in Seq(Checkpoints) /\ Elements(queue') = Elements(queue) \cup {c} /\ Distinct(queue')
  BY <1>1, <1>2, <1>3, AppendElements DEF TypeOK, OnePlace, Held
<1>5. Held' = Held \cup {c}
  BY <1>1, <1>4 DEF Held, Elements
<1>6. Pending' = Pending \cup {c}
  BY <1>1, <1>2 DEF Pending, TypeOK
<1>7. TypeOK'
  BY <1>1, <1>2, <1>4 DEF TypeOK, Status, Elements
<1>8. OnePlace'
  <2>1. Distinct(queue)' /\ Distinct(inFlight)' /\ Distinct(finished)'
    BY <1>1, <1>2, <1>4 DEF OnePlace, Distinct
  <2>2. Elements(queue)' = Elements(queue) \cup {c}
    BY <1>4 DEF Elements
  <2>3. Elements(inFlight)' = Elements(inFlight) /\ Elements(finished)' = Elements(finished)
    BY <1>1 DEF Elements
  <2>4. QED
    BY <1>2, <1>3, <2>1, <2>2, <2>3 DEF OnePlace, Held
<1>9. HeldIsPending'
  BY <1>2, <1>5, <1>6 DEF HeldIsPending
<1>10. PendingIsHeld'
  BY <1>1, <1>5, <1>6 DEF IInv, PendingIsHeld, LeftPending, Alive
<1>11. EndsKnown' /\ CancelsKnown'
  BY <1>1 DEF IInv, EndsKnown, CancelsKnown, Elements
<1>12. DrainedValidates'
  BY <1>1 DEF DrainedValidates
<1>13. QED
  BY <1>7, <1>8, <1>9, <1>10, <1>11, <1>12 DEF IInv

(* A report that raised ends the run, and what it left pending is known.   *)
LEMMA ReportRaisesKeeps ==
  ASSUME IInv, NEW c \in Checkpoints, ReportRaises(c)
  PROVE  IInv'
<1>1. /\ phase = "running" /\ ~aborted /\ status[c] = "unreported" /\ phase' = "closing"
      /\ UNCHANGED <<queue, inFlight, timedOut, finished, limit, task, expired, cancelled>>
      /\ UNCHANGED <<raised, aborted, launches>>
  BY DEF ReportRaises, manager, tasks
<1>2. \/ /\ status' = [status EXCEPT ![c] = "pending"]
         /\ stored' \in {stored, status'} /\ refused' = refused \cup {c}
      \/ /\ status' = [status EXCEPT ![c] = "dropped"]
         /\ stored' = stored /\ refused' = refused
  BY DEF ReportRaises
<1>3. TypeOK /\ OnePlace /\ HeldIsPending /\ PendingIsHeld
  BY DEF IInv
<1>4. Held' = Held
  BY <1>1 DEF Held, Elements
<1>5. c \notin Pending /\ Pending' \subseteq Pending \cup {c} /\ Pending \subseteq Pending'
  BY <1>1, <1>2, <1>3 DEF Pending, TypeOK
<1>6. c \in Pending' => c \in refused'
  BY <1>2, <1>3 DEF Pending, TypeOK
<1>7. TypeOK'
  BY <1>1, <1>2, <1>3 DEF TypeOK, Status, Phases, Elements
<1>8. OnePlace' /\ EndsKnown' /\ CancelsKnown'
  BY <1>1 DEF IInv, OnePlace, EndsKnown, CancelsKnown, Elements, Distinct
<1>9. HeldIsPending'
  BY <1>3, <1>4, <1>5 DEF HeldIsPending
<1>10. PendingIsHeld'
  <2>1. Pending \subseteq Held
    BY <1>1, <1>3 DEF PendingIsHeld, Alive
  <2>2. QED
    BY <1>1, <1>4, <1>5, <1>6, <2>1 DEF PendingIsHeld, LeftPending, Alive
<1>11. DrainedValidates'
  BY <1>1 DEF DrainedValidates
<1>12. QED
  BY <1>7, <1>8, <1>9, <1>10, <1>11 DEF IInv

(* The end of a task: a cancelled one was asked to stop. *)
LEMMA TaskEndsKeeps ==
  ASSUME IInv, NEW c \in Checkpoints, NEW how \in Ended, TaskEnds(c, how)
  PROVE  IInv'
<1>1. /\ task[c] = "running" /\ (how = "cancelled" => c \in cancelled)
      /\ task' = [task EXCEPT ![c] = how]
      /\ UNCHANGED <<status, stored, refused, queue, inFlight, timedOut, finished, limit>>
      /\ UNCHANGED <<expired, cancelled, phase, raised, aborted, launches>>
  BY DEF TaskEnds, results, manager, control
<1>2. task \in [Checkpoints -> {"none", "running"} \cup Ended]
  BY DEF IInv, TypeOK
<1>3. \A d \in Checkpoints : task'[d] = IF d = c THEN how ELSE task[d]
  BY <1>1, <1>2
<1>4. TypeOK'
  BY <1>1, <1>2 DEF IInv, TypeOK, Elements
<1>5. OnePlace' /\ HeldIsPending'
  BY <1>1 DEF IInv, OnePlace, HeldIsPending, Held, Pending, Elements, Distinct
<1>6. PendingIsHeld' /\ DrainedValidates'
  BY <1>1, <1>3 DEF IInv, PendingIsHeld, LeftPending, DrainedValidates, Held, Pending, Elements, Alive
<1>7. Elements(finished) \subseteq Checkpoints /\ Elements(inFlight) \subseteq Checkpoints
  BY DEF IInv, TypeOK, Elements
<1>8. c \notin Elements(finished) \ timedOut
  BY <1>1 DEF IInv, EndsKnown, Ended
<1>9. EndsKnown'
  BY <1>1, <1>3, <1>7, <1>8 DEF IInv, EndsKnown, Elements
<1>10. CancelsKnown'
  BY <1>1, <1>3, <1>7 DEF IInv, CancelsKnown, Elements
<1>11. QED
  BY <1>4, <1>5, <1>6, <1>9, <1>10 DEF IInv

(* The clock touches nothing else. *)
LEMMA ExpireKeeps ==
  ASSUME IInv, NEW c \in Checkpoints, Expire(c)
  PROVE  IInv'
<1>1. /\ c \in WithTimeout /\ expired' = expired \cup {c}
      /\ UNCHANGED <<status, stored, refused, queue, inFlight, timedOut, finished, limit>>
      /\ UNCHANGED <<task, cancelled, phase, raised, aborted, launches>>
  BY DEF Expire, results, manager, control
<1>2. TypeOK'
  BY <1>1 DEF IInv, TypeOK, Elements
<1>3. OnePlace' /\ HeldIsPending' /\ PendingIsHeld'
  BY <1>1 DEF IInv, OnePlace, HeldIsPending, PendingIsHeld, LeftPending, Held, Pending, Elements,
              Distinct, Alive
<1>4. EndsKnown' /\ CancelsKnown' /\ DrainedValidates'
  BY <1>1 DEF IInv, EndsKnown, CancelsKnown, DrainedValidates, LeftPending, Pending, Elements
<1>5. QED
  BY <1>2, <1>3, <1>4 DEF IInv

(* A turn that leads into the drain or is part of it.                      *)
LEMMA DrainTurnKeeps ==
  ASSUME IInv, NEW St, Turn(St), phase' = "draining",
         phase \in {"running", "closing", "draining"}, raised' \in BOOLEAN
  PROVE  IInv'
<1>1. TypeOK' /\ OnePlace' /\ HeldIsPending' /\ EndsKnown' /\ CancelsKnown'
  <2>1. phase' \in Phases
    BY DEF Phases
  <2>2. QED
    BY <2>1, TurnKeeps DEF IInv
<1>2. PendingIsHeld'
  <2>1. SUFFICES ASSUME ~aborted', NEW c \in Pending' \ Held'
                 PROVE  task'[c] = "crashed" \/ c \in refused'
    BY DEF PendingIsHeld, LeftPending, Alive, Pending
  <2>2. c \in Checkpoints /\ status'[c] = "pending" /\ c \notin Held' /\ ~aborted
    BY <2>1 DEF Pending, Turn
  <2>3. \/ c \in Pending \ Held /\ task'[c] = task[c]
        \/ task'[c] = "crashed"
    BY <2>2, TurnLoses DEF IInv
  <2>4. refused' = refused
    BY DEF Turn, PollsFirst, TakeFirst
  <2>5. QED
    BY <2>2, <2>3, <2>4 DEF IInv, PendingIsHeld, LeftPending, Alive
<1>3. DrainedValidates'
  BY DEF DrainedValidates
<1>4. QED
  BY <1>1, <1>2, <1>3 DEF IInv

(* A turn of the control loop that goes on, or that leads into the drain.  *)
LEMMA StateUpdateKeeps ==
  ASSUME IInv, NEW next \in {"running", "draining"}, StateUpdate(next)
  PROVE  IInv'
<1>1. /\ phase = "running" \/ (phase = "closing" /\ next = "draining")
      /\ ~aborted /\ Poll /\ phase' = next
      /\ raised' = raised /\ aborted' = aborted
  BY DEF StateUpdate
<1>2. Turn(Elements(Started))
  BY PollSettles, KickOffTurn DEF IInv, StateUpdate
<1>3. CASE next = "draining"
  BY <1>1, <1>2, <1>3, DrainTurnKeeps DEF IInv, TypeOK
<1>4. CASE next = "running"
  <2>1. TypeOK' /\ OnePlace' /\ HeldIsPending' /\ EndsKnown' /\ CancelsKnown'
    <3>1. phase' \in Phases /\ raised' \in BOOLEAN
      BY <1>1 DEF Phases, IInv, TypeOK
    <3>2. QED
      BY <1>2, <3>1, TurnKeeps DEF IInv
  <2>2. PendingIsHeld'
    <3>1. ASSUME NEW c \in Pending' \ Held' PROVE FALSE
      <4>1. c \in Checkpoints /\ status'[c] = "pending" /\ c \notin Held'
        BY <3>1 DEF Pending
      <4>2. \A d \in First : ~Raises(d)
        BY <1>1 DEF Poll
      <4>3. c \in Pending \ Held
        BY <1>1, <1>2, <4>1, <4>2, TurnLoses DEF IInv
      <4>4. phase = "running"
        BY <1>1, <1>4
      <4>5. QED
        BY <1>1, <4>3, <4>4 DEF IInv, PendingIsHeld, Alive
    <3>2. QED
      BY <3>1 DEF PendingIsHeld
  <2>3. DrainedValidates'
    BY <1>1, <1>4 DEF DrainedValidates
  <2>4. QED
    BY <2>1, <2>2, <2>3 DEF IInv
<1>5. QED
  BY <1>3, <1>4

(* A poll that raises in the control loop starts the shutdown. *)
LEMMA StateUpdateFailsKeeps ==
  ASSUME IInv, StateUpdateFails
  PROVE  IInv'
<1>1. /\ phase \in {"running", "closing"} /\ phase' = "draining" /\ raised' = raised
      /\ PollRaises /\ NoKickOff /\ UNCHANGED <<limit, expired, cancelled, aborted, launches>>
  BY DEF StateUpdateFails
<1>2. Turn({})
  BY <1>1, PollRaisesSettles, NoKickOffTurn DEF IInv
<1>3. QED
  BY <1>1, <1>2, DrainTurnKeeps DEF IInv, TypeOK

(* A turn of the drain loop that ends in its sleep. *)
LEMMA DrainWaitsKeeps ==
  ASSUME IInv, DrainWaits
  PROVE  IInv'
<1>1. /\ phase = "draining" /\ Poll /\ phase' = phase /\ raised' = raised
      /\ UNCHANGED <<limit, expired, cancelled, aborted, launches>>
      /\ NoKickOff \/ KickOff
  BY DEF DrainWaits, control
<1>2. \E St : Turn(St)
  BY <1>1, PollSettles, NoKickOffTurn, KickOffTurn DEF IInv
<1>3. QED
  BY <1>1, <1>2, DrainTurnKeeps DEF IInv, TypeOK

(* The bookkeeping after the last turn, which is empty. *)
LEMMA EmptyKeeps ==
  ASSUME IInv, queue' = <<>>, inFlight' = <<>>, finished' = <<>>, timedOut' = {},
         status' \in [Checkpoints -> Status], stored' \in [Checkpoints -> Status],
         task' = TaskAfter({}), phase' = "over", raised' \in BOOLEAN,
         UNCHANGED <<refused, limit, expired, cancelled, aborted, launches>>
  PROVE  /\ TypeOK' /\ OnePlace' /\ HeldIsPending' /\ PendingIsHeld'
         /\ EndsKnown' /\ CancelsKnown'
<1>1. PICK e : e = <<>>
  OBVIOUS
<1>2. e \in Seq(Checkpoints) /\ Len(e) = 0 /\ Elements(e) = {} /\ Distinct(e)
  BY <1>1 DEF Elements, Distinct
<1>3. queue' = e /\ inFlight' = e /\ finished' = e
  BY <1>1
<1>4. TypeOK'
  <2>1. task' \in [Checkpoints -> {"none", "running"} \cup Ended]
    BY DEF TaskAfter, IInv, TypeOK, Ended
  <2>2. limit' \in Limits /\ 0 <= limit'
    BY ValidationAssumption DEF IInv, TypeOK
  <2>3. phase' \in Phases
    BY DEF Phases
  <2>4. QED
    BY <1>2, <1>3, <2>1, <2>2, <2>3 DEF IInv, TypeOK
<1>5. OnePlace' /\ HeldIsPending' /\ EndsKnown'
  BY <1>2, <1>3 DEF OnePlace, HeldIsPending, Held, EndsKnown, Elements, Distinct
<1>6. PendingIsHeld'
  BY DEF PendingIsHeld, Alive
<1>7. CancelsKnown'
  BY <1>2, <1>3 DEF IInv, CancelsKnown, Elements
<1>8. QED
  BY <1>4, <1>5, <1>6, <1>7

(* A drain that fails ends the run; nobody relies on it any more. *)
LEMMA DrainFailsKeeps ==
  ASSUME IInv, DrainFails
  PROVE  IInv'
<1>1. /\ NoKickOff /\ phase' = "over" /\ raised' = TRUE
      /\ UNCHANGED <<limit, expired, cancelled, aborted, launches>>
  BY DEF DrainFails
<1>2. DrainedValidates'
  BY <1>1 DEF DrainedValidates
<1>3. CASE PollRaises \/ Poll
  <2>1. PollsFirst
    BY <1>3, PollSettles, PollRaisesSettles DEF IInv
  <2>2. Turn({})
    BY <1>1, <2>1, NoKickOffTurn DEF IInv
  <2>3. TypeOK' /\ OnePlace' /\ HeldIsPending' /\ EndsKnown' /\ CancelsKnown'
    <3>1. phase' \in Phases /\ raised' \in BOOLEAN
      BY <1>1 DEF Phases
    <3>2. QED
      BY <2>2, <3>1, TurnKeeps DEF IInv
  <2>4. PendingIsHeld'
    BY <1>1 DEF PendingIsHeld, Alive
  <2>5. QED
    BY <1>2, <2>3, <2>4 DEF IInv
<1>4. CASE /\ LoopEnds /\ UpdateRaises(First, Rest, StoredByPoll)
           /\ finished' = <<>> /\ timedOut' = {} /\ UNCHANGED refused
  <2>1. StoredByPoll \in [Checkpoints -> Status]
    BY UpdatedType DEF StoredByPoll, IInv, TypeOK
  <2>2. status' \in [Checkpoints -> Status] /\ stored' \in [Checkpoints -> Status]
    BY <1>4, <2>1, UpdateRaisesType DEF IInv
  <2>3. queue' = <<>> /\ inFlight' = <<>> /\ task' = TaskAfter({})
    BY <1>1, <1>4 DEF LoopEnds, NoKickOff, TaskAfter
  <2>4. QED
    BY <1>1, <1>2, <1>4, <2>2, <2>3, EmptyKeeps DEF IInv
<1>5. QED
  BY <1>3, <1>4 DEF DrainFails

(* The last turn: nothing is queued or running, and what is finished is    *)
(* processed at once.                                                      *)
LEMMA DrainEndsKeeps ==
  ASSUME IInv, DrainEnds
  PROVE  IInv'
<1>1. /\ phase = "draining" /\ StillInFlight = <<>> /\ queue = <<>>
      /\ \A c \in Elements(AllFinished) : ~Raises(c)
      /\ status' = Updated(Elements(AllFinished)) /\ stored' = status'
      /\ finished' = <<>> /\ timedOut' = {} /\ inFlight' = StillInFlight
      /\ task' = TaskAfter({}) /\ queue' = queue /\ phase' = "over"
      /\ UNCHANGED <<refused, limit, expired, cancelled, raised, aborted, launches>>
  BY DEF DrainEnds, LoopEnds, NoKickOff, Batch, TaskAfter
<1>2. /\ TypeOK' /\ OnePlace' /\ HeldIsPending' /\ PendingIsHeld'
      /\ EndsKnown' /\ CancelsKnown'
  <2>1. status' \in [Checkpoints -> Status] /\ stored' \in [Checkpoints -> Status]
    BY <1>1, UpdatedType DEF IInv
  <2>2. raised' \in BOOLEAN
    BY <1>1 DEF IInv, TypeOK
  <2>3. QED
    BY <1>1, <2>1, <2>2, EmptyKeeps
<1>3. DrainedValidates'
  <2>1. SUFFICES ASSUME ~aborted, NEW c \in Checkpoints, status'[c] = "pending"
                 PROVE  task'[c] = "crashed" \/ c \in refused'
    BY <1>1 DEF DrainedValidates, LeftPending
  <2>2. Held = Elements(AllFinished)
    <3>1. Elements(queue) = {} /\ Elements(StillInFlight) = {}
      BY <1>1 DEF Elements
    <3>2. Elements(inFlight) = Elements(Overdue) \cup Elements(Done)
      BY <3>1, InFlightSplit DEF IInv
    <3>3. QED
      BY <3>1, <3>2, AllFinishedElements DEF Held, IInv
  <2>3. status'[c] = IF c \in Held /\ status[c] = "pending" THEN Verdict(c) ELSE status[c]
    BY <1>1, <2>2 DEF Updated
  <2>4. c \notin Held
    <3>1. ASSUME c \in Held PROVE FALSE
      <4>1. Verdict(c) \in Settled
        BY <1>1, <2>1, <2>2, <3>1, ProcessedIsSettled DEF IInv
      <4>2. QED
        BY <2>1, <2>3, <3>1, <4>1 DEF Settled, HeldIsPending, Pending, IInv
    <3>2. QED
      BY <3>1
  <2>5. task[c] = "crashed" \/ c \in refused
    BY <1>1, <2>1, <2>3, <2>4 DEF IInv, PendingIsHeld, LeftPending, Alive, Pending
  <2>6. c \notin Elements(Overdue)
    BY <2>4, InFlightSplit DEF IInv, Held
  <2>7. QED
    BY <1>1, <2>5, <2>6 DEF TaskAfter
<1>4. QED
  BY <1>2, <1>3 DEF IInv

(* An abort asks tasks to stop, and says so. *)
LEMMA AbortKeeps ==
  ASSUME IInv, Abort
  PROVE  IInv'
<1>1. /\ aborted' = TRUE /\ cancelled' = cancelled \cup Elements(inFlight)
      /\ UNCHANGED <<status, stored, refused, queue, inFlight, timedOut, finished, limit>>
      /\ UNCHANGED <<task, expired, phase, raised, launches>>
  BY DEF Abort, results, manager
<1>2. Elements(inFlight) \subseteq Checkpoints
  BY DEF IInv, TypeOK, Elements
<1>3. TypeOK'
  BY <1>1, <1>2 DEF IInv, TypeOK, Elements
<1>4. OnePlace' /\ HeldIsPending'
  BY <1>1 DEF IInv, OnePlace, HeldIsPending, Held, Pending, Elements, Distinct
<1>5. PendingIsHeld' /\ EndsKnown' /\ CancelsKnown' /\ DrainedValidates'
  BY <1>1 DEF IInv, PendingIsHeld, LeftPending, Alive, EndsKnown, CancelsKnown, DrainedValidates, Elements
<1>6. QED
  BY <1>3, <1>4, <1>5 DEF IInv

(* What a process that is gone leaves behind is never read. *)
LEMMA ProcessEndsKeeps ==
  ASSUME IInv, ProcessEnds
  PROVE  IInv'
<1>1. /\ phase' = "gone"
      /\ UNCHANGED <<status, stored, refused, queue, inFlight, timedOut, finished, limit>>
      /\ UNCHANGED <<task, expired, cancelled, raised, aborted, launches>>
  BY DEF ProcessEnds, results, manager, tasks
<1>2. TypeOK'
  BY <1>1 DEF IInv, TypeOK, Phases, Elements
<1>3. OnePlace' /\ HeldIsPending'
  BY <1>1 DEF IInv, OnePlace, HeldIsPending, Held, Pending, Elements, Distinct
<1>4. PendingIsHeld' /\ EndsKnown' /\ CancelsKnown' /\ DrainedValidates'
  BY <1>1 DEF IInv, PendingIsHeld, LeftPending, Alive, EndsKnown, CancelsKnown, DrainedValidates, Elements
<1>5. QED
  BY <1>2, <1>3, <1>4 DEF IInv

(* A new manager queues exactly what storage says is pending: a checkpoint *)
(* of a report that raised is among it, if a later save succeeded.         *)
LEMMA RelaunchKeeps ==
  ASSUME IInv, Relaunch
  PROVE  IInv'
<1>1. /\ launches < MaxLaunches /\ launches' = launches + 1
      /\ queue' \in SetToSeqs({c \in Checkpoints : stored[c] = "pending"})
      /\ inFlight' = <<>> /\ timedOut' = {} /\ finished' = <<>>
      /\ task' = [c \in Checkpoints |-> "none"] /\ expired' = {} /\ cancelled' = {}
      /\ phase' = "running" /\ raised' = FALSE /\ aborted' = FALSE
      /\ status' = stored /\ stored' = stored /\ refused' = {} /\ limit' = limit
  BY DEF Relaunch, Requeue
<1>2. PICK P : P = {c \in Checkpoints : stored[c] = "pending"}
  OBVIOUS
<1>3. IsFiniteSet(P) /\ P \subseteq Checkpoints
  BY <1>2, ValidationAssumption, FS_Subset
<1>4. /\ queue' \in Seq(Checkpoints) /\ Distinct(queue') /\ Elements(queue') = P
  BY <1>1, <1>2, <1>3, SeqsOfSet
<1>5. PICK e : e = <<>>
  OBVIOUS
<1>6. e \in Seq(Checkpoints) /\ Len(e) = 0 /\ Elements(e) = {} /\ Distinct(e)
  BY <1>5 DEF Elements, Distinct
<1>7. inFlight' = e /\ finished' = e
  BY <1>1, <1>5
<1>8. TypeOK'
  <2>1. limit' \in Limits /\ 0 <= limit'
    BY <1>1, ValidationAssumption DEF IInv, TypeOK
  <2>2. launches' \in 1..MaxLaunches
    BY <1>1, ValidationAssumption DEF IInv, TypeOK
  <2>3. QED
    BY <1>1, <1>4, <1>6, <1>7, <2>1, <2>2 DEF IInv, TypeOK, Phases
<1>9. Pending' = P /\ Held' = P
  BY <1>1, <1>2, <1>4, <1>6, <1>7 DEF Pending, Held, Elements
<1>10. OnePlace' /\ EndsKnown'
  BY <1>4, <1>6, <1>7 DEF OnePlace, EndsKnown, Elements, Distinct
<1>11. HeldIsPending' /\ PendingIsHeld'
  BY <1>9 DEF HeldIsPending, PendingIsHeld
<1>12. CancelsKnown' /\ DrainedValidates'
  BY <1>1, <1>6, <1>7 DEF CancelsKnown, DrainedValidates, Elements
<1>13. QED
  BY <1>8, <1>10, <1>11, <1>12 DEF IInv

(* A step that changes nothing. *)
LEMMA StutterKeeps ==
  ASSUME IInv, UNCHANGED vars
  PROVE  IInv'
<1>1. /\ UNCHANGED <<status, stored, refused, queue, inFlight, timedOut, finished, limit, task>>
      /\ UNCHANGED <<expired, cancelled, phase, raised, aborted, launches>>
  BY DEF vars, results, manager, tasks, control
<1>2. TypeOK'
  BY <1>1 DEF IInv, TypeOK, Elements
<1>3. OnePlace' /\ HeldIsPending'
  BY <1>1 DEF IInv, OnePlace, HeldIsPending, Held, Pending, Elements, Distinct
<1>4. PendingIsHeld' /\ EndsKnown' /\ CancelsKnown' /\ DrainedValidates'
  BY <1>1 DEF IInv, PendingIsHeld, LeftPending, Alive, EndsKnown, CancelsKnown, DrainedValidates,
              Held, Pending, Elements
<1>5. QED
  BY <1>2, <1>3, <1>4 DEF IInv

(* The inductive invariant holds in every state: a pending checkpoint is   *)
(* in exactly one of the queue, the in-flight map and the finished map,    *)
(* through time-outs, kick-offs, the drain and a relaunch.                 *)
THEOREM Invariance == Spec => []IInv
<1>1. Init => IInv
  BY InitHolds
<1>2. IInv /\ [Next]_vars => IInv'
  <2>1. SUFFICES ASSUME IInv, [Next]_vars PROVE IInv'
    OBVIOUS
  <2>2. CASE UNCHANGED vars
    BY <2>1, <2>2, StutterKeeps
  <2>3. ASSUME NEW c \in Checkpoints, Report(c) PROVE IInv'
    BY <2>1, <2>3, ReportKeeps
  <2>4. ASSUME NEW c \in Checkpoints, Expire(c) PROVE IInv'
    BY <2>1, <2>4, ExpireKeeps
  <2>5. ASSUME NEW c \in Checkpoints, NEW how \in Ended, TaskEnds(c, how) PROVE IInv'
    BY <2>1, <2>5, TaskEndsKeeps
  <2>6. ASSUME NEW next \in {"running", "draining"}, StateUpdate(next) PROVE IInv'
    BY <2>1, <2>6, StateUpdateKeeps
  <2>7. CASE StateUpdateFails
    BY <2>1, <2>7, StateUpdateFailsKeeps
  <2>8. CASE DrainWaits
    BY <2>1, <2>8, DrainWaitsKeeps
  <2>9. CASE DrainEnds
    BY <2>1, <2>9, DrainEndsKeeps
  <2>10. CASE DrainFails
    BY <2>1, <2>10, DrainFailsKeeps
  <2>11. CASE Abort
    BY <2>1, <2>11, AbortKeeps
  <2>12. CASE ProcessEnds
    BY <2>1, <2>12, ProcessEndsKeeps
  <2>13. CASE Relaunch
    BY <2>1, <2>13, RelaunchKeeps
  <2>14. ASSUME NEW c \in Checkpoints, ReportRaises(c) PROVE IInv'
    BY <2>1, <2>14, ReportRaisesKeeps
  <2>15. QED
    BY <2>1, <2>2, <2>3, <2>4, <2>5, <2>6, <2>7, <2>8, <2>9, <2>10, <2>11, <2>12, <2>13,
       <2>14 DEF Next
<1>3. QED
  BY <1>1, <1>2, PTL DEF Spec

(* The bookkeeping keeps its shape and the number of validations in flight *)
(* never exceeds MAX_IN_FLIGHT_VALIDATIONS.                                *)
THEOREM TypeCorrectness == Spec => []TypeOK
<1>1. IInv => TypeOK
  BY DEF IInv
<1>2. QED
  BY <1>1, Invariance, PTL

(* No pending checkpoint is forgotten by the manager or held twice, across *)
(* time-outs that race the end of the task, aborts and resumptions.        *)
THEOREM NobodyForgotten == Spec => []NoneForgotten
<1>1. ASSUME IInv PROVE NoneForgotten
  <2>1. TypeOK /\ OnePlace /\ HeldIsPending /\ PendingIsHeld
    BY <1>1 DEF IInv
  <2>2. PICK u : u = queue \o inFlight
    OBVIOUS
  <2>3. /\ u \in Seq(Checkpoints) /\ Distinct(u)
        /\ Elements(u) = Elements(queue) \cup Elements(inFlight)
    BY <2>1, <2>2, ConcatElements DEF TypeOK, OnePlace
  <2>4. Elements(u) \cap Elements(finished) = {}
    BY <2>1, <2>3 DEF OnePlace
  <2>5. Distinct(u \o finished) /\ Elements(u \o finished) = Held
    BY <2>1, <2>3, <2>4, ConcatElements DEF TypeOK, OnePlace, Held
  <2>6. Pipeline = u \o finished
    BY <2>2 DEF Pipeline
  <2>7. QED
    BY <2>1, <2>5, <2>6 DEF NoneForgotten, HeldIsPending, PendingIsHeld, Distinct
<1>2. QED
  BY <1>1, Invariance, PTL

(* before_controller_shutdown returns normally only when every pending     *)
(* validation has been processed, apart from those whose process died.     *)
THEOREM DrainIsComplete == Spec => []DrainedValidates
<1>1. IInv => DrainedValidates
  BY DEF IInv
<1>2. QED
  BY <1>1, Invariance, PTL
=============================================================================
