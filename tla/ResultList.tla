----------------------------- MODULE ResultList -----------------------------
(***************************************************************************)
(* The list _checkpoint_results of the checkpoint manager: how a result is *)
(* scored (_get_checkpoint_score), where it is inserted                    *)
(* (_insert_into_sorted_list) and which prefix is dropped.                 *)
(*                                                                         *)
(* CheckpointManager keeps the same results as a set and reads their order *)
(* from the key (score, report index); the properties here say that the    *)
(* list is that order, whatever scores validations change later, and       *)
(* however often scoring raised.                                           *)
(***************************************************************************)
EXTENDS Integers, Sequences, SequencesExt, FiniteSets, Filters

CONSTANTS
  Metrics,         \* values of the score attribute that are numbers
  Missing, NaN,    \* the attribute is not in the metrics; it is the float nan
  Text,            \* the attribute is something that is not numerical
  Infinity,        \* above every metric
  ScoreOrders,     \* the values of checkpoint_score_order to consider
  NumToKeep,       \* CheckpointConfig.num_to_keep
  MaxReports       \* bound on checkpoints reported

ASSUME ResultListAssumption ==
  /\ Metrics \subseteq Int /\ Infinity \in Int
  /\ Missing \notin Metrics /\ NaN \notin Metrics /\ Missing # NaN
  /\ Text \notin Metrics \cup {Missing, NaN}
  /\ \A m \in Metrics : -Infinity < m /\ m < Infinity
  /\ ScoreOrders \subseteq {"max", "min"}
  /\ NumToKeep \in Nat \ {0}
  /\ MaxReports \in Nat

VARIABLES
  config,   \* checkpoint_score_order, and whether checkpoint_score_attribute is set
  list,     \* _checkpoint_results: report index and score attribute of each
  latest,   \* report index of the latest checkpoint
  pending,  \* report indexes that await validation
  current,  \* the next report index
  closing   \* an exception of a call is ending the run

vars == <<config, list, latest, pending, current, closing>>

Values == Metrics \cup {Missing, NaN, Text}

-----------------------------------------------------------------------------
(* The attribute as a number: a missing one, or no attribute, is -inf. *)
Raw(value) == IF ~config.scored \/ value = Missing THEN -Infinity ELSE value

(* _get_checkpoint_score raises for r. *)
Unscorable(r) == config.scored /\ r.value = Text

(* In place of the score that an unscorable result does not have; an insertion *)
(* that would compare it raises (InsertRaises).                                *)
NoScore == <<-1, 0>>

(* Mutant: the order is ignored. *)
ScoreOfMaximum(r) ==
  CASE Unscorable(r) -> NoScore
    [] config.scored /\ r.value = NaN -> <<0, -Infinity>>
    [] OTHER -> <<1, Raw(r.value)>>

(* _get_checkpoint_score: (not nan, order_factor * attribute). *)
Score(r) ==
  CASE Unscorable(r) -> NoScore
    [] config.scored /\ r.value = NaN -> <<0, -Infinity>>
    [] OTHER -> <<1, (IF config.order = "max" THEN 1 ELSE -1) * Raw(r.value)>>

(* Python's > on the pairs. *)
Greater(s, t) == s[1] > t[1] \/ (s[1] = t[1] /\ s[2] > t[2])

(* Mutant: ties are left in order of insertion. *)
GoesBeforeByScore(item, r) == Greater(Score(r), Score(item))

(* The while loop of _insert_into_sorted_list stops at r. *)
GoesBefore(item, r) ==
  \/ Greater(Score(r), Score(item))
  \/ Score(r) = Score(item) /\ r.index > item.index

InsertIntoSortedList(s, item) ==
  LET i == SelectInSeq(s, LAMBDA r : GoesBefore(item, r))
  IN  IF i = 0 THEN Append(s, item) ELSE InsertAt(s, i, item)

(* The loop scores item and the results of s up to the one it stops at: it  *)
(* raises if one of these cannot be scored.  An empty list takes any item.  *)
InsertRaises(s, item) ==
  \E i \in DOMAIN s :
    /\ Unscorable(item) \/ Unscorable(s[i])
    /\ \A j \in 1..(i - 1) : ~GoesBefore(item, s[j])

(* s[: -num_to_keep] *)
WorstSlice(s) == SubSeq(s, 1, Len(s) - NumToKeep)

(* s without the results that _save_state_and_delete_old_checkpoints drops. *)
DropOld(s, spared) ==
  LET worst == {r \in ToSet(WorstSlice(s)) : r.index \notin spared}
  IN  Filter(s, ToSet(s) \ worst)

-----------------------------------------------------------------------------
Init ==
  /\ config \in [scored : BOOLEAN, order : ScoreOrders]
  /\ list = <<>>
  /\ latest = -1
  /\ pending = {}
  /\ current = 0
  /\ closing = FALSE

(* register_checkpoint *)
RegisterCheckpoint ==
  /\ current < MaxReports /\ ~closing
  /\ \E value \in Values, validation \in BOOLEAN :
       LET item == [index |-> current, value |-> value]
       IN  /\ config.scored => ~InsertRaises(list, item)
           /\ pending' = IF validation THEN pending \cup {current} ELSE pending
           /\ latest' = current
           /\ current' = current + 1
           /\ list' = DropOld(IF config.scored THEN InsertIntoSortedList(list, item)
                              ELSE Append(list, item),
                              pending' \cup {latest'})
  /\ UNCHANGED <<config, closing>>

(* register_checkpoint when the insertion raises: the new result is the      *)
(* latest, but in no list, and its report index is the next one still.       *)
RegisterRaises ==
  /\ current < MaxReports /\ ~closing /\ config.scored
  /\ \E value \in Values : InsertRaises(list, [index |-> current, value |-> value])
  /\ latest' = current
  /\ closing' = TRUE
  /\ UNCHANGED <<config, list, pending, current>>

(* A validation ended: its result leaves its place and is sorted in again. *)
Validated ==
  \E r \in ToSet(list), value \in Values :
    /\ r.index \in pending
    /\ ~InsertRaises(RemoveFirst(list, r), [r EXCEPT !.value = value])
    /\ pending' = pending \ {r.index}
    /\ list' = DropOld(InsertIntoSortedList(RemoveFirst(list, r),
                                            [r EXCEPT !.value = value]),
                       pending' \cup {latest})
    /\ UNCHANGED <<config, latest, current, closing>>

(* The same when the insertion raises: the result is not put back, and the   *)
(* call drops nothing.                                                       *)
ValidatedRaises ==
  \E r \in ToSet(list), value \in Values :
    /\ r.index \in pending
    /\ InsertRaises(RemoveFirst(list, r), [r EXCEPT !.value = value])
    /\ pending' = pending \ {r.index}
    /\ list' = RemoveFirst(list, r)
    /\ closing' = TRUE
    /\ UNCHANGED <<config, latest, current>>

(* A validation timed out or failed: the result keeps its place. *)
NotValidated ==
  \E i \in pending :
    /\ pending' = pending \ {i}
    /\ list' = DropOld(list, pending' \cup {latest})
    /\ UNCHANGED <<config, latest, current, closing>>

Next ==
  \/ RegisterCheckpoint \/ RegisterRaises
  \/ Validated \/ ValidatedRaises \/ NotValidated

Spec == Init /\ [][Next]_vars

-----------------------------------------------------------------------------
(* Properties *)

(* b follows a in the order that CheckpointManager reads from the keys. *)
Better(b, a) ==
  \/ Greater(Score(b), Score(a))
  \/ Score(b) = Score(a) /\ b.index > a.index

(***************************************************************************)
(* The slice that is dropped is exactly the results that at least          *)
(* num_to_keep others are better than, by score and, among equals, by      *)
(* report index, after any sequence of insertions, removals and            *)
(* re-insertions that _insert_into_sorted_list performs one element at a   *)
(* time: the definition CheckpointManager uses in place of the list.       *)
(***************************************************************************)
SliceIsWorst ==
  ToSet(WorstSlice(list)) =
    {r \in ToSet(list) : Cardinality({b \in ToSet(list) : Better(b, r)}) >= NumToKeep}

(***************************************************************************)
(* CheckpointConfig: the checkpoints with the highest (lowest) values are  *)
(* kept, so among results with a number a better one is never before a     *)
(* worse one.                                                              *)
(***************************************************************************)
KeepsBestValues ==
  \A i, j \in DOMAIN list :
    (config.scored /\ i < j /\ {list[i].value, list[j].value} \subseteq Metrics) =>
      IF config.order = "max" THEN list[i].value <= list[j].value
      ELSE list[i].value >= list[j].value
=============================================================================
