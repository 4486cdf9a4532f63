-------------------------- MODULE CheckpointManager --------------------------
(***************************************************************************)
(* The checkpoint book-keeping of one training run: CheckpointManager of   *)
(* ray/train/v2/_internal/execution/checkpoint/checkpoint_manager.py, the  *)
(* snapshot it writes to storage, and the checkpoint directories it        *)
(* deletes there.                                                          *)
(*                                                                         *)
(* A report or a validation result is handled by one synchronous call, but *)
(* the process may crash inside it.  The call is therefore a sequence of   *)
(* steps, one per effect on storage, that nothing but a crash interrupts:  *)
(* update the memory, write the snapshot, delete the doomed directories.   *)
(*                                                                         *)
(* _checkpoint_results is a list sorted by score and, among equals, by     *)
(* report index.  Here it is the set of its members, and the place of a    *)
(* member follows from its key; ResultList shows that the list the code    *)
(* maintains is that order.                                                *)
(*                                                                         *)
(* Besides storage, one thing can fail inside a call: the score function   *)
(* raises for a score attribute that is not a number.  It is called by the *)
(* insertion into the list, which by then has lost or not yet got the      *)
(* result, and after other attributes have been assigned.                  *)
(***************************************************************************)
EXTENDS Integers, FiniteSets

CONSTANTS
  Checkpoints,     \* checkpoint directory names
  NoCheckpoint,    \* None
  Scores,          \* what _get_checkpoint_score returns, by rank
  ScoreAttribute,  \* whether checkpoint_score_attribute is set
  NumToKeep,       \* CheckpointConfig.num_to_keep, 0 for None
  AtomicWrites,    \* whether storage replaces the snapshot atomically
  MaxReports,      \* bound on reports, with or without a checkpoint
  MaxCrashes       \* bound on crashes

ASSUME CheckpointAssumption ==
  /\ IsFiniteSet(Checkpoints)
  /\ NoCheckpoint \notin Checkpoints
  /\ Scores \subseteq Int
  /\ Scores # {}
  /\ ScoreAttribute \in BOOLEAN
  /\ NumToKeep \in Nat
  /\ AtomicWrites \in BOOLEAN
  /\ MaxReports \in Nat
  /\ MaxCrashes \in Nat

VARIABLES
  mem,       \* the attributes of the manager
  doomed,    \* results_to_delete of the call in progress
  phase,     \* where the call in progress is, or whether the process is up
  closing,   \* an exception of the manager is ending the run
  files,     \* checkpoint directories on storage
  snapshot,  \* the snapshot file: absent, torn or complete
  faults     \* crashes so far, and whether storage ever refused an operation

vars == <<mem, doomed, phase, closing, files, snapshot, faults>>

(***************************************************************************)
(* The attributes of the manager, and two of history for the run that this *)
(* memory continues.  reported: the names reported in it, which a training *)
(* function must not use again (ray.train.report: "it must be unique").    *)
(* unscored: the checkpoints whose insertion raised.                       *)
(***************************************************************************)
Fresh ==
  [results |-> {}, score |-> [c \in {} |-> 0], index |-> [c \in {} |-> 0],
   latest |-> NoCheckpoint, pending |-> {}, validated |-> {}, timedOut |-> {},
   failed |-> {}, current |-> 0, reported |-> {}, unscored |-> {}]

IsMemory(m) ==
  m \in [results : SUBSET Checkpoints, score : [m.results -> Int],
         index : [m.results -> Nat], latest : Checkpoints \cup {NoCheckpoint},
         pending : SUBSET Checkpoints, validated : SUBSET Checkpoints,
         timedOut : SUBSET Checkpoints, failed : SUBSET Checkpoints,
         current : Nat, reported : SUBSET Checkpoints, unscored : SUBSET Checkpoints]

IsSnapshot(s) ==
  /\ s \in [kind : {"absent", "torn", "complete"}, data : {s.data}]
  /\ IsMemory(s.data)

Statuses(m) == <<m.pending, m.validated, m.timedOut, m.failed>>

NoSnapshot == [kind |-> "absent", data |-> Fresh]
Torn       == [kind |-> "torn", data |-> Fresh]

Up == phase \notin {"down", "corrupted"}

-----------------------------------------------------------------------------
(* Which results are deleted. *)

(* b is after c in the list: a better score, or the same and reported later. *)
Better(m, b, c) ==
  \/ m.score[b] > m.score[c]
  \/ m.score[b] = m.score[c] /\ m.index[b] > m.index[c]

BetterResults(m, c) == {b \in m.results : Better(m, b, c)}

(* Mutant: keep one result too few. *)
WorstResultsTooMany(m) ==
  {c \in m.results : NumToKeep # 0 /\ Cardinality(BetterResults(m, c)) >= NumToKeep - 1}

(* Mutant: keep one result too many. *)
WorstResultsTooFew(m) ==
  {c \in m.results : NumToKeep # 0 /\ Cardinality(BetterResults(m, c)) > NumToKeep}

(* self._checkpoint_results[: -num_to_keep] *)
WorstResults(m) ==
  {c \in m.results : NumToKeep # 0 /\ Cardinality(BetterResults(m, c)) >= NumToKeep}

(* Mutant: the latest checkpoint is not spared. *)
ResultsToDeleteSparingPending(m) == WorstResults(m) \ m.pending

ResultsToDelete(m) == WorstResults(m) \ ({m.latest} \cup m.pending)

(* m without the results in D *)
Without(m, D) ==
  LET kept == m.results \ D
  IN  [results |-> kept, score |-> [c \in kept |-> m.score[c]],
       index |-> [c \in kept |-> m.index[c]], latest |-> m.latest,
       pending |-> m.pending, validated |-> m.validated \ D,
       timedOut |-> m.timedOut \ D, failed |-> m.failed \ D,
       current |-> m.current, reported |-> m.reported, unscored |-> m.unscored]

(* Mutant: the directories are deleted before the snapshot is written. *)
DropOldCheckpointsDeletingFirst(m) ==
  /\ mem' = Without(m, ResultsToDelete(m))
  /\ doomed' = ResultsToDelete(m)
  /\ phase' = IF doomed' = {} THEN "saving" ELSE "deleting"

(* Mutant: results are dropped from memory and left on storage. *)
DropOldCheckpointsForgetting(m) ==
  /\ mem' = Without(m, ResultsToDelete(m))
  /\ doomed' = {}
  /\ phase' = "saving"

(* _save_state_and_delete_old_checkpoints begins: m is the updated memory. *)
DropOldCheckpoints(m) ==
  /\ mem' = Without(m, ResultsToDelete(m))
  /\ doomed' = ResultsToDelete(m)
  /\ phase' = "saving"

-----------------------------------------------------------------------------
(* The snapshot. *)

(* Mutant: the snapshot omits the failed validations. *)
SaveStateWithoutFailed(m) == [kind |-> "complete", data |-> [m EXCEPT !.failed = {}]]

SaveState(m) == [kind |-> "complete", data |-> m]

(* _load_state raises if a result's directory or a looked-up name is missing. *)
CanLoad(s) ==
  /\ s.kind = "complete"
  /\ s.data.results \subseteq files
  /\ s.data.latest \in s.data.results \cup {NoCheckpoint}
  /\ s.data.pending \subseteq s.data.results

(* Mutant: the restored report index is the last one, not the next one. *)
LoadStateOffByOne(s) == [s.data EXCEPT !.current = @ - 1]

(* Statuses are restored only for names among the results. *)
LoadState(s) ==
  LET d == s.data
  IN  [results |-> d.results, score |-> d.score, index |-> d.index, latest |-> d.latest,
       pending |-> d.pending, validated |-> d.validated \cap d.results,
       timedOut |-> d.timedOut \cap d.results, failed |-> d.failed \cap d.results,
       current |-> d.current, reported |-> d.reported, unscored |-> d.unscored]

-----------------------------------------------------------------------------
Init ==
  /\ mem = Fresh
  /\ doomed = {}
  /\ phase = "idle"
  /\ closing = FALSE
  /\ files = {}
  /\ snapshot = NoSnapshot
  /\ faults = [crashes |-> 0, storage |-> FALSE]

(* The workers persist a checkpoint under a name that is new to the run. *)
Upload(c) ==
  /\ Up
  /\ c \notin mem.reported \cup files
  /\ files' = files \cup {c}
  /\ UNCHANGED <<mem, doomed, phase, closing, snapshot, faults>>

(* after_report without a checkpoint: counted, not saved. *)
ReportMetrics ==
  /\ phase = "idle" /\ ~closing
  /\ mem.current < MaxReports
  /\ mem' = [mem EXCEPT !.current = @ + 1]
  /\ UNCHANGED <<doomed, phase, closing, files, snapshot, faults>>

ScoreValues == IF ScoreAttribute THEN Scores ELSE {0}

(* The memory after a checkpoint c with score s was added to it. *)
Added(m, c, s, validation) ==
  LET R == m.results \cup {c}
  IN  [results |-> R,
       score |-> [b \in R |-> IF b = c THEN s ELSE m.score[b]],
       index |-> [b \in R |-> IF b = c THEN m.current ELSE m.index[b]],
       latest |-> c,
       pending |-> IF validation THEN m.pending \cup {c} ELSE m.pending,
       validated |-> m.validated, timedOut |-> m.timedOut, failed |-> m.failed,
       current |-> m.current + 1,
       reported |-> m.reported \cup {c}, unscored |-> m.unscored]

(* register_checkpoint *)
RegisterCheckpoint(c) ==
  /\ phase = "idle" /\ ~closing
  /\ mem.current < MaxReports
  /\ c \in files \ mem.reported
  /\ \E s \in ScoreValues, validation \in BOOLEAN :
        DropOldCheckpoints(Added(mem, c, s, validation))
  /\ UNCHANGED <<closing, files, snapshot, faults>>

(***************************************************************************)
(* _insert_into_sorted_list raises for c: it compares scores only if other *)
(* results are in the list, and only a configured attribute can fail.      *)
(***************************************************************************)
ScoringRaises(m, c) == ScoreAttribute /\ m.results \ {c} # {}

(* m once the insertion of c has raised: c is not in the list and not pending. *)
Unscored(m, c, latest) ==
  LET kept == m.results \ {c}
  IN  [results |-> kept, score |-> [b \in kept |-> m.score[b]],
       index |-> [b \in kept |-> m.index[b]], latest |-> latest,
       pending |-> m.pending \ {c}, validated |-> m.validated,
       timedOut |-> m.timedOut, failed |-> m.failed,
       current |-> m.current, reported |-> m.reported \cup {c},
       unscored |-> m.unscored \cup {c}]

(***************************************************************************)
(* register_checkpoint when the insertion raises: c is the latest already, *)
(* but it is not in the list, not pending and not counted, and nothing is  *)
(* saved.  (Its report index is recorded, and read by nobody.)  The error  *)
(* is not one the failure policy retries: the run shuts down.              *)
(***************************************************************************)
RegisterRaises(c) ==
  /\ phase = "idle" /\ ~closing
  /\ mem.current < MaxReports
  /\ c \in files \ mem.reported
  /\ ScoringRaises(mem, c)
  /\ mem' = Unscored(mem, c, c)
  /\ closing' = TRUE
  /\ UNCHANGED <<doomed, phase, files, snapshot, faults>>

(* Mutant: a timed out or failed validation stays pending. *)
StillPendingUnlessValidated(m, outcome) ==
  m.pending \ {c \in DOMAIN outcome : outcome[c] = "validated"}

StillPending(m, outcome) == m.pending \ DOMAIN outcome

(* The memory after validations ended with the given outcomes and new scores. *)
Finalized(m, outcome, score) ==
  LET of(status) == {c \in DOMAIN outcome : outcome[c] = status}
  IN  [results |-> m.results,
       score |-> [c \in m.results |-> IF c \in of("validated") THEN score[c] ELSE m.score[c]],
       index |-> m.index, latest |-> m.latest,
       pending |-> StillPending(m, outcome),
       validated |-> m.validated \cup of("validated"),
       timedOut |-> m.timedOut \cup of("timed out"),
       failed |-> m.failed \cup of("failed"),
       current |-> m.current, reported |-> m.reported, unscored |-> m.unscored]

(***************************************************************************)
(* update_checkpoints_with_validation_result: one result at a time while   *)
(* the run goes on, all that are left (or none) when it shuts down.  A     *)
(* validation need not report the score attribute again.                   *)
(***************************************************************************)
UpdateCheckpoints ==
  /\ phase = "idle"
  /\ \E done \in SUBSET mem.pending :
       \E outcome \in [done -> {"validated", "timed out", "failed"}],
          score \in [done -> ScoreValues] :
         DropOldCheckpoints(Finalized(mem, outcome, score))
  /\ UNCHANGED <<closing, files, snapshot, faults>>

(***************************************************************************)
(* The same when the insertion of a validated result with its new metrics  *)
(* raises, after the updates before it in the same call.                   *)
(***************************************************************************)
UpdateRaises ==
  /\ phase = "idle"
  /\ \E c \in mem.pending : \E done \in SUBSET (mem.pending \ {c}) :
       /\ ScoringRaises(mem, c)
       /\ \E outcome \in [done -> {"validated", "timed out", "failed"}],
             score \in [done -> ScoreValues] :
            mem' = Unscored(Finalized(mem, outcome, score), c, mem.latest)
  /\ closing' = TRUE
  /\ UNCHANGED <<doomed, phase, files, snapshot, faults>>

(* Opening the output stream truncates the file where storage is not atomic. *)
OpenSnapshot ==
  /\ phase = "saving"
  /\ ~AtomicWrites
  /\ snapshot' = Torn
  /\ phase' = "writing"
  /\ UNCHANGED <<mem, doomed, closing, files, faults>>

Written == phase = (IF AtomicWrites THEN "saving" ELSE "writing")

(* _write_state_to_storage *)
WriteState ==
  /\ Written
  /\ snapshot' = SaveState(mem)
  /\ phase' = IF doomed = {} THEN "idle" ELSE "deleting"
  /\ UNCHANGED <<mem, doomed, closing, files, faults>>

(* Storage refuses to open or to write the file, or, once it is written, to  *)
(* say what is at a path to delete: the exception ends the run, nothing more *)
(* is deleted.                                                               *)
StorageRaises ==
  /\ phase \in {"saving", "writing", "deleting"}
  /\ phase' = "idle"
  /\ doomed' = {}
  /\ closing' = TRUE
  /\ faults' = [faults EXCEPT !.storage = TRUE]
  /\ UNCHANGED <<mem, files, snapshot>>

(* delete_fs_path logs an exception of the deletion and goes on. *)
DeleteCheckpoint(c) ==
  /\ phase = "deleting"
  /\ c \in doomed
  /\ \/ files' = files \ {c} /\ UNCHANGED faults
     \/ UNCHANGED files /\ faults' = [faults EXCEPT !.storage = TRUE]
  /\ doomed' = doomed \ {c}
  /\ phase' = IF doomed' = {} THEN "idle" ELSE "deleting"
  /\ UNCHANGED <<mem, closing, snapshot>>

Crash ==
  /\ Up
  /\ faults.crashes < MaxCrashes
  /\ mem' = Fresh
  /\ doomed' = {}
  /\ phase' = "down"
  /\ closing' = FALSE
  /\ faults' = [faults EXCEPT !.crashes = @ + 1]
  /\ UNCHANGED <<files, snapshot>>

(* The run is launched again: _maybe_load_state_from_storage. *)
Restart ==
  /\ phase = "down"
  /\ \/ snapshot.kind = "absent" /\ mem' = Fresh /\ phase' = "idle"
     \/ CanLoad(snapshot) /\ mem' = LoadState(snapshot) /\ phase' = "idle"
     \/ /\ snapshot.kind # "absent" /\ ~CanLoad(snapshot)
        /\ phase' = "corrupted"
        /\ UNCHANGED mem
  /\ UNCHANGED <<doomed, closing, files, snapshot, faults>>

Next ==
  \/ \E c \in Checkpoints :
       Upload(c) \/ RegisterCheckpoint(c) \/ RegisterRaises(c) \/ DeleteCheckpoint(c)
  \/ ReportMetrics
  \/ UpdateCheckpoints
  \/ UpdateRaises
  \/ OpenSnapshot
  \/ WriteState
  \/ StorageRaises
  \/ Crash
  \/ Restart

Spec == Init /\ [][Next]_vars

-----------------------------------------------------------------------------
(* Properties *)

(* Every variable has its shape. *)
TypeOK ==
  /\ IsMemory(mem)
  /\ doomed \subseteq Checkpoints
  /\ phase \in {"idle", "saving", "writing", "deleting", "down", "corrupted"}
  /\ closing \in BOOLEAN
  /\ files \subseteq Checkpoints
  /\ IsSnapshot(snapshot)
  /\ faults \in [crashes : Nat, storage : BOOLEAN]

(***************************************************************************)
(* Wherever the process crashes, the snapshot on storage names no deleted  *)
(* checkpoint, and the next launch can restore the run from it.  The one   *)
(* exception is a run that an unscorable checkpoint ended: if that is the  *)
(* latest one, and the validations drained afterwards save the state, the  *)
(* launch looks for it among the results in vain.                          *)
(***************************************************************************)
Restorable ==
  snapshot.kind = "complete" =>
    /\ snapshot.data.results \subseteq files
    /\ snapshot.data.pending \subseteq snapshot.data.results
    /\ CanLoad(snapshot) \/ snapshot.data.latest \in snapshot.data.unscored

(***************************************************************************)
(* Every result the manager hands out is on storage: the latest one, which *)
(* restarted workers load, the pending ones, which validation tasks read,  *)
(* and the best ones; so no deletion meets a missing directory, and an     *)
(* update never finds a pending checkpoint that is not a result.  The      *)
(* latest is a result unless its own insertion raised.                     *)
(***************************************************************************)
ResultsStored ==
  Up => /\ mem.results \cup doomed \subseteq files
        /\ mem.latest \in files \cup {NoCheckpoint}
        /\ mem.latest \in mem.results \cup mem.unscored \cup {NoCheckpoint}
        /\ mem.pending \subseteq mem.results

(***************************************************************************)
(* A checkpoint has one status at a time, and only kept checkpoints have   *)
(* one: a validation that ended is never still pending, whatever was       *)
(* restored from a snapshot in between.                                    *)
(***************************************************************************)
OneStatus ==
  \A i, j \in DOMAIN Statuses(mem) :
    /\ Statuses(mem)[i] \subseteq mem.results
    /\ i # j => Statuses(mem)[i] \cap Statuses(mem)[j] = {}

(***************************************************************************)
(* The report index orders checkpoints of equal score and is what readers  *)
(* wait for: it never falls behind a kept checkpoint, and no two kept      *)
(* checkpoints share an index, across crashes too.                         *)
(***************************************************************************)
IndexIsAhead ==
  \A c \in mem.results :
    /\ mem.index[c] < mem.current
    /\ \A b \in mem.results : mem.index[b] = mem.index[c] => b = c

(***************************************************************************)
(* Between calls a crash loses nothing but the count of metrics-only       *)
(* reports: what the snapshot restores is what the manager holds.          *)
(***************************************************************************)
Durable ==
  phase = "idle" /\ ~closing /\ mem.reported # {} =>
    /\ snapshot.kind = "complete"
    /\ [LoadState(snapshot) EXCEPT !.current = mem.current] = mem
    /\ snapshot.data.current <= mem.current

(***************************************************************************)
(* num_to_keep holds of everything that is saved, and between the calls of *)
(* a run that goes on: a result beyond the best num_to_keep is kept only   *)
(* while it is the latest or awaits its validation.                        *)
(***************************************************************************)
RetentionBound ==
  Up /\ NumToKeep # 0 /\ (phase = "idle" => ~closing) =>
    Cardinality(mem.results \ (mem.pending \cup {mem.latest})) <= NumToKeep

(***************************************************************************)
(* While no crash and no storage fault intervenes, nothing that was        *)
(* dropped stays on storage between calls; what the manager has lost track *)
(* of is exactly the checkpoints whose insertion raised.                   *)
(***************************************************************************)
NoOrphans ==
  phase = "idle" /\ faults = [crashes |-> 0, storage |-> FALSE] =>
    files \cap mem.reported = mem.results \cup mem.unscored

(***************************************************************************)
(* A result whose score is settled is dropped only when num_to_keep        *)
(* survivors score at least as well, with the scores that a validation has *)
(* just changed: the cleanup never loses the best checkpoint of the run.   *)
(***************************************************************************)
BestSurvive ==
  [][phase' = "saving" =>
       \A c \in mem.results \ (mem'.results \cup mem.pending) :
         /\ NumToKeep > 0
         /\ NumToKeep <= Cardinality({b \in mem'.results : mem'.score[b] >= mem.score[c]})]_vars

(* A relaunched run is never refused for its own snapshot. *)
NeverCorrupted == phase # "corrupted"
=============================================================================
