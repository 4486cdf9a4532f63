----------------------- MODULE CheckpointManagerProofs -----------------------
(***************************************************************************)
(* Proofs about CheckpointManager, for any set of checkpoints, any scores  *)
(* and any num_to_keep, however often the process crashes and whether or   *)
(* not storage replaces the snapshot atomically.                           *)
(*                                                                         *)
(* None of the properties is inductive.  What ties them together is that   *)
(* the invariants of a memory (Consistent) hold of the copy on storage as  *)
(* well as of the live one, that both only name directories that are on    *)
(* storage, and that while directories are being deleted the two copies    *)
(* are equal: so a deletion never touches what a restart would look for.   *)
(***************************************************************************)
EXTENDS CheckpointManager, FilterProofs, FiniteSetTheorems

-----------------------------------------------------------------------------
(* The inductive invariant. *)

(* What holds of every memory, live or saved. *)
Consistent(m) ==
  /\ m.latest \in m.results \cup m.unscored \cup {NoCheckpoint}
  /\ m.results \subseteq m.reported
  /\ m.unscored \subseteq m.reported
  /\ m.unscored \cap m.results = {}
  /\ m.pending \subseteq m.results
  /\ m.validated \subseteq m.results
  /\ m.timedOut \subseteq m.results
  /\ m.failed \subseteq m.results
  /\ m.pending \cap m.validated = {}
  /\ m.pending \cap m.timedOut = {}
  /\ m.pending \cap m.failed = {}
  /\ m.validated \cap m.timedOut = {}
  /\ m.validated \cap m.failed = {}
  /\ m.timedOut \cap m.failed = {}
  /\ \A c \in m.results : m.index[c] < m.current
  /\ \A b, c \in m.results : m.index[b] = m.index[c] => b = c

(* The directories that storage must hold. *)
Backed ==
  /\ mem.results \subseteq files
  /\ doomed \subseteq files
  /\ snapshot.data.results \subseteq files
  /\ mem.unscored \subseteq files
  /\ snapshot.data.unscored \subseteq files
  /\ doomed \cap (mem.results \cup mem.unscored) = {}

(* How far the snapshot is behind the memory in each phase. *)
Synchronised ==
  /\ phase \in {"down", "corrupted"} => mem = Fresh
  /\ phase \in {"idle", "down", "corrupted"} => doomed = {}
  /\ phase = "deleting" => snapshot = SaveState(mem)
  /\ (phase = "idle" /\ ~closing /\ mem.reported # {}) =>
        /\ snapshot.kind = "complete"
        /\ [snapshot.data EXCEPT !.current = mem.current] = mem
        /\ snapshot.data.current <= mem.current

IInv ==
  /\ TypeOK
  /\ Consistent(mem)
  /\ Consistent(snapshot.data)
  /\ Backed
  /\ Synchronised

-----------------------------------------------------------------------------
(* Facts about the operators on memories. *)

(* Scores are integers, whether or not an attribute is configured. *)
LEMMA ScoresAreIntegers == ScoreValues \subseteq Int
<1>1. Scores \subseteq Int
  BY CheckpointAssumption
<1>2. {0} \subseteq Int
  OBVIOUS
<1> QED
  BY <1>1, <1>2, Zenon DEF ScoreValues

(* A new manager's memory is well formed and satisfies every invariant of one. *)
LEMMA FreshMemory == IsMemory(Fresh) /\ Consistent(Fresh)
  BY SMT DEF IsMemory, Fresh, Consistent

(***************************************************************************)
(* Dropping results that are neither the latest nor pending, as            *)
(* _save_state_and_delete_old_checkpoints does, keeps a memory well formed *)
(* and consistent.                                                         *)
(***************************************************************************)
LEMMA WithoutConsistent ==
  ASSUME NEW m, IsMemory(m), Consistent(m)
  PROVE  LET n == Without(m, ResultsToDelete(m))
         IN  IsMemory(n) /\ Consistent(n)
<1> DEFINE D == ResultsToDelete(m)
           n == Without(m, D)
<1>1. m.latest \notin D /\ D \cap m.pending = {}
  BY DEF ResultsToDelete
<1> HIDE DEF D
<1>2. IsMemory(n)
  BY SMT DEF Without, IsMemory
<1>3. Consistent(n)
  BY <1>1, SMT DEF Without, IsMemory, Consistent
<1> QED
  BY <1>2, <1>3 DEF D

(* Registering a new checkpoint keeps a memory well formed and consistent. *)
LEMMA AddedConsistent ==
  ASSUME NEW m, IsMemory(m), Consistent(m),
         NEW c \in Checkpoints, c \notin m.reported,
         NEW s \in Int, NEW validation \in BOOLEAN
  PROVE  LET n == Added(m, c, s, validation)
         IN  IsMemory(n) /\ Consistent(n)
<1> DEFINE n == Added(m, c, s, validation)
<1>1. IsMemory(n)
  BY SMT DEF Added, IsMemory
<1>2. Consistent(n)
  BY SMT DEF Added, IsMemory, Consistent
<1> QED
  BY <1>1, <1>2

(* Moving pending checkpoints to the three terminal sets keeps it so as well, *)
LEMMA MovedConsistent ==
  ASSUME NEW m, IsMemory(m), Consistent(m), NEW rescored \in [m.results -> Int],
         NEW V \in SUBSET m.pending, NEW T \in SUBSET m.pending, NEW F \in SUBSET m.pending,
         V \cap T = {}, V \cap F = {}, T \cap F = {},
         NEW n,
         n = [results |-> m.results, score |-> rescored, index |-> m.index,
              latest |-> m.latest, pending |-> m.pending \ (V \cup T \cup F),
              validated |-> m.validated \cup V, timedOut |-> m.timedOut \cup T,
              failed |-> m.failed \cup F, current |-> m.current, reported |-> m.reported,
              unscored |-> m.unscored]
  PROVE  IsMemory(n) /\ Consistent(n)
<1>1. IsMemory(n)
  BY SMT DEF IsMemory, Consistent
<1>2. Consistent(n)
  BY SMT DEF Consistent
<1> QED
  BY <1>1, <1>2

(* and that is what ending validations does. *)
LEMMA FinalizedConsistent ==
  ASSUME NEW m, IsMemory(m), Consistent(m),
         NEW done \in SUBSET m.pending,
         NEW outcome \in [done -> {"validated", "timed out", "failed"}],
         NEW score \in [done -> Int]
  PROVE  LET n == Finalized(m, outcome, score)
         IN  IsMemory(n) /\ Consistent(n)
<1> DEFINE of(status) == {c \in DOMAIN outcome : outcome[c] = status}
           rescored == [c \in m.results |-> IF c \in of("validated") THEN score[c]
                                            ELSE m.score[c]]
<1>1. /\ of("validated") \subseteq m.pending
      /\ of("timed out") \subseteq m.pending
      /\ of("failed") \subseteq m.pending
  OBVIOUS
<1>2. /\ of("validated") \cap of("timed out") = {}
      /\ of("validated") \cap of("failed") = {}
      /\ of("timed out") \cap of("failed") = {}
  OBVIOUS
<1>3. DOMAIN outcome = of("validated") \cup of("timed out") \cup of("failed")
  OBVIOUS
<1>4. rescored \in [m.results -> Int]
  <2>1. ASSUME NEW c \in m.results
        PROVE  (IF c \in of("validated") THEN score[c] ELSE m.score[c]) \in Int
    BY DEF IsMemory
  <2> QED
    BY <2>1, Zenon
<1>5. Finalized(m, outcome, score) =
        [results |-> m.results, score |-> rescored, index |-> m.index,
         latest |-> m.latest,
         pending |-> m.pending \ (of("validated") \cup of("timed out") \cup of("failed")),
         validated |-> m.validated \cup of("validated"),
         timedOut |-> m.timedOut \cup of("timed out"),
         failed |-> m.failed \cup of("failed"),
         current |-> m.current, reported |-> m.reported, unscored |-> m.unscored]
  BY <1>3, Zenon DEF Finalized, StillPending
<1> HIDE DEF of, rescored
<1> QED
  BY <1>1, <1>2, <1>4, <1>5, MovedConsistent, Zenon

(* So does losing a result, or a new checkpoint, to a score that raises. *)
LEMMA UnscoredConsistent ==
  ASSUME NEW m, IsMemory(m), Consistent(m), NEW c \in Checkpoints,
         c \notin m.validated \cup m.timedOut \cup m.failed,
         NEW latest \in {c, m.latest}
  PROVE  LET n == Unscored(m, c, latest) IN IsMemory(n) /\ Consistent(n)
<1> DEFINE n == Unscored(m, c, latest)
<1>1. IsMemory(n)
  BY SMT DEF Unscored, IsMemory
<1>2. Consistent(n)
  BY SMT DEF Unscored, IsMemory, Consistent
<1> QED
  BY <1>1, <1>2

(* Two memories with the same attributes are equal. *)
LEMMA SameMemory ==
  ASSUME NEW m, NEW n, IsMemory(m), IsMemory(n),
         m.results = n.results, m.score = n.score, m.index = n.index,
         m.latest = n.latest, m.pending = n.pending, m.validated = n.validated,
         m.timedOut = n.timedOut, m.failed = n.failed, m.current = n.current,
         m.reported = n.reported, m.unscored = n.unscored
  PROVE  m = n
  BY SMT DEF IsMemory

(* _load_state returns exactly the memory that was saved. *)
LEMMA LoadIsSaved ==
  ASSUME NEW s, IsMemory(s.data), Consistent(s.data)
  PROVE  LoadState(s) = s.data
<1> DEFINE d == s.data
<1>1. /\ d.validated \cap d.results = d.validated
      /\ d.timedOut \cap d.results = d.timedOut
      /\ d.failed \cap d.results = d.failed
  BY DEF Consistent
<1>2. LoadState(s) = [results |-> d.results, score |-> d.score, index |-> d.index,
                      latest |-> d.latest, pending |-> d.pending, validated |-> d.validated,
                      timedOut |-> d.timedOut, failed |-> d.failed,
                      current |-> d.current, reported |-> d.reported,
                      unscored |-> d.unscored]
  BY <1>1 DEF LoadState
<1> HIDE DEF d
<1>3. IsMemory(LoadState(s))
  BY <1>2, SMT DEF IsMemory, d
<1> QED
  BY <1>2, <1>3, SameMemory, SMT DEF d

-----------------------------------------------------------------------------
(* The invariant is inductive. *)

(* A call that updates the memory to m and drops old results keeps the invariant. *)
LEMMA DropPreserves ==
  ASSUME IInv, NEW m, IsMemory(m), Consistent(m), m.results \subseteq files,
         m.unscored \subseteq files, DropOldCheckpoints(m), UNCHANGED <<closing, files, snapshot, faults>>
  PROVE  IInv'
<1> DEFINE D == ResultsToDelete(m)
<1>1. mem' = Without(m, D) /\ doomed' = D /\ phase' = "saving"
  BY DEF DropOldCheckpoints
<1>2. IsMemory(mem') /\ Consistent(mem')
  BY <1>1, WithoutConsistent
<1>3. D \subseteq m.results
  BY DEF ResultsToDelete, WorstResults
<1>4. mem'.results = m.results \ D /\ mem'.unscored = m.unscored
  BY <1>1 DEF Without
<1>5. TypeOK'
  BY <1>1, <1>2, <1>3, Zenon DEF IInv, TypeOK, IsSnapshot, IsMemory
<1>6. Backed'
  BY <1>1, <1>3, <1>4 DEF IInv, Backed, Consistent
<1>7. Synchronised'
  BY <1>1 DEF Synchronised
<1> QED
  BY <1>2, <1>5, <1>6, <1>7 DEF IInv

(* Every step keeps the invariant: one case per action of the manager. *)
LEMMA Inductive == IInv /\ [Next]_vars => IInv'
<1> SUFFICES ASSUME IInv, [Next]_vars
             PROVE  IInv'
  OBVIOUS
<1>0. /\ TypeOK /\ Consistent(mem) /\ Consistent(snapshot.data) /\ Backed /\ Synchronised
      /\ IsMemory(mem) /\ IsMemory(snapshot.data) /\ IsSnapshot(snapshot)
  BY DEF IInv, TypeOK, IsSnapshot
<1>1. ASSUME NEW c \in Checkpoints, Upload(c)
      PROVE  IInv'
  <2>1. TypeOK'
    BY <1>0, <1>1 DEF Upload, TypeOK
  <2>2. Backed'
    BY <1>0, <1>1 DEF Upload, Backed
  <2>3. Synchronised'
    BY <1>0, <1>1 DEF Upload, Synchronised
  <2> QED
    BY <1>0, <1>1, <2>1, <2>2, <2>3 DEF IInv, Upload
<1>2. ASSUME NEW c \in Checkpoints, RegisterCheckpoint(c)
      PROVE  IInv'
  <2>1. PICK s \in ScoreValues, validation \in BOOLEAN :
          DropOldCheckpoints(Added(mem, c, s, validation))
    BY <1>2 DEF RegisterCheckpoint
  <2>2. s \in Int
    BY <2>1, ScoresAreIntegers
  <2>3. c \notin mem.reported /\ c \in files
    BY <1>2 DEF RegisterCheckpoint
  <2>4. LET n == Added(mem, c, s, validation) IN IsMemory(n) /\ Consistent(n)
    BY <1>0, <2>2, <2>3, AddedConsistent
  <2>5. /\ Added(mem, c, s, validation).results \subseteq files
        /\ Added(mem, c, s, validation).unscored \subseteq files
    BY <1>0, <2>3 DEF Added, Backed
  <2>6. UNCHANGED <<closing, files, snapshot, faults>>
    BY <1>2 DEF RegisterCheckpoint
  <2> QED
    BY <2>1, <2>4, <2>5, <2>6, DropPreserves, Zenon
<1>3. ASSUME NEW c \in Checkpoints, DeleteCheckpoint(c)
      PROVE  IInv'
  <2>1. /\ mem' = mem /\ snapshot' = snapshot /\ closing' = closing
        /\ doomed' = doomed \ {c} /\ c \in doomed
        /\ files' \in {files, files \ {c}}
        /\ phase' \in {"idle", "deleting"}
        /\ phase' = "idle" => doomed' = {}
        /\ phase = "deleting"
    BY <1>3 DEF DeleteCheckpoint
  <2>2. snapshot = SaveState(mem)
    BY <1>0, <2>1 DEF Synchronised
  <2>3. snapshot.kind = "complete" /\ snapshot.data = mem
    BY <2>2 DEF SaveState
  <2>4. TypeOK'
    <3>1. faults' \in [crashes : Nat, storage : BOOLEAN]
      BY <1>0, <1>3 DEF DeleteCheckpoint, TypeOK
    <3> QED
      BY <1>0, <2>1, <3>1 DEF TypeOK
  <2>5. Backed'
    BY <1>0, <2>1, <2>3 DEF Backed
  <2>6. mem.current \in Nat /\ [mem EXCEPT !.current = mem.current] = mem
    BY <1>0 DEF IsMemory
  <2>7. Synchronised'
    BY <2>1, <2>2, <2>3, <2>6 DEF Synchronised
  <2> QED
    BY <1>0, <2>1, <2>4, <2>5, <2>7 DEF IInv
<1>4. CASE ReportMetrics
  <2>1. mem' = [mem EXCEPT !.current = mem.current + 1]
    BY <1>4 DEF ReportMetrics
  <2>2. IsMemory(mem')
    BY <1>0, <2>1, SMT DEF IsMemory
  <2>3. Consistent(mem')
    BY <1>0, <2>1, SMT DEF IsMemory, Consistent
  <2>4. TypeOK'
    BY <1>0, <1>4, <2>2 DEF ReportMetrics, TypeOK
  <2>5. Backed'
    BY <1>0, <1>4, <2>1 DEF ReportMetrics, IsMemory, Backed
  <2>6. Synchronised'
    <3>1. /\ phase' = "idle" /\ doomed' = doomed /\ snapshot' = snapshot
          /\ phase = "idle" /\ ~closing
      BY <1>4 DEF ReportMetrics
    <3>2. mem'.reported = mem.reported /\ mem'.current = mem.current + 1
      BY <1>0, <2>1 DEF IsMemory
    <3>3. ASSUME mem.reported # {}
          PROVE  /\ snapshot.kind = "complete"
                 /\ [snapshot.data EXCEPT !.current = mem'.current] = mem'
                 /\ snapshot.data.current <= mem'.current
      <4>1. /\ snapshot.kind = "complete"
            /\ [snapshot.data EXCEPT !.current = mem.current] = mem
            /\ snapshot.data.current <= mem.current
        BY <1>0, <3>1, <3>3 DEF Synchronised
      <4>2. snapshot.data.current <= mem'.current
        BY <1>0, <3>2, <4>1, SMT DEF IsMemory
      <4>3. \A v : [[snapshot.data EXCEPT !.current = mem.current] EXCEPT !.current = v]
                   = [snapshot.data EXCEPT !.current = v]
        BY Zenon
      <4> QED
        BY <2>1, <3>2, <4>1, <4>2, <4>3, Zenon
    <3> QED
      BY <1>0, <3>1, <3>2, <3>3 DEF Synchronised
  <2> QED
    BY <1>0, <1>4, <2>3, <2>4, <2>5, <2>6 DEF IInv, ReportMetrics
<1>5. CASE UpdateCheckpoints
  <2>1. PICK done \in SUBSET mem.pending :
          \E outcome \in [done -> {"validated", "timed out", "failed"}],
             score \in [done -> ScoreValues] :
            DropOldCheckpoints(Finalized(mem, outcome, score))
    BY <1>5 DEF UpdateCheckpoints
  <2>2. PICK outcome \in [done -> {"validated", "timed out", "failed"}],
             score \in [done -> ScoreValues] :
          DropOldCheckpoints(Finalized(mem, outcome, score))
    BY <2>1
  <2>3. score \in [done -> Int]
    BY ScoresAreIntegers
  <2>4. LET n == Finalized(mem, outcome, score) IN IsMemory(n) /\ Consistent(n)
    BY <1>0, <2>3, FinalizedConsistent
  <2>5. /\ Finalized(mem, outcome, score).results \subseteq files
        /\ Finalized(mem, outcome, score).unscored \subseteq files
    BY <1>0 DEF Finalized, Backed
  <2>6. UNCHANGED <<closing, files, snapshot, faults>>
    BY <1>5 DEF UpdateCheckpoints
  <2> QED
    BY <2>2, <2>4, <2>5, <2>6, DropPreserves, Zenon
<1>6. CASE OpenSnapshot
  <2>1. /\ snapshot' = Torn /\ phase' = "writing"
        /\ UNCHANGED <<mem, doomed, closing, files, faults>>
    BY <1>6 DEF OpenSnapshot
  <2>2. snapshot'.kind = "torn" /\ snapshot'.data = Fresh /\ Fresh.results = {}
        /\ Fresh.unscored = {}
    BY <2>1 DEF Torn, Fresh
  <2>3. IsSnapshot(snapshot')
    BY <2>1, <2>2, FreshMemory DEF IsSnapshot, Torn
  <2>4. TypeOK'
    BY <1>0, <2>1, <2>3 DEF TypeOK
  <2>5. Backed'
    BY <1>0, <2>1, <2>2 DEF Backed
  <2>6. Synchronised'
    BY <2>1 DEF Synchronised
  <2> QED
    BY <1>0, <2>1, <2>2, <2>4, <2>5, <2>6, FreshMemory DEF IInv
<1>7. CASE WriteState
  <2>1. /\ snapshot' = SaveState(mem)
        /\ phase' \in {"idle", "deleting"}
        /\ phase' = "idle" => doomed = {}
        /\ UNCHANGED <<mem, doomed, closing, files, faults>>
    BY <1>7 DEF WriteState
  <2>2. snapshot'.kind = "complete" /\ snapshot'.data = mem
    BY <2>1 DEF SaveState
  <2>3. IsSnapshot(snapshot')
    BY <1>0, <2>1, <2>2 DEF IsSnapshot, SaveState
  <2>4. TypeOK'
    BY <1>0, <2>1, <2>3 DEF TypeOK
  <2>5. Backed'
    BY <1>0, <2>1, <2>2 DEF Backed
  <2>6. mem.current \in Nat /\ [mem EXCEPT !.current = mem.current] = mem
    BY <1>0 DEF IsMemory
  <2>7. Synchronised'
    BY <2>1, <2>2, <2>6 DEF Synchronised, SaveState
  <2> QED
    BY <1>0, <2>1, <2>2, <2>4, <2>5, <2>7 DEF IInv
<1>8. CASE StorageRaises
  <2>1. /\ phase' = "idle" /\ doomed' = {} /\ closing' = TRUE
        /\ faults' = [faults EXCEPT !.storage = TRUE]
        /\ UNCHANGED <<mem, files, snapshot>>
    BY <1>8 DEF StorageRaises
  <2>2. TypeOK'
    BY <1>0, <2>1 DEF TypeOK
  <2>3. Backed'
    BY <1>0, <2>1 DEF Backed
  <2>4. Synchronised'
    BY <2>1 DEF Synchronised
  <2> QED
    BY <1>0, <2>1, <2>2, <2>3, <2>4 DEF IInv
<1>9. CASE Crash
  <2>1. /\ mem' = Fresh /\ phase' = "down" /\ doomed' = {} /\ closing' = FALSE
        /\ faults' = [faults EXCEPT !.crashes = faults.crashes + 1]
        /\ UNCHANGED <<files, snapshot>>
    BY <1>9 DEF Crash
  <2>2. Fresh.results = {} /\ Fresh.unscored = {}
    BY DEF Fresh
  <2>3. TypeOK'
    <3>1. faults' \in [crashes : Nat, storage : BOOLEAN]
      BY <1>0, <2>1 DEF TypeOK
    <3> QED
      BY <1>0, <2>1, <3>1, FreshMemory DEF TypeOK
  <2>4. Backed'
    BY <1>0, <2>1, <2>2 DEF Backed
  <2>5. Synchronised'
    BY <2>1 DEF Synchronised
  <2> QED
    BY <1>0, <2>1, <2>3, <2>4, <2>5, FreshMemory DEF IInv
<1>10. CASE Restart
  <2>1. /\ phase = "down" /\ UNCHANGED <<doomed, closing, files, snapshot, faults>>
        /\ mem = Fresh /\ doomed = {}
    BY <1>0, <1>10 DEF Restart, Synchronised
  <2>2. \/ mem' = Fresh /\ phase' = "idle"
        \/ mem' = snapshot.data /\ phase' = "idle" /\ snapshot.kind = "complete"
        \/ mem' = Fresh /\ phase' = "corrupted"
    BY <1>0, <1>10, <2>1, LoadIsSaved DEF Restart, CanLoad
  <2>3. Fresh.results = {} /\ Fresh.reported = {} /\ Fresh.unscored = {}
    BY DEF Fresh
  <2>4. IsMemory(mem') /\ Consistent(mem')
    BY <1>0, <2>2, FreshMemory
  <2>5. TypeOK'
    BY <1>0, <2>1, <2>2, <2>4 DEF TypeOK
  <2>6. Backed'
    BY <1>0, <2>1, <2>2, <2>3 DEF Backed
  <2>7. /\ snapshot.data.current \in Nat
        /\ [snapshot.data EXCEPT !.current = snapshot.data.current] = snapshot.data
    BY <1>0 DEF IsMemory
  <2>8. Synchronised'
    BY <2>1, <2>2, <2>3, <2>7 DEF Synchronised
  <2> QED
    BY <1>0, <2>1, <2>4, <2>5, <2>6, <2>8 DEF IInv
<1>11. ASSUME NEW c \in Checkpoints, RegisterRaises(c)
       PROVE  IInv'
  <2>1. /\ mem' = Unscored(mem, c, c)
        /\ c \in files /\ c \notin mem.reported
        /\ phase = "idle" /\ closing' = TRUE
        /\ UNCHANGED <<doomed, phase, files, snapshot, faults>>
    BY <1>11 DEF RegisterRaises
  <2>2. c \notin mem.results /\ c \notin mem.validated \cup mem.timedOut \cup mem.failed
    BY <1>0, <2>1 DEF Consistent
  <2>3. IsMemory(mem') /\ Consistent(mem')
    BY <1>0, <2>1, <2>2, UnscoredConsistent
  <2>4. mem'.results = mem.results /\ mem'.unscored = mem.unscored \cup {c}
    BY <2>1, <2>2 DEF Unscored
  <2>5. doomed = {}
    BY <1>0, <2>1 DEF Synchronised
  <2>6. TypeOK'
    BY <1>0, <2>1, <2>3 DEF TypeOK
  <2>7. Backed'
    BY <1>0, <2>1, <2>4, <2>5 DEF Backed
  <2>8. Synchronised'
    BY <2>1, <2>5 DEF Synchronised
  <2> QED
    BY <1>0, <2>1, <2>3, <2>6, <2>7, <2>8 DEF IInv
<1>12. CASE UpdateRaises
  <2>1. PICK c \in mem.pending : \E done \in SUBSET (mem.pending \ {c}) :
          \E outcome \in [done -> {"validated", "timed out", "failed"}],
             score \in [done -> ScoreValues] :
            mem' = Unscored(Finalized(mem, outcome, score), c, mem.latest)
    BY <1>12 DEF UpdateRaises
  <2>2. PICK done \in SUBSET (mem.pending \ {c}) :
          \E outcome \in [done -> {"validated", "timed out", "failed"}],
             score \in [done -> ScoreValues] :
            mem' = Unscored(Finalized(mem, outcome, score), c, mem.latest)
    BY <2>1
  <2>3. PICK outcome \in [done -> {"validated", "timed out", "failed"}],
             score \in [done -> ScoreValues] :
          mem' = Unscored(Finalized(mem, outcome, score), c, mem.latest)
    BY <2>2
  <2>4. score \in [done -> Int] /\ done \in SUBSET mem.pending
    BY ScoresAreIntegers
  <2>5. PICK m : m = Finalized(mem, outcome, score)
    OBVIOUS
  <2>6. IsMemory(m) /\ Consistent(m)
    BY <1>0, <2>4, <2>5, FinalizedConsistent
  <2>7. m.results = mem.results /\ m.unscored = mem.unscored
    BY <2>5 DEF Finalized
  <2>8. c \in Checkpoints /\ c \in m.results /\ c \in m.pending /\ mem.latest = m.latest
    <3>1. c \notin DOMAIN outcome
      OBVIOUS
    <3> QED
      BY <1>0, <2>5, <2>7, <3>1 DEF Consistent, IsMemory, Finalized, StillPending
  <2>9. c \notin m.validated \cup m.timedOut \cup m.failed
    BY <2>6, <2>8 DEF Consistent
  <2>10. IsMemory(mem') /\ Consistent(mem')
    BY <2>3, <2>5, <2>6, <2>8, <2>9, UnscoredConsistent
  <2>11. mem'.results = mem.results \ {c} /\ mem'.unscored = mem.unscored \cup {c}
    BY <2>3, <2>5, <2>7 DEF Unscored
  <2>12. /\ phase = "idle" /\ closing' = TRUE /\ doomed = {} /\ c \in files
         /\ UNCHANGED <<doomed, phase, files, snapshot, faults>>
    BY <1>0, <1>12, <2>7, <2>8 DEF UpdateRaises, Synchronised, Backed
  <2>13. TypeOK'
    BY <1>0, <2>10, <2>12 DEF TypeOK
  <2>14. Backed'
    BY <1>0, <2>11, <2>12 DEF Backed
  <2>15. Synchronised'
    BY <2>12 DEF Synchronised
  <2> QED
    BY <1>0, <2>10, <2>12, <2>13, <2>14, <2>15 DEF IInv
<1>13. CASE UNCHANGED vars
  BY <1>0, <1>13 DEF vars, IInv, TypeOK, Backed, Synchronised
<1> QED
  BY <1>1, <1>2, <1>3, <1>4, <1>5, <1>6, <1>7, <1>8, <1>9, <1>10, <1>11, <1>12, <1>13
     DEF Next

(* It holds of a manager that finds no snapshot. *)
LEMMA InitInvariant == Init => IInv
<1> SUFFICES ASSUME Init
           PROVE  IInv
  OBVIOUS
<1>1. /\ mem = Fresh /\ doomed = {} /\ phase = "idle" /\ closing = FALSE /\ files = {}
      /\ snapshot = NoSnapshot /\ faults = [crashes |-> 0, storage |-> FALSE]
  BY DEF Init
<1>2. snapshot.kind = "absent" /\ snapshot.data = Fresh
  BY <1>1 DEF NoSnapshot
<1>3. Fresh.results = {} /\ Fresh.reported = {} /\ Fresh.unscored = {}
  BY DEF Fresh
<1>4. IsSnapshot(snapshot)
  BY <1>1, <1>2, FreshMemory DEF IsSnapshot, NoSnapshot
<1>5. TypeOK
  BY <1>1, <1>4, FreshMemory DEF TypeOK
<1>6. Backed
  BY <1>1, <1>2, <1>3 DEF Backed
<1>7. Synchronised
  BY <1>1, <1>3 DEF Synchronised
<1> QED
  BY <1>1, <1>2, <1>5, <1>6, <1>7, FreshMemory DEF IInv

(***************************************************************************)
(* The invariant holds in every reachable state, crashes and restarts      *)
(* included.                                                               *)
(***************************************************************************)
THEOREM Invariance == Spec => []IInv
  BY InitInvariant, Inductive, PTL DEF Spec

-----------------------------------------------------------------------------
(* The properties of CheckpointManager that follow. *)

(* The manager's attributes keep their shape through restores. *)
THEOREM TypeCorrectness == Spec => []TypeOK
<1>1. IInv => TypeOK
  BY DEF IInv
<1> QED
  BY <1>1, Invariance, PTL

(***************************************************************************)
(* A complete snapshot can be loaded: _load_state finds every directory    *)
(* and every name it looks up, wherever the process crashed, unless the    *)
(* latest checkpoint is one whose score raised.                            *)
(***************************************************************************)
THEOREM SnapshotRestorable == Spec => []Restorable
<1>1. IInv => Restorable
  BY DEF IInv, Consistent, Backed, Restorable, CanLoad
<1> QED
  BY <1>1, Invariance, PTL

(* Every result that the manager hands out, or is about to delete, exists. *)
THEOREM ResultsAreStored == Spec => []ResultsStored
<1>1. IInv => ResultsStored
  BY DEF IInv, Consistent, Backed, ResultsStored
<1> QED
  BY <1>1, Invariance, PTL

(* The four validation statuses exclude each other. *)
THEOREM StatusesExclusive == Spec => []OneStatus
<1>1. ASSUME IInv
      PROVE  OneStatus
  <2>1. DOMAIN Statuses(mem) = {1, 2, 3, 4}
    BY DEF Statuses
  <2>2. /\ Statuses(mem)[1] = mem.pending /\ Statuses(mem)[2] = mem.validated
        /\ Statuses(mem)[3] = mem.timedOut /\ Statuses(mem)[4] = mem.failed
    BY DEF Statuses
  <2> QED
    BY <1>1, <2>1, <2>2 DEF IInv, Consistent, OneStatus
<1> QED
  BY <1>1, Invariance, PTL

(* Report indexes are unique and below the next one, across restarts. *)
THEOREM IndexAhead == Spec => []IndexIsAhead
<1>1. IInv => IndexIsAhead
  BY DEF IInv, Consistent, IndexIsAhead
<1> QED
  BY <1>1, Invariance, PTL

(***************************************************************************)
(* Between calls the snapshot restores exactly the manager's memory, but   *)
(* for the count of reports without a checkpoint.                          *)
(***************************************************************************)
THEOREM Durability == Spec => []Durable
<1>1. ASSUME IInv
      PROVE  Durable
  <2>1. LoadState(snapshot) = snapshot.data
    BY <1>1, LoadIsSaved DEF IInv, TypeOK, IsSnapshot
  <2> QED
    BY <1>1, <2>1 DEF IInv, Synchronised, Durable
<1> QED
  BY <1>1, Invariance, PTL

(* What a launch found when it refused the snapshot. *)
LatestUnscored == snapshot.data.latest \in snapshot.data.unscored

(***************************************************************************)
(* Where storage replaces the snapshot atomically, a relaunch refuses it   *)
(* only if its latest checkpoint is one whose score raised: a truncated    *)
(* file and an unscorable latest checkpoint are the only sources of a      *)
(* corrupted run.                                                          *)
(***************************************************************************)
THEOREM AtomicNeverCorrupted ==
  ASSUME AtomicWrites
  PROVE  Spec => [](NeverCorrupted \/ LatestUnscored)
<1> DEFINE J == IInv /\ snapshot.kind # "torn" /\ (phase # "corrupted" \/ LatestUnscored)
<1>1. Init => J
  <2>1. Init => IInv
    BY InitInvariant
  <2> QED
    BY <2>1 DEF Init, NoSnapshot
<1>2. J /\ [Next]_vars => J'
  <2> SUFFICES ASSUME J, [Next]_vars
               PROVE  snapshot'.kind # "torn" /\ (phase' # "corrupted" \/ LatestUnscored')
    BY Inductive
  <2>1. CASE Restart
    <3>1. snapshot.kind \in {"absent", "complete"}
      BY DEF IInv, TypeOK, IsSnapshot
    <3>2. snapshot.kind = "complete" => CanLoad(snapshot) \/ LatestUnscored
      BY DEF IInv, Consistent, Backed, CanLoad, LatestUnscored
    <3>3. snapshot' = snapshot
      BY <2>1 DEF Restart
    <3> QED
      BY <2>1, <3>1, <3>2, <3>3 DEF Restart, LatestUnscored
  <2>2. CASE WriteState
    BY <2>2 DEF WriteState, SaveState
  <2>3. CASE OpenSnapshot
    BY <2>3 DEF OpenSnapshot
  <2>4. CASE \E c \in Checkpoints :
               Upload(c) \/ RegisterCheckpoint(c) \/ RegisterRaises(c) \/ DeleteCheckpoint(c)
    BY <2>4 DEF Upload, Up, RegisterCheckpoint, RegisterRaises, DropOldCheckpoints,
                DeleteCheckpoint
  <2>5. CASE ReportMetrics \/ UpdateCheckpoints \/ UpdateRaises \/ StorageRaises \/ Crash
    BY <2>5 DEF ReportMetrics, UpdateCheckpoints, UpdateRaises, DropOldCheckpoints,
                StorageRaises, Crash
  <2>6. CASE UNCHANGED vars
    BY <2>6 DEF vars, LatestUnscored
  <2> QED
    BY <2>1, <2>2, <2>3, <2>4, <2>5, <2>6 DEF Next
<1>3. J => NeverCorrupted \/ LatestUnscored
  BY DEF NeverCorrupted
<1> QED
  BY <1>1, <1>2, <1>3, PTL DEF Spec

-----------------------------------------------------------------------------
(* Which results are kept: ranks in a finite total order. *)

Rank(m, c) == Cardinality(BetterResults(m, c))

(* The results that _checkpoint_results[: -num_to_keep] leaves. *)
Top(m) == m.results \ WorstResults(m)

(* The list's order is strict and total. *)
LEMMA BetterOrder ==
  ASSUME NEW m, IsMemory(m), Consistent(m),
         NEW b \in m.results, NEW c \in m.results, NEW d \in m.results
  PROVE  /\ ~Better(m, b, b)
         /\ Better(m, b, c) /\ Better(m, c, d) => Better(m, b, d)
         /\ b # c => Better(m, b, c) \/ Better(m, c, b)
<1>1. /\ m.score[b] \in Int /\ m.score[c] \in Int /\ m.score[d] \in Int
      /\ m.index[b] \in Int /\ m.index[c] \in Int /\ m.index[d] \in Int
  BY DEF IsMemory
<1>2. m.index[b] = m.index[c] => b = c
  BY DEF Consistent
<1>3. QED
  BY <1>1, <1>2 DEF Better

(* Results are finitely many. *)
LEMMA FiniteResults ==
  ASSUME NEW m, IsMemory(m), NEW S \in SUBSET m.results
  PROVE  IsFiniteSet(S) /\ Cardinality(S) \in Nat
<1>1. S \subseteq Checkpoints
  BY DEF IsMemory
<1>2. QED
  BY <1>1, CheckpointAssumption, FS_Subset, FS_CardinalityType

(* A better result has a smaller rank. *)
LEMMA BetterRank ==
  ASSUME NEW m, IsMemory(m), Consistent(m), NEW b \in m.results, NEW c \in m.results,
         Better(m, b, c)
  PROVE  Rank(m, b) \in Nat /\ Rank(m, c) \in Nat /\ Rank(m, b) < Rank(m, c)
<1> DEFINE B == BetterResults(m, b)
           C == BetterResults(m, c)
<1>1. B \subseteq C /\ b \in C /\ b \notin B /\ B \subseteq m.results /\ C \subseteq m.results
  BY BetterOrder DEF BetterResults
<1> HIDE DEF B, C
<1>2. IsFiniteSet(C) /\ Cardinality(B) \in Nat /\ Cardinality(C) \in Nat
  BY <1>1, FiniteResults
<1>3. Cardinality(B) <= Cardinality(C) /\ (Cardinality(C) = Cardinality(B) => C = B)
  BY <1>1, <1>2, FS_Subset
<1>4. Cardinality(B) < Cardinality(C)
  BY <1>1, <1>2, <1>3
<1>5. QED
  BY <1>2, <1>4 DEF Rank, B, C

(* At most num_to_keep results remain: all but one are better than the worst of them. *)
LEMMA TopIsSmall ==
  ASSUME NEW m, IsMemory(m), Consistent(m), NumToKeep # 0
  PROVE  Cardinality(Top(m)) <= NumToKeep
<1>1. NumToKeep \in Nat \ {0}
  BY CheckpointAssumption
<1>2. ASSUME NEW c \in Top(m)
      PROVE  c \in m.results /\ Rank(m, c) \in Nat /\ Rank(m, c) < NumToKeep
  <2>1. c \in m.results /\ ~(Rank(m, c) >= NumToKeep)
    BY <1>1 DEF Top, WorstResults, Rank
  <2>2. Rank(m, c) \in Nat
    BY FiniteResults DEF Rank, BetterResults
  <2>3. QED
    BY <1>1, <2>1, <2>2
<1>3. CASE Top(m) = {}
  BY <1>1, <1>3, FS_EmptySet
<1>4. CASE Top(m) # {}
  <2> DEFINE S == {NumToKeep - Rank(m, c) : c \in Top(m)}
  <2>1. S \subseteq Nat /\ S # {}
    BY <1>1, <1>2, <1>4
  <2>2. PICK w \in Top(m) : \A c \in Top(m) : NumToKeep - Rank(m, w) <= NumToKeep - Rank(m, c)
    <3>1. PICK n \in S : \A k \in S : n <= k
      <4> HIDE DEF S
      <4>1. QED
        BY <2>1, LeastNumber
    <3>2. QED
      BY <3>1
  <2>3. ASSUME NEW c \in Top(m), c # w PROVE c \in BetterResults(m, w)
    <3>1. Rank(m, c) <= Rank(m, w) /\ Rank(m, c) \in Nat /\ Rank(m, w) \in Nat
      BY <1>1, <1>2, <2>2
    <3>2. ~Better(m, w, c)
      <4>1. ~(Rank(m, w) < Rank(m, c))
        BY <3>1
      <4>2. QED
        BY <1>2, <4>1, BetterRank
    <3>3. QED
      BY <1>2, <2>3, <3>2, BetterOrder DEF BetterResults
  <2>4. PICK B : B = BetterResults(m, w)
    OBVIOUS
  <2>5. /\ IsFiniteSet(B) /\ Cardinality(B) \in Nat /\ Cardinality(B) < NumToKeep
    <3>1. B \subseteq m.results
      BY <2>4 DEF BetterResults
    <3>2. QED
      BY <1>2, <2>4, <3>1, FiniteResults DEF Rank
  <2>6. IsFiniteSet(B \cup {w}) /\ Cardinality(B \cup {w}) <= Cardinality(B) + 1
    <3>1. w \in B => B \cup {w} = B
      OBVIOUS
    <3>2. w \notin B => Cardinality(B \cup {w}) = Cardinality(B) + 1
      BY <2>5, FS_AddElement
    <3>3. IsFiniteSet(B \cup {w})
      BY <2>5, FS_AddElement
    <3>4. CASE w \in B
      <4>1. Cardinality(B \cup {w}) = Cardinality(B)
        BY <3>1, <3>4
      <4>2. QED
        BY <2>5, <3>3, <4>1
    <3>5. CASE w \notin B
      BY <2>5, <3>2, <3>3, <3>5
    <3>6. QED
      BY <3>4, <3>5
  <2>7. Cardinality(Top(m)) <= Cardinality(B \cup {w}) /\ Cardinality(Top(m)) \in Nat
    <3>1. Top(m) \subseteq B \cup {w} /\ Top(m) \subseteq m.results
      BY <2>3, <2>4 DEF Top
    <3>2. Cardinality(Top(m)) <= Cardinality(B \cup {w})
      BY <2>6, <3>1, FS_Subset
    <3>3. QED
      BY <3>1, <3>2, FiniteResults
  <2>8. QED
    <3>1. Cardinality(B \cup {w}) \in Nat
      BY <2>6, FS_CardinalityType
    <3>2. QED
      BY <1>1, <2>5, <2>6, <2>7, <3>1
<1>5. QED
  BY <1>3, <1>4

(***************************************************************************)
(* A result in the slice is worse than all that remain, and at least       *)
(* num_to_keep remain: those better than the best of the slice.            *)
(***************************************************************************)
LEMMA TopIsBetter ==
  ASSUME NEW m, IsMemory(m), Consistent(m), NEW c \in WorstResults(m)
  PROVE  /\ NumToKeep > 0 /\ NumToKeep <= Cardinality(Top(m))
         /\ \A b \in Top(m) : m.score[b] >= m.score[c]
<1>1. NumToKeep \in Nat \ {0} /\ c \in m.results
  BY CheckpointAssumption DEF WorstResults
<1>2. ASSUME NEW w \in WorstResults(m)
      PROVE  w \in m.results /\ Rank(m, w) \in Nat /\ Rank(m, w) >= NumToKeep
  BY FiniteResults DEF WorstResults, Rank, BetterResults
<1>3. ASSUME NEW b \in Top(m)
      PROVE  b \in m.results /\ Rank(m, b) \in Nat /\ Rank(m, b) < NumToKeep
  <2>1. b \in m.results /\ ~(Rank(m, b) >= NumToKeep)
    BY <1>1 DEF Top, WorstResults, Rank
  <2>2. Rank(m, b) \in Nat
    BY FiniteResults DEF Rank, BetterResults
  <2>3. QED
    BY <1>1, <2>1, <2>2
<1>4. ASSUME NEW b \in Top(m) PROVE m.score[b] >= m.score[c]
  <2>1. b \in m.results /\ b # c
    BY <1>3 DEF Top
  <2>2. ~(Rank(m, c) < Rank(m, b))
    BY <1>1, <1>2, <1>3
  <2>3. Better(m, b, c)
    BY <1>1, <2>1, <2>2, BetterOrder, BetterRank
  <2>4. m.score[b] \in Int /\ m.score[c] \in Int
    BY <1>1, <2>1 DEF IsMemory
  <2>5. QED
    BY <2>3, <2>4 DEF Better
<1>5. NumToKeep <= Cardinality(Top(m))
  <2> DEFINE S == {Rank(m, w) : w \in WorstResults(m)}
  <2>1. S \subseteq Nat /\ S # {}
    BY <1>2
  <2>2. PICK w \in WorstResults(m) : \A v \in WorstResults(m) : Rank(m, w) <= Rank(m, v)
    <3>1. PICK n \in S : \A k \in S : n <= k
      <4> HIDE DEF S
      <4>1. QED
        BY <2>1, LeastNumber
    <3>2. QED
      BY <3>1
  <2>3. ASSUME NEW b \in BetterResults(m, w) PROVE b \in Top(m)
    <3>1. b \in m.results /\ Better(m, b, w)
      BY DEF BetterResults
    <3>2. Rank(m, b) \in Nat /\ Rank(m, w) \in Nat /\ Rank(m, b) < Rank(m, w)
      BY <1>2, <3>1, BetterRank
    <3>3. ~(Rank(m, w) <= Rank(m, b))
      BY <3>2
    <3>4. QED
      BY <2>2, <3>1, <3>3 DEF Top
  <2>4. Rank(m, w) <= Cardinality(Top(m)) /\ Cardinality(Top(m)) \in Nat
    <3>1. BetterResults(m, w) \subseteq Top(m) /\ Top(m) \subseteq m.results
      BY <2>3 DEF Top
    <3>2. IsFiniteSet(Top(m)) /\ Cardinality(Top(m)) \in Nat
      BY <3>1, FiniteResults
    <3>3. QED
      BY <3>1, <3>2, FS_Subset DEF Rank
  <2>5. QED
    BY <1>1, <1>2, <2>4
<1>6. QED
  BY <1>1, <1>4, <1>5

-----------------------------------------------------------------------------
(* num_to_keep and what a call leaves behind. *)

(* No more results than num_to_keep apart from those that are spared. *)
Retained(m) ==
  NumToKeep # 0 => Cardinality(m.results \ (m.pending \cup {m.latest})) <= NumToKeep

(* Dropping old results restores the bound. *)
LEMMA WithoutRetained ==
  ASSUME NEW m, IsMemory(m), Consistent(m)
  PROVE  Retained(Without(m, ResultsToDelete(m)))
<1> SUFFICES ASSUME NumToKeep # 0
             PROVE  Cardinality((m.results \ ResultsToDelete(m))
                                  \ (m.pending \cup {m.latest})) <= NumToKeep
  BY DEF Retained, Without
<1>1. PICK K : K = (m.results \ ResultsToDelete(m)) \ (m.pending \cup {m.latest})
  OBVIOUS
<1>2. K \subseteq Top(m) /\ Top(m) \subseteq m.results
  BY <1>1 DEF ResultsToDelete, Top
<1>3. /\ IsFiniteSet(Top(m)) /\ Cardinality(Top(m)) \in Nat /\ Cardinality(K) \in Nat
      /\ Cardinality(K) <= Cardinality(Top(m))
  BY <1>2, FiniteResults, FS_Subset
<1>4. Cardinality(Top(m)) <= NumToKeep
  BY TopIsSmall
<1>5. QED
  BY <1>1, <1>3, <1>4, CheckpointAssumption

(* The memory that a call drops old results from. *)
LEMMA CallMemory ==
  ASSUME IInv,
         (\E c \in Checkpoints : RegisterCheckpoint(c)) \/ UpdateCheckpoints
  PROVE  \E m : /\ IsMemory(m) /\ Consistent(m) /\ DropOldCheckpoints(m)
                /\ phase = "idle" /\ UNCHANGED <<closing, files, snapshot, faults>>
                /\ mem.results \subseteq m.results /\ mem.reported \subseteq m.reported
                /\ m.results \ mem.results = m.reported \ mem.reported
                /\ m.reported \ mem.reported \subseteq files /\ m.unscored = mem.unscored
                /\ \A c \in mem.results \ mem.pending : m.score[c] = mem.score[c]
<1>1. IsMemory(mem) /\ Consistent(mem)
  BY DEF IInv, TypeOK
<1>2. ASSUME NEW c \in Checkpoints, RegisterCheckpoint(c)
      PROVE  \E m : /\ IsMemory(m) /\ Consistent(m) /\ DropOldCheckpoints(m)
                    /\ phase = "idle" /\ UNCHANGED <<closing, files, snapshot, faults>>
                    /\ mem.results \subseteq m.results /\ mem.reported \subseteq m.reported
                    /\ m.results \ mem.results = m.reported \ mem.reported
                    /\ m.reported \ mem.reported \subseteq files /\ m.unscored = mem.unscored
                    /\ \A d \in mem.results \ mem.pending : m.score[d] = mem.score[d]
  <2>1. PICK s \in ScoreValues, validation \in BOOLEAN :
          DropOldCheckpoints(Added(mem, c, s, validation))
    BY <1>2 DEF RegisterCheckpoint
  <2>2. s \in Int /\ c \notin mem.reported /\ c \in files /\ phase = "idle"
        /\ UNCHANGED <<closing, files, snapshot, faults>>
    BY <1>2, <2>1, ScoresAreIntegers DEF RegisterCheckpoint
  <2>3. PICK m : m = Added(mem, c, s, validation)
    OBVIOUS
  <2>4. IsMemory(m) /\ Consistent(m)
    BY <1>1, <2>2, <2>3, AddedConsistent
  <2>5. c \notin mem.results
    BY <1>1, <2>2 DEF Consistent
  <2>6. /\ m.results = mem.results \cup {c} /\ m.reported = mem.reported \cup {c}
        /\ m.unscored = mem.unscored
        /\ \A d \in mem.results : m.score[d] = mem.score[d]
    BY <2>3, <2>5 DEF Added
  <2>7. QED
    BY <2>1, <2>2, <2>3, <2>4, <2>5, <2>6
<1>3. CASE UpdateCheckpoints
  <2>1. PICK done \in SUBSET mem.pending :
          \E outcome \in [done -> {"validated", "timed out", "failed"}],
             score \in [done -> ScoreValues] :
            DropOldCheckpoints(Finalized(mem, outcome, score))
    BY <1>3 DEF UpdateCheckpoints
  <2>2. PICK outcome \in [done -> {"validated", "timed out", "failed"}],
             score \in [done -> ScoreValues] :
          DropOldCheckpoints(Finalized(mem, outcome, score))
    BY <2>1
  <2>3. score \in [done -> Int]
    BY ScoresAreIntegers
  <2>4. PICK m : m = Finalized(mem, outcome, score)
    OBVIOUS
  <2>5. IsMemory(m) /\ Consistent(m)
    BY <1>1, <2>3, <2>4, FinalizedConsistent
  <2>6. /\ m.results = mem.results /\ m.reported = mem.reported
        /\ m.unscored = mem.unscored
        /\ \A c \in mem.results \ mem.pending : m.score[c] = mem.score[c]
    BY <2>4 DEF Finalized
  <2>7. phase = "idle" /\ UNCHANGED <<closing, files, snapshot, faults>>
    BY <1>3 DEF UpdateCheckpoints
  <2>8. QED
    BY <2>2, <2>4, <2>5, <2>6, <2>7
<1>4. QED
  BY <1>2, <1>3

(* The bound holds of the memory, once a call has not ended with an exception, *)
(* and of what a restart would load.                                           *)
Bounded ==
  /\ (phase = "idle" /\ closing) \/ Retained(mem)
  /\ Retained(snapshot.data)

(* A new manager has nothing to drop. *)
LEMMA FreshRetained == Retained(Fresh)
<1>1. Fresh.results \ (Fresh.pending \cup {Fresh.latest}) = {}
  BY DEF Fresh
<1>2. QED
  BY <1>1, FS_EmptySet, CheckpointAssumption DEF Retained

(* Every step keeps the bound. *)
LEMMA BoundedInductive == IInv /\ Bounded /\ [Next]_vars => Bounded'
<1> SUFFICES ASSUME IInv, Bounded, [Next]_vars PROVE Bounded'
  OBVIOUS
<1>1. CASE (\E c \in Checkpoints : RegisterCheckpoint(c)) \/ UpdateCheckpoints
  <2>1. PICK m : /\ IsMemory(m) /\ Consistent(m) /\ DropOldCheckpoints(m)
                 /\ snapshot' = snapshot
    BY <1>1, CallMemory
  <2>2. QED
    BY <2>1, WithoutRetained DEF Bounded, DropOldCheckpoints
<1>2. CASE \E c \in Checkpoints : Upload(c) \/ DeleteCheckpoint(c)
  BY <1>2 DEF Bounded, Upload, DeleteCheckpoint
<1>3. CASE ReportMetrics
  <2>1. /\ mem'.results = mem.results /\ mem'.pending = mem.pending /\ mem'.latest = mem.latest
        /\ snapshot' = snapshot /\ ~closing
    BY <1>3 DEF ReportMetrics, IInv, TypeOK, IsMemory
  <2>2. QED
    BY <2>1 DEF Bounded, Retained
<1>4. CASE OpenSnapshot
  BY <1>4, FreshRetained DEF Bounded, OpenSnapshot, Torn
<1>5. CASE WriteState
  BY <1>5 DEF Bounded, WriteState, Written, SaveState
<1>6. CASE StorageRaises
  BY <1>6 DEF Bounded, StorageRaises
<1>7. CASE Crash
  BY <1>7, FreshRetained DEF Bounded, Crash
<1>8. CASE Restart
  <2>1. mem' \in {Fresh, mem, LoadState(snapshot)} /\ snapshot' = snapshot
    BY <1>8 DEF Restart
  <2>2. LoadState(snapshot) = snapshot.data
    BY LoadIsSaved DEF IInv, TypeOK, IsSnapshot
  <2>3. mem' = mem => mem = Fresh
    BY <1>8 DEF Restart, IInv, Synchronised
  <2>4. QED
    BY <2>1, <2>2, <2>3, FreshRetained DEF Bounded
<1>9. CASE UpdateRaises \/ \E c \in Checkpoints : RegisterRaises(c)
  BY <1>9 DEF Bounded, UpdateRaises, RegisterRaises
<1>10. CASE UNCHANGED vars
  BY <1>10 DEF Bounded, vars
<1>11. QED
  BY <1>1, <1>2, <1>3, <1>4, <1>5, <1>6, <1>7, <1>8, <1>9, <1>10 DEF Next

(***************************************************************************)
(* _save_state_and_delete_old_checkpoints keeps num_to_keep: no more       *)
(* results are saved, or kept between the calls of a run that goes on, but *)
(* for the latest and those that await their validation, whatever was      *)
(* restored.                                                               *)
(***************************************************************************)
THEOREM RetentionHolds == Spec => []RetentionBound
<1>1. Init => Bounded
  BY FreshRetained DEF Init, NoSnapshot, Bounded
<1>2. Bounded => RetentionBound
  BY DEF Bounded, Retained, RetentionBound
<1>3. QED
  BY <1>1, <1>2, BoundedInductive, Invariance, PTL DEF Spec

(* Without faults storage holds what the manager knows, lost or is about to delete. *)
Tidy ==
  faults = [crashes |-> 0, storage |-> FALSE] =>
    Up /\ files \cap mem.reported = mem.results \cup mem.unscored \cup doomed

(* Every step without a fault keeps storage tidy. *)
LEMMA TidyInductive == IInv /\ Tidy /\ [Next]_vars => Tidy'
<1> SUFFICES ASSUME IInv, Tidy, [Next]_vars,
                    faults' = [crashes |-> 0, storage |-> FALSE]
             PROVE  Up' /\ files' \cap mem'.reported = mem'.results \cup mem'.unscored \cup doomed'
  BY DEF Tidy
<1>1. IsMemory(mem) /\ Backed /\ Synchronised /\ faults \in [crashes : Nat, storage : BOOLEAN]
  BY DEF IInv, TypeOK
<1>2. ASSUME UNCHANGED faults
      PROVE  Up /\ files \cap mem.reported = mem.results \cup mem.unscored \cup doomed
  BY <1>2 DEF Tidy
<1>3. CASE (\E c \in Checkpoints : RegisterCheckpoint(c)) \/ UpdateCheckpoints
  <2>1. PICK m : /\ DropOldCheckpoints(m) /\ phase = "idle" /\ UNCHANGED <<files, faults>>
                 /\ mem.results \subseteq m.results /\ mem.reported \subseteq m.reported
                 /\ m.results \ mem.results = m.reported \ mem.reported
                 /\ m.reported \ mem.reported \subseteq files /\ m.unscored = mem.unscored
    BY <1>3, CallMemory
  <2>2. doomed = {} /\ files \cap mem.reported = mem.results \cup mem.unscored
    BY <1>1, <1>2, <2>1 DEF Synchronised
  <2>3. files \cap m.reported = m.results \cup m.unscored
    BY <2>1, <2>2
  <2>4. /\ mem'.reported = m.reported /\ mem'.unscored = m.unscored /\ phase' = "saving"
        /\ mem'.results = m.results \ ResultsToDelete(m) /\ doomed' = ResultsToDelete(m)
    BY <2>1 DEF DropOldCheckpoints, Without
  <2>5. ResultsToDelete(m) \subseteq m.results
    BY DEF ResultsToDelete, WorstResults
  <2>6. QED
    BY <2>1, <2>3, <2>4, <2>5 DEF Up
<1>4. ASSUME NEW c \in Checkpoints, Upload(c)
      PROVE  Up' /\ files' \cap mem'.reported = mem'.results \cup mem'.unscored \cup doomed'
  BY <1>2, <1>4 DEF Upload, Up
<1>5. ASSUME NEW c \in Checkpoints, DeleteCheckpoint(c)
      PROVE  Up' /\ files' \cap mem'.reported = mem'.results \cup mem'.unscored \cup doomed'
  <2>1. faults'.storage = FALSE
    OBVIOUS
  <2>2. files' = files \ {c} /\ UNCHANGED <<faults, mem>> /\ doomed' = doomed \ {c}
        /\ phase' \in {"idle", "deleting"} /\ c \in doomed
    <3>1. [faults EXCEPT !.storage = TRUE].storage = TRUE
      BY <1>1
    <3>2. QED
      BY <1>5, <2>1, <3>1 DEF DeleteCheckpoint
  <2>3. QED
    BY <1>1, <1>2, <2>2 DEF Up, Backed
<1>6. CASE ReportMetrics
  <2>1. /\ mem'.results = mem.results /\ mem'.reported = mem.reported
        /\ mem'.unscored = mem.unscored
        /\ UNCHANGED <<doomed, phase, files, faults>>
    BY <1>1, <1>6 DEF ReportMetrics, IsMemory
  <2>2. QED
    BY <1>2, <2>1 DEF Up
<1>7. CASE OpenSnapshot \/ WriteState
  BY <1>2, <1>7 DEF OpenSnapshot, WriteState, Up
<1>8. ~StorageRaises
  BY <1>1 DEF StorageRaises
<1>9. ~Crash
  BY <1>1 DEF Crash
<1>10. ~Restart
  BY <1>2 DEF Restart, Up
<1>11. ASSUME NEW c \in Checkpoints, RegisterRaises(c)
       PROVE  Up' /\ files' \cap mem'.reported = mem'.results \cup mem'.unscored \cup doomed'
  <2>1. /\ mem'.results = mem.results /\ mem'.reported = mem.reported \cup {c}
        /\ mem'.unscored = mem.unscored \cup {c} /\ c \in files
        /\ UNCHANGED <<doomed, phase, files, faults>>
    BY <1>11 DEF RegisterRaises, Unscored, IInv, Consistent
  <2>2. QED
    BY <1>2, <2>1 DEF Up
<1>12. CASE UpdateRaises
  <2>1. PICK c \in mem.pending :
          /\ mem'.results = mem.results \ {c} /\ mem'.reported = mem.reported \cup {c}
          /\ mem'.unscored = mem.unscored \cup {c}
    <3>1. PICK c \in mem.pending : \E done \in SUBSET (mem.pending \ {c}) :
            \E outcome \in [done -> {"validated", "timed out", "failed"}],
               score \in [done -> ScoreValues] :
              mem' = Unscored(Finalized(mem, outcome, score), c, mem.latest)
      BY <1>12 DEF UpdateRaises
    <3>2. PICK outcome, score : mem' = Unscored(Finalized(mem, outcome, score), c, mem.latest)
      BY <3>1
    <3>3. QED
      BY <3>2 DEF Unscored, Finalized
  <2>2. c \in mem.results /\ c \in mem.reported /\ UNCHANGED <<doomed, phase, files, faults>>
    BY <1>12, <2>1 DEF UpdateRaises, IInv, Consistent
  <2>3. QED
    BY <1>2, <2>1, <2>2 DEF Up
<1>13. CASE UNCHANGED vars
  BY <1>2, <1>13 DEF vars, Up
<1>14. QED
  BY <1>3, <1>4, <1>5, <1>6, <1>7, <1>8, <1>9, <1>10, <1>11, <1>12, <1>13 DEF Next

(***************************************************************************)
(* Without crashes and storage faults every checkpoint that the manager    *)
(* has dropped is gone from storage when the call returns, apart from      *)
(* those it lost because their score raised.                               *)
(***************************************************************************)
THEOREM NothingOrphaned == Spec => []NoOrphans
<1>1. Init => Tidy
  BY DEF Init, Tidy, Up, Fresh
<1>2. IInv /\ Tidy => NoOrphans
  BY DEF IInv, Synchronised, Tidy, NoOrphans
<1>3. QED
  BY <1>1, <1>2, TidyInductive, Invariance, PTL DEF Spec

(***************************************************************************)
(* A result whose score is settled is dropped only if num_to_keep          *)
(* survivors score at least as well, for any scores and order of           *)
(* validations.                                                            *)
(***************************************************************************)
THEOREM BestAreKept == Spec => BestSurvive
<1> DEFINE P == phase' = "saving" =>
                  \A c \in mem.results \ (mem'.results \cup mem.pending) :
                    /\ NumToKeep > 0
                    /\ NumToKeep <=
                         Cardinality({b \in mem'.results : mem'.score[b] >= mem.score[c]})
<1>1. ASSUME IInv, Next PROVE P
  <2> SUFFICES ASSUME phase' = "saving",
                      NEW c \in mem.results \ (mem'.results \cup mem.pending)
               PROVE  /\ NumToKeep > 0
                      /\ NumToKeep <=
                           Cardinality({b \in mem'.results : mem'.score[b] >= mem.score[c]})
    OBVIOUS
  <2>1. CASE (\E d \in Checkpoints : RegisterCheckpoint(d)) \/ UpdateCheckpoints
    <3>1. PICK m : /\ IsMemory(m) /\ Consistent(m) /\ DropOldCheckpoints(m)
                   /\ mem.results \subseteq m.results
                   /\ \A d \in mem.results \ mem.pending : m.score[d] = mem.score[d]
      BY <1>1, <2>1, CallMemory
    <3>2. mem' = Without(m, ResultsToDelete(m))
      BY <3>1 DEF DropOldCheckpoints
    <3>3. /\ mem'.results = m.results \ ResultsToDelete(m)
          /\ \A b \in mem'.results : mem'.score[b] = m.score[b]
      BY <3>2 DEF Without
    <3>4. c \in WorstResults(m) /\ m.score[c] = mem.score[c]
      BY <3>1, <3>3 DEF ResultsToDelete
    <3>5. /\ NumToKeep > 0 /\ NumToKeep <= Cardinality(Top(m))
          /\ \A b \in Top(m) : m.score[b] >= m.score[c]
      BY <3>1, <3>4, TopIsBetter
    <3>6. PICK K : K = {b \in mem'.results : mem'.score[b] >= mem.score[c]}
      OBVIOUS
    <3>7. Top(m) \subseteq K /\ K \subseteq m.results
      BY <3>3, <3>4, <3>5, <3>6 DEF Top, ResultsToDelete
    <3>8. /\ IsFiniteSet(K) /\ Cardinality(K) \in Nat /\ Cardinality(Top(m)) \in Nat
          /\ Cardinality(Top(m)) <= Cardinality(K)
      <4>1. Top(m) \subseteq m.results
        BY DEF Top
      <4>2. QED
        BY <3>1, <3>7, <4>1, FiniteResults, FS_Subset
    <3>9. NumToKeep <= Cardinality(K)
      BY <3>5, <3>8, CheckpointAssumption
    <3>10. QED
      BY <3>5, <3>6, <3>9
  <2>2. CASE \E d \in Checkpoints : Upload(d)
    BY <2>2 DEF Upload
  <2>3. CASE \E d \in Checkpoints : DeleteCheckpoint(d)
    BY <2>3 DEF DeleteCheckpoint
  <2>4. CASE ReportMetrics
    BY <2>4 DEF ReportMetrics
  <2>5. CASE OpenSnapshot \/ WriteState \/ StorageRaises \/ Crash
    BY <2>5 DEF OpenSnapshot, WriteState, StorageRaises, Crash
  <2>6. CASE Restart
    BY <2>6 DEF Restart
  <2>7. CASE UpdateRaises \/ \E d \in Checkpoints : RegisterRaises(d)
    BY <2>7 DEF UpdateRaises, RegisterRaises
  <2>8. QED
    BY <1>1, <2>1, <2>2, <2>3, <2>4, <2>5, <2>6, <2>7 DEF Next
<1>2. IInv /\ [Next]_vars => [P]_vars
  BY <1>1
<1>3. QED
  BY <1>2, Invariance, PTL DEF Spec, BestSurvive
=============================================================================
