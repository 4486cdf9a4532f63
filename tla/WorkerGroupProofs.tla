-------------------------- MODULE WorkerGroupProofs ---------------------------
(***************************************************************************)
(* Proofs of the safety properties of WorkerGroup, for any number of       *)
(* starts of a worker group.  They hold together: that the controller      *)
(* holds one group at a time needs that a start begins without one, and    *)
(* that the cleaner knows the active group needs what it was told while    *)
(* that group was being started.                                           *)
(***************************************************************************)
EXTENDS WorkerGroup, SequenceTheorems, TLAPS

(* The controller starts a group, which has a number, only without another. *)
StartInProgress ==
  /\ at \in InStart \cup {"new"} => group = 0
  /\ at \in InStart => start # 0

(***************************************************************************)
(* What the cleaner was told: nothing of a start to come; the registration *)
(* of the start in progress, once it has been answered, last; and a call   *)
(* that raised but is still under way is never one of an earlier group     *)
(* than the active one.                                                    *)
(***************************************************************************)
CleanerInformed ==
  /\ \A i \in DOMAIN pgQueue : pgQueue[i] <= start
  /\ alive /\ at = "registering" => message = start
  /\ alive /\ at \in {"registered", "watched"} => message \in {0, start}
  /\ alive /\ active => message \in {0, group}
  /\ alive /\ at \in {"registered", "watched"} /\ cleaner = "up" =>
       LastRegistered = start \/ start \in unregistered

(* The watcher of the start in progress is the only one. *)
WatcherOfStart == alive /\ at = "watched" => watchers = {start}

IInv ==
  /\ TypeOK
  /\ StartInProgress
  /\ OneGroupHeld
  /\ CleanerInformed
  /\ CleanerKnowsGroup
  /\ WatcherOfStart
  /\ OneWatcher

-----------------------------------------------------------------------------
(* Taking a group down, which three actions do. *)
LEMMA DismantleTypes ==
  ASSUME TypeOK, Dismantle
  PROVE  /\ pg' \in [Starts -> {"none", "pending", "ready", "removed"}]
         /\ active' = FALSE
         /\ watchers' \subseteq Starts /\ watcher' = 0
  BY DEF TypeOK, Dismantle

-----------------------------------------------------------------------------
(* Each action keeps the invariant. *)

(* Launching the cleaner, before any group, tells it nothing yet. *)
LEMMA LaunchCleanerKeeps == ASSUME IInv, LaunchCleaner PROVE IInv'
<1>1. TypeOK'
  BY DEF IInv, history, TypeOK, LaunchCleaner, Starts, Places, InStart
<1>2. StartInProgress'
  BY DEF IInv, StartInProgress, LaunchCleaner, InStart
<1>3. OneGroupHeld'
  BY DEF IInv, history, OneGroupHeld, LaunchCleaner, Live, InStart
<1>4. CleanerInformed'
  BY DEF IInv, history, CleanerInformed, LaunchCleaner, LastRegistered
<1>5. CleanerKnowsGroup'
  BY DEF IInv, history, CleanerKnowsGroup, TypeOK, StartInProgress, LaunchCleaner,
         LastRegistered, Starts, Places, InStart
<1>6. WatcherOfStart'
  BY DEF IInv, WatcherOfStart, LaunchCleaner
<1>7. OneWatcher'
  BY DEF IInv, OneWatcher, TypeOK, StartInProgress, LaunchCleaner, Starts,
         Places, InStart
<1> QED
  BY <1>1, <1>2, <1>3, <1>4, <1>5, <1>6, <1>7 DEF IInv

(* A start requests its placement group while no other is held. *)
LEMMA CreatePlacementGroupKeeps == ASSUME IInv, CreatePlacementGroup PROVE IInv'
<1>1. TypeOK'
  BY StartsAssumption DEF IInv, history, TypeOK, CreatePlacementGroup, Starts, Places,
                          InStart, cleanerVars
<1>2. StartInProgress'
  BY DEF IInv, StartInProgress, TypeOK, CreatePlacementGroup, InStart,
         Starts, Places, cleanerVars
<1>3. OneGroupHeld'
  BY DEF IInv, history, OneGroupHeld, CreatePlacementGroup, Live, InStart, Starts,
         cleanerVars
<1>4. CleanerInformed'
  <2>1. ~active
    BY DEF IInv, TypeOK, CreatePlacementGroup
  <2>2. \A i \in DOMAIN pgQueue : pgQueue[i] <= start'
    BY DEF IInv, TypeOK, CleanerInformed, CreatePlacementGroup, Starts
  <2> QED
    BY <2>1, <2>2 DEF CleanerInformed, CreatePlacementGroup, cleanerVars
<1>5. CleanerKnowsGroup'
  BY DEF IInv, history, CleanerKnowsGroup, CreatePlacementGroup, LastRegistered,
         Starts, cleanerVars
<1>6. WatcherOfStart'
  BY DEF IInv, WatcherOfStart, CreatePlacementGroup, Starts, cleanerVars
<1>7. OneWatcher'
  BY DEF IInv, OneWatcher, CreatePlacementGroup, Starts, cleanerVars
<1> QED
  BY <1>1, <1>2, <1>3, <1>4, <1>5, <1>6, <1>7 DEF IInv

(* A start that times out removes the group it waited for. *)
LEMMA WaitTimesOutKeeps == ASSUME IInv, WaitTimesOut PROVE IInv'
<1>1. TypeOK'
  BY DEF IInv, history, TypeOK, WaitTimesOut, Starts, Places, InStart, cleanerVars
<1>2. StartInProgress'
  BY DEF IInv, StartInProgress, WaitTimesOut, InStart, cleanerVars
<1>3. OneGroupHeld'
  BY DEF IInv, history, OneGroupHeld, TypeOK, WaitTimesOut, Live, InStart, Starts,
         Places, cleanerVars
<1>4. CleanerInformed'
  BY DEF IInv, history, CleanerInformed, WaitTimesOut, LastRegistered, cleanerVars
<1>5. CleanerKnowsGroup'
  BY DEF IInv, history, CleanerKnowsGroup, WaitTimesOut, LastRegistered, cleanerVars
<1>6. WatcherOfStart'
  BY DEF IInv, WatcherOfStart, WaitTimesOut, cleanerVars
<1>7. OneWatcher'
  BY DEF IInv, OneWatcher, TypeOK, StartInProgress, WaitTimesOut, Starts,
         Places, InStart, cleanerVars
<1> QED
  BY <1>1, <1>2, <1>3, <1>4, <1>5, <1>6, <1>7 DEF IInv

(* A placement group that becomes ready is still the only one held. *)
LEMMA PlacementGroupReadyKeeps == ASSUME IInv, PlacementGroupReady PROVE IInv'
<1>1. TypeOK'
  BY DEF IInv, history, TypeOK, PlacementGroupReady, Starts, Places, InStart,
         cleanerVars
<1>2. StartInProgress'
  BY DEF IInv, StartInProgress, PlacementGroupReady, InStart, cleanerVars
<1>3. OneGroupHeld'
  BY DEF IInv, history, OneGroupHeld, PlacementGroupReady, Live, InStart, cleanerVars
<1>4. CleanerInformed'
  BY DEF IInv, history, CleanerInformed, PlacementGroupReady, LastRegistered,
         cleanerVars
<1>5. CleanerKnowsGroup'
  BY DEF IInv, history, CleanerKnowsGroup, PlacementGroupReady, LastRegistered,
         cleanerVars
<1>6. WatcherOfStart'
  BY DEF IInv, WatcherOfStart, PlacementGroupReady, cleanerVars
<1>7. OneWatcher'
  BY DEF IInv, OneWatcher, PlacementGroupReady, cleanerVars
<1> QED
  BY <1>1, <1>2, <1>3, <1>4, <1>5, <1>6, <1>7 DEF IInv

(* A start that fails while creating workers removes its group. *)
LEMMA CreateFailsKeeps == ASSUME IInv, CreateFails PROVE IInv'
<1>1. TypeOK'
  BY DEF IInv, history, TypeOK, CreateFails, Starts, Places, InStart, cleanerVars
<1>2. StartInProgress'
  BY DEF IInv, StartInProgress, CreateFails, InStart, cleanerVars
<1>3. OneGroupHeld'
  BY DEF IInv, history, OneGroupHeld, TypeOK, CreateFails, Live, InStart, Starts,
         Places, cleanerVars
<1>4. CleanerInformed'
  BY DEF IInv, history, CleanerInformed, CreateFails, LastRegistered, cleanerVars
<1>5. CleanerKnowsGroup'
  BY DEF IInv, history, CleanerKnowsGroup, CreateFails, LastRegistered, cleanerVars
<1>6. WatcherOfStart'
  BY DEF IInv, WatcherOfStart, CreateFails, cleanerVars
<1>7. OneWatcher'
  BY DEF IInv, OneWatcher, TypeOK, StartInProgress, CreateFails, Starts,
         Places, InStart, cleanerVars
<1> QED
  BY <1>1, <1>2, <1>3, <1>4, <1>5, <1>6, <1>7 DEF IInv

(* The state is built for the group of the start in progress. *)
LEMMA BuildStateKeeps == ASSUME IInv, BuildState PROVE IInv'
<1>1. TypeOK'
  BY DEF IInv, history, TypeOK, BuildState, Starts, Places, InStart, cleanerVars
<1>2. StartInProgress'
  BY DEF IInv, StartInProgress, BuildState, InStart, cleanerVars
<1>3. OneGroupHeld'
  BY DEF IInv, history, OneGroupHeld, BuildState, Live, InStart, cleanerVars
<1>4. CleanerInformed'
  BY DEF IInv, history, CleanerInformed, BuildState, LastRegistered, cleanerVars
<1>5. CleanerKnowsGroup'
  BY DEF IInv, history, CleanerKnowsGroup, BuildState, LastRegistered, cleanerVars
<1>6. WatcherOfStart'
  BY DEF IInv, WatcherOfStart, BuildState, cleanerVars
<1>7. OneWatcher'
  BY DEF IInv, OneWatcher, BuildState, cleanerVars
<1> QED
  BY <1>1, <1>2, <1>3, <1>4, <1>5, <1>6, <1>7 DEF IInv

(* A start that raises after its state was built leaks its group and ends. *)
LEMMA StartFailsKeeps == ASSUME IInv, StartFails PROVE IInv'
<1>1. TypeOK'
  BY DEF IInv, history, TypeOK, StartInProgress, StartFails, Starts, Places, InStart,
         cleanerVars
<1>2. StartInProgress'
  BY DEF IInv, StartInProgress, StartFails, InStart, cleanerVars
<1>3. OneGroupHeld'
  BY DEF IInv, history, OneGroupHeld, StartFails, Live, InStart, cleanerVars
<1>4. CleanerInformed'
  BY DEF IInv, history, CleanerInformed, StartFails, LastRegistered, cleanerVars
<1>5. CleanerKnowsGroup'
  BY DEF IInv, history, CleanerKnowsGroup, StartFails, LastRegistered, cleanerVars
<1>6. WatcherOfStart'
  BY DEF IInv, WatcherOfStart, StartFails, cleanerVars
<1>7. OneWatcher'
  BY DEF IInv, OneWatcher, TypeOK, StartInProgress, StartFails, Starts,
         Places, InStart, cleanerVars
<1> QED
  BY <1>1, <1>2, <1>3, <1>4, <1>5, <1>6, <1>7 DEF IInv

(* Registration waits for the cleaner's answer about this start. *)
LEMMA RegisterKeeps == ASSUME IInv, Register PROVE IInv'
<1>1. TypeOK'
  BY DEF IInv, history, TypeOK, Register, Starts, Places, InStart
<1>2. StartInProgress'
  BY DEF IInv, StartInProgress, Register, InStart
<1>3. OneGroupHeld'
  BY DEF IInv, history, OneGroupHeld, Register, Live, InStart
<1>4. CleanerInformed'
  <2>1. ~active
    BY DEF IInv, TypeOK, StartInProgress, Register, InStart
  <2> QED
    BY <2>1 DEF IInv, history, CleanerInformed, Register, LastRegistered
<1>5. CleanerKnowsGroup'
  BY DEF IInv, history, CleanerKnowsGroup, Register, LastRegistered
<1>6. WatcherOfStart'
  BY DEF IInv, WatcherOfStart, Register
<1>7. OneWatcher'
  BY DEF IInv, OneWatcher, Register
<1> QED
  BY <1>1, <1>2, <1>3, <1>4, <1>5, <1>6, <1>7 DEF IInv

(* A registration that raises is remembered. *)
LEMMA RegisterFailsKeeps == ASSUME IInv, RegisterFails PROVE IInv'
<1>1. TypeOK'
  <2>1. start \in 1..start
    BY DEF IInv, TypeOK, StartInProgress, RegisterFails, InStart
  <2>2. message' \in 0..start
    BY DEF IInv, TypeOK, RegisterFails
  <2> QED
    BY <2>1, <2>2 DEF IInv, TypeOK, RegisterFails, Places, InStart
<1>2. StartInProgress'
  BY DEF IInv, StartInProgress, RegisterFails, InStart
<1>3. OneGroupHeld'
  BY DEF IInv, history, OneGroupHeld, RegisterFails, Live, InStart
<1>4. CleanerInformed'
  BY DEF IInv, history, CleanerInformed, RegisterFails, LastRegistered
<1>5. CleanerKnowsGroup'
  BY DEF IInv, history, CleanerKnowsGroup, RegisterFails, LastRegistered
<1>6. WatcherOfStart'
  BY DEF IInv, WatcherOfStart, RegisterFails
<1>7. OneWatcher'
  BY DEF IInv, OneWatcher, RegisterFails
<1> QED
  BY <1>1, <1>2, <1>3, <1>4, <1>5, <1>6, <1>7 DEF IInv

(* The watcher of a start replaces the one left by a start that raised. *)
LEMMA StartWatcherKeeps == ASSUME IInv, StartWatcher PROVE IInv'
<1>1. TypeOK'
  BY DEF IInv, history, TypeOK, StartInProgress, StartWatcher, Starts, Places,
         InStart, cleanerVars
<1>2. StartInProgress'
  BY DEF IInv, StartInProgress, StartWatcher, InStart, cleanerVars
<1>3. OneGroupHeld'
  BY DEF IInv, history, OneGroupHeld, StartWatcher, Live, InStart, cleanerVars
<1>4. CleanerInformed'
  BY DEF IInv, history, CleanerInformed, StartWatcher, LastRegistered, cleanerVars
<1>5. CleanerKnowsGroup'
  BY DEF IInv, history, CleanerKnowsGroup, StartWatcher, LastRegistered, cleanerVars
<1>6. WatcherOfStart'
  BY DEF IInv, WatcherOfStart, OneWatcher, StartWatcher
<1>7. OneWatcher'
  BY DEF IInv, OneWatcher, StartWatcher, cleanerVars
<1> QED
  BY <1>1, <1>2, <1>3, <1>4, <1>5, <1>6, <1>7 DEF IInv

(* The group that becomes active is the registered and watched one. *)
LEMMA LaunchTrainingKeeps == ASSUME IInv, LaunchTraining PROVE IInv'
<1>1. TypeOK'
  BY DEF IInv, history, TypeOK, StartInProgress, LaunchTraining, Starts, Places,
         InStart, cleanerVars
<1>2. StartInProgress'
  BY DEF IInv, StartInProgress, LaunchTraining, InStart, cleanerVars
<1>3. OneGroupHeld'
  BY DEF IInv, history, OneGroupHeld, LaunchTraining, Live, InStart, cleanerVars
<1>4. CleanerInformed'
  BY DEF IInv, history, CleanerInformed, LaunchTraining, LastRegistered, cleanerVars
<1>5. CleanerKnowsGroup'
  BY DEF IInv, history, CleanerKnowsGroup, CleanerInformed, LaunchTraining,
         LastRegistered, cleanerVars
<1>6. WatcherOfStart'
  BY DEF IInv, WatcherOfStart, LaunchTraining, cleanerVars
<1>7. OneWatcher'
  BY DEF IInv, OneWatcher, WatcherOfStart, LaunchTraining, cleanerVars
<1> QED
  BY <1>1, <1>2, <1>3, <1>4, <1>5, <1>6, <1>7 DEF IInv

(* A shutdown between attempts removes the active group. *)
LEMMA ShutdownGroupKeeps == ASSUME IInv, ShutdownGroup PROVE IInv'
<1>1. TypeOK'
  <2>1. /\ pg' \in [Starts -> {"none", "pending", "ready", "removed"}]
        /\ active' = FALSE
        /\ watchers' \subseteq Starts /\ watcher' = 0
    BY DismantleTypes DEF IInv, ShutdownGroup
  <2>2. /\ UNCHANGED <<alive, at, start, cleanerVars, history>>
        /\ group' \in {0, group}
    BY DEF ShutdownGroup
  <2>3. group' \in 0..start /\ watcher' \in 0..start
    BY <2>1, <2>2 DEF IInv, TypeOK
  <2>4. UNCHANGED <<alive, at, start, message, cleaner, stopSent, pgQueue,
                    current, orphans, unregistered, gaveUp>>
    BY <2>2 DEF cleanerVars, history
  <2> QED
    BY <2>1, <2>3, <2>4 DEF IInv, TypeOK
<1>2. StartInProgress'
  BY DEF IInv, StartInProgress, ShutdownGroup, Dismantle, InStart,
         cleanerVars
<1>3. OneGroupHeld'
  BY DEF IInv, history, OneGroupHeld, TypeOK, ShutdownGroup, Dismantle, Live, InStart,
         Starts, Places, cleanerVars
<1>4. CleanerInformed'
  BY DEF IInv, history, CleanerInformed, ShutdownGroup, Dismantle, LastRegistered,
         cleanerVars
<1>5. CleanerKnowsGroup'
  BY DEF IInv, history, CleanerKnowsGroup, ShutdownGroup, Dismantle, LastRegistered,
         cleanerVars
<1>6. WatcherOfStart'
  BY DEF IInv, WatcherOfStart, ShutdownGroup, Dismantle, cleanerVars
<1>7. OneWatcher'
  BY DEF IInv, OneWatcher, ShutdownGroup, Dismantle, cleanerVars
<1> QED
  BY <1>1, <1>2, <1>3, <1>4, <1>5, <1>6, <1>7 DEF IInv

(* The final shutdown removes the active group, if there is one. *)
LEMMA BeginShutdownKeeps == ASSUME IInv, BeginShutdown PROVE IInv'
<1>1. TypeOK'
  <2>1. CASE Dismantle /\ group' \in {0, group}
    <3>1. /\ pg' \in [Starts -> {"none", "pending", "ready", "removed"}]
          /\ active' = FALSE
          /\ watchers' \subseteq Starts /\ watcher' = 0
      BY <2>1, DismantleTypes DEF IInv
    <3>2. /\ at' = "stopping" /\ group' \in {0, group}
          /\ UNCHANGED <<alive, start, cleaner, stopSent, pgQueue, current,
                         message, gaveUp, orphans, unregistered>>
      BY <2>1 DEF BeginShutdown, cleanerVars, history
    <3>3. active' \in BOOLEAN /\ ~active' /\ at' \in Places
      BY <3>1, <3>2 DEF Places
    <3>4. group' \in 0..start' /\ watcher' \in 0..start'
      BY <3>1, <3>2, StartsAssumption DEF IInv, history, TypeOK
    <3> QED
      BY <3>1, <3>2, <3>3, <3>4 DEF IInv, history, TypeOK
  <2>2. CASE UNCHANGED <<pg, active, watchers, watcher, group>>
    BY <2>2 DEF IInv, history, TypeOK, BeginShutdown, Places, cleanerVars
  <2> QED
    BY <2>1, <2>2 DEF BeginShutdown
<1>2. StartInProgress'
  BY DEF IInv, StartInProgress, BeginShutdown, Dismantle, InStart,
         cleanerVars
<1>3. OneGroupHeld'
  <2>1. CASE Dismantle /\ group' \in {0, group}
    BY <2>1 DEF IInv, history, OneGroupHeld, TypeOK, BeginShutdown, Dismantle, Live,
                InStart, Starts
  <2>2. CASE UNCHANGED <<pg, active, watchers, watcher, group>>
    BY <2>2 DEF IInv, history, OneGroupHeld, BeginShutdown, Live, InStart
  <2> QED
    BY <2>1, <2>2 DEF BeginShutdown
<1>4. CleanerInformed'
  BY DEF IInv, history, CleanerInformed, BeginShutdown, Dismantle, LastRegistered,
         cleanerVars
<1>5. CleanerKnowsGroup'
  BY DEF IInv, history, CleanerKnowsGroup, BeginShutdown, Dismantle, LastRegistered,
         cleanerVars
<1>6. WatcherOfStart'
  BY DEF IInv, WatcherOfStart, BeginShutdown, Dismantle, cleanerVars
<1>7. OneWatcher'
  BY DEF IInv, OneWatcher, BeginShutdown, Dismantle, cleanerVars
<1> QED
  BY <1>1, <1>2, <1>3, <1>4, <1>5, <1>6, <1>7 DEF IInv

(* The end of the run stops the cleaner and touches no group. *)
LEMMA CompleteShutdownKeeps == ASSUME IInv, CompleteShutdown PROVE IInv'
<1>1. TypeOK'
  BY DEF IInv, history, TypeOK, CompleteShutdown, StopCleaner, Starts, Places, InStart
<1>2. StartInProgress'
  BY DEF IInv, StartInProgress, CompleteShutdown, StopCleaner, InStart
<1>3. OneGroupHeld'
  BY DEF IInv, history, OneGroupHeld, CompleteShutdown, StopCleaner, Live, InStart
<1>4. CleanerInformed'
  BY DEF IInv, history, CleanerInformed, CompleteShutdown, StopCleaner, LastRegistered
<1>5. CleanerKnowsGroup'
  BY DEF IInv, history, CleanerKnowsGroup, CompleteShutdown, StopCleaner,
         LastRegistered
<1>6. WatcherOfStart'
  BY DEF IInv, WatcherOfStart, CompleteShutdown, StopCleaner
<1>7. OneWatcher'
  BY DEF IInv, OneWatcher, CompleteShutdown, StopCleaner
<1> QED
  BY <1>1, <1>2, <1>3, <1>4, <1>5, <1>6, <1>7 DEF IInv

(* An abort begins outside a start and at most stops the cleaner. *)
LEMMA BeginAbortKeeps == ASSUME IInv, BeginAbort PROVE IInv'
<1>1. TypeOK'
  BY DEF IInv, history, TypeOK, BeginAbort, StopCleaner, Starts, Places, InStart
<1>2. StartInProgress'
  BY DEF IInv, StartInProgress, BeginAbort, StopCleaner, InStart
<1>3. OneGroupHeld'
  BY DEF IInv, history, OneGroupHeld, BeginAbort, StopCleaner, Live, InStart
<1>4. CleanerInformed'
  BY DEF IInv, history, CleanerInformed, BeginAbort, StopCleaner, LastRegistered
<1>5. CleanerKnowsGroup'
  BY DEF IInv, history, CleanerKnowsGroup, BeginAbort, StopCleaner, LastRegistered
<1>6. WatcherOfStart'
  BY DEF IInv, WatcherOfStart, BeginAbort, StopCleaner
<1>7. OneWatcher'
  BY DEF IInv, OneWatcher, BeginAbort, StopCleaner
<1> QED
  BY <1>1, <1>2, <1>3, <1>4, <1>5, <1>6, <1>7 DEF IInv

(* An abort removes the active group, if there is one. *)
LEMMA AbortGroupKeeps == ASSUME IInv, AbortGroup PROVE IInv'
<1>1. TypeOK'
  <2>1. CASE UNCHANGED <<pg, active, watchers, watcher>>
    BY <2>1 DEF IInv, history, TypeOK, AbortGroup, Places, cleanerVars
  <2>2. CASE Dismantle
    <3>1. /\ pg' \in [Starts -> {"none", "pending", "ready", "removed"}]
          /\ active' = FALSE
          /\ watchers' \subseteq Starts /\ watcher' = 0
      BY <2>2, DismantleTypes DEF IInv
    <3>2. /\ at' = "exiting"
          /\ UNCHANGED <<alive, start, group, cleaner, stopSent, pgQueue, current,
                         message, gaveUp, orphans, unregistered>>
      BY DEF AbortGroup, cleanerVars, history
    <3>3. active' \in BOOLEAN /\ ~active' /\ at' \in Places
      BY <3>1, <3>2 DEF Places
    <3>4. group' \in 0..start' /\ watcher' \in 0..start'
      BY <3>1, <3>2, StartsAssumption DEF IInv, history, TypeOK
    <3> QED
      BY <3>1, <3>2, <3>3, <3>4 DEF IInv, history, TypeOK
  <2>3. CASE /\ pg' = [pg EXCEPT ![group] = "removed"]
             /\ active' = FALSE
             /\ UNCHANGED <<watchers, watcher>>
    BY <2>3 DEF IInv, history, TypeOK, AbortGroup, Starts, Places, cleanerVars
  <2> QED
    BY <2>1, <2>2, <2>3 DEF AbortGroup
<1>2. StartInProgress'
  BY DEF IInv, StartInProgress, AbortGroup, Dismantle, InStart, cleanerVars
<1>3. OneGroupHeld'
  <2>1. CASE UNCHANGED <<pg, active, watchers, watcher>>
    BY <2>1 DEF IInv, history, OneGroupHeld, AbortGroup, Live, InStart
  <2>2. CASE /\ active /\ pg' = [pg EXCEPT ![group] = "removed"]
             /\ active' = FALSE
    BY <2>2 DEF IInv, history, OneGroupHeld, TypeOK, AbortGroup, Live, InStart, Starts
  <2> QED
    BY <2>1, <2>2 DEF AbortGroup, Dismantle
<1>4. CleanerInformed'
  BY DEF IInv, history, CleanerInformed, AbortGroup, Dismantle, LastRegistered,
         cleanerVars
<1>5. CleanerKnowsGroup'
  BY DEF IInv, history, CleanerKnowsGroup, AbortGroup, Dismantle, LastRegistered,
         cleanerVars
<1>6. WatcherOfStart'
  BY DEF IInv, WatcherOfStart, AbortGroup, Dismantle, cleanerVars
<1>7. OneWatcher'
  BY DEF IInv, OneWatcher, AbortGroup, Dismantle, cleanerVars
<1> QED
  BY <1>1, <1>2, <1>3, <1>4, <1>5, <1>6, <1>7 DEF IInv

(* The controller may die at any point, with what it holds. *)
LEMMA ProcessEndsKeeps == ASSUME IInv, ProcessEnds PROVE IInv'
<1>1. TypeOK'
  BY DEF IInv, history, TypeOK, ProcessEnds, Starts, Places, InStart, cleanerVars
<1>2. StartInProgress'
  BY DEF IInv, StartInProgress, ProcessEnds, InStart, cleanerVars
<1>3. OneGroupHeld'
  BY DEF IInv, history, OneGroupHeld, ProcessEnds, Live, InStart, cleanerVars
<1>4. CleanerInformed'
  BY DEF IInv, history, CleanerInformed, ProcessEnds, LastRegistered, cleanerVars
<1>5. CleanerKnowsGroup'
  BY DEF IInv, history, CleanerKnowsGroup, ProcessEnds, LastRegistered, cleanerVars
<1>6. WatcherOfStart'
  BY DEF IInv, WatcherOfStart, ProcessEnds, cleanerVars
<1>7. OneWatcher'
  BY DEF IInv, OneWatcher, ProcessEnds, cleanerVars
<1> QED
  BY <1>1, <1>2, <1>3, <1>4, <1>5, <1>6, <1>7 DEF IInv

(* The cleaner queues the registration of a start that was made. *)
LEMMA RegisterPlacementGroupKeeps == ASSUME IInv, RegisterPlacementGroup PROVE IInv'
<1>1. TypeOK'
  BY StartsAssumption DEF IInv, history, TypeOK, RegisterPlacementGroup, Starts,
                          Places, InStart
<1>2. StartInProgress'
  BY DEF IInv, StartInProgress, RegisterPlacementGroup, InStart
<1>3. OneGroupHeld'
  BY DEF IInv, history, OneGroupHeld, RegisterPlacementGroup, Live, InStart
<1>4. CleanerInformed'
  BY DEF IInv, history, CleanerInformed, TypeOK, RegisterPlacementGroup,
         LastRegistered, Starts, Places, InStart
<1>5. CleanerKnowsGroup'
  BY DEF IInv, history, CleanerKnowsGroup, TypeOK, StartInProgress, CleanerInformed,
         RegisterPlacementGroup, LastRegistered, Starts, Places, InStart
<1>6. WatcherOfStart'
  BY DEF IInv, WatcherOfStart, RegisterPlacementGroup
<1>7. OneWatcher'
  BY DEF IInv, OneWatcher, RegisterPlacementGroup
<1> QED
  BY <1>1, <1>2, <1>3, <1>4, <1>5, <1>6, <1>7 DEF IInv

(* A registration call may be lost once nobody waits for it. *)
LEMMA LoseMessageKeeps == ASSUME IInv, LoseMessage PROVE IInv'
<1>1. TypeOK'
  BY DEF IInv, history, TypeOK, LoseMessage, Starts, Places, InStart, controller
<1>2. StartInProgress'
  BY DEF IInv, StartInProgress, LoseMessage, InStart, controller
<1>3. OneGroupHeld'
  BY DEF IInv, history, OneGroupHeld, LoseMessage, Live, InStart, controller
<1>4. CleanerInformed'
  BY DEF IInv, history, CleanerInformed, LoseMessage, LastRegistered, controller
<1>5. CleanerKnowsGroup'
  BY DEF IInv, history, CleanerKnowsGroup, LoseMessage, LastRegistered, controller
<1>6. WatcherOfStart'
  BY DEF IInv, WatcherOfStart, LoseMessage, controller
<1>7. OneWatcher'
  BY DEF IInv, OneWatcher, LoseMessage, controller
<1> QED
  BY <1>1, <1>2, <1>3, <1>4, <1>5, <1>6, <1>7 DEF IInv

(* Taking from the queue does not change the last group registered. *)
LEMMA MonitorTakesKeeps == ASSUME IInv, MonitorTakes PROVE IInv'
<1>1. TypeOK'
  BY StartsAssumption DEF IInv, history, TypeOK, CleanerInformed, MonitorTakes,
                          Starts, Places, InStart, LastRegistered, controller
<1>2. StartInProgress'
  BY DEF IInv, StartInProgress, MonitorTakes, InStart, controller
<1>3. OneGroupHeld'
  BY DEF IInv, history, OneGroupHeld, MonitorTakes, Live, InStart, controller
<1>4. CleanerInformed'
  BY DEF IInv, history, CleanerInformed, MonitorTakes, LastRegistered, controller
<1>5. CleanerKnowsGroup'
  <2>1. LastRegistered' = LastRegistered
    <3>1. pgQueue \in Seq(Starts) /\ pgQueue # <<>>
      BY DEF IInv, TypeOK, MonitorTakes
    <3>2. /\ Tail(pgQueue) \in Seq(Starts)
          /\ Len(pgQueue) \in Nat \ {0}
          /\ Len(Tail(pgQueue)) = Len(pgQueue) - 1
      BY <3>1, HeadTailProperties, EmptySeq
    <3>3. CASE Tail(pgQueue) = <<>>
      <4>1. Len(Tail(pgQueue)) = 0
        BY <3>3, EmptySeq
      <4>2. Len(pgQueue) = 1
        <5>1. \A m \in Nat : m - 1 = 0 => m = 1
          OBVIOUS
        <5> QED
          BY <3>2, <4>1, <5>1, Zenon
      <4>3. Head(pgQueue) = pgQueue[Len(pgQueue)]
        BY <3>1, <4>2
      <4> QED
        BY <3>1, <3>3, <4>3 DEF MonitorTakes, LastRegistered
    <3>4. CASE Tail(pgQueue) # <<>>
      <4>1. Len(Tail(pgQueue)) \in Nat \ {0}
        BY <3>2, <3>4, EmptySeq
      <4>2. \A i \in 1..Len(Tail(pgQueue)) : Tail(pgQueue)[i] = pgQueue[i + 1]
        BY <3>1, HeadTailProperties
      <4>3. Tail(pgQueue)[Len(Tail(pgQueue))] = pgQueue[Len(pgQueue)]
        BY <3>2, <4>1, <4>2
      <4> QED
        BY <3>1, <3>4, <4>3 DEF MonitorTakes, LastRegistered
    <3> QED
      BY <3>3, <3>4
  <2> QED
    BY <2>1 DEF IInv, history, CleanerKnowsGroup, MonitorTakes, controller
<1>6. WatcherOfStart'
  BY DEF IInv, WatcherOfStart, MonitorTakes, controller
<1>7. OneWatcher'
  BY DEF IInv, OneWatcher, MonitorTakes, controller
<1> QED
  BY <1>1, <1>2, <1>3, <1>4, <1>5, <1>6, <1>7 DEF IInv

(* Once the controller is dead the cleaner removes what it was told of. *)
LEMMA MonitorFindsDeadKeeps == ASSUME IInv, MonitorFindsDead PROVE IInv'
<1>1. TypeOK'
  <2>1. LastRegistered \in 0..start
    BY DEF IInv, history, TypeOK, CleanerInformed, LastRegistered, Starts
  <2>2. /\ pgQueue' \in Seq(Starts) /\ current' \in 0..start
        /\ cleaner' = "exited"
    BY <2>1 DEF MonitorFindsDead
  <2>3. /\ pg' \in [Starts -> {"none", "pending", "ready", "removed"}]
        /\ gaveUp' \subseteq 1..start
    <3>1. CASE /\ pg' = [i \in Starts |->
                           IF i = LastRegistered THEN "removed" ELSE pg[i]]
               /\ UNCHANGED gaveUp
      BY <3>1 DEF IInv, history, TypeOK
    <3>2. CASE /\ LastRegistered \in Live
               /\ gaveUp' = gaveUp \cup {LastRegistered}
               /\ UNCHANGED pg
      BY <2>1, <3>2 DEF IInv, history, TypeOK, Live, Starts
    <3> QED
      BY <3>1, <3>2 DEF MonitorFindsDead
  <2> QED
    BY <2>2, <2>3 DEF IInv, history, TypeOK, MonitorFindsDead, controller
<1>2. StartInProgress'
  BY DEF IInv, StartInProgress, MonitorFindsDead, InStart, Live,
         LastRegistered, Starts, controller
<1>3. OneGroupHeld'
  BY DEF IInv, history, OneGroupHeld, MonitorFindsDead, Live, InStart, LastRegistered,
         Starts, controller
<1>4. CleanerInformed'
  BY DEF IInv, history, CleanerInformed, MonitorFindsDead, LastRegistered, Live,
         Starts, controller
<1>5. CleanerKnowsGroup'
  BY DEF IInv, history, CleanerKnowsGroup, MonitorFindsDead, LastRegistered, Live,
         Starts, controller
<1>6. WatcherOfStart'
  BY DEF IInv, WatcherOfStart, MonitorFindsDead, Live, LastRegistered,
         Starts, controller
<1>7. OneWatcher'
  BY DEF IInv, OneWatcher, MonitorFindsDead, Live, LastRegistered, Starts,
         controller
<1> QED
  BY <1>1, <1>2, <1>3, <1>4, <1>5, <1>6, <1>7 DEF IInv

(* A cleaner that leaves late need not know the group. *)
LEMMA LateStopKeeps == ASSUME IInv, LateStop PROVE IInv'
<1>1. TypeOK'
  BY DEF IInv, TypeOK, LateStop, Starts, Places, InStart, controller, history
<1>2. StartInProgress'
  BY DEF IInv, StartInProgress, LateStop, InStart, controller
<1>3. OneGroupHeld'
  BY DEF IInv, OneGroupHeld, LateStop, Live, InStart, controller, history
<1>4. CleanerInformed'
  BY DEF IInv, CleanerInformed, LateStop, LastRegistered, controller, history
<1>5. CleanerKnowsGroup'
  BY DEF IInv, CleanerKnowsGroup, LateStop, LastRegistered, controller
<1>6. WatcherOfStart'
  BY DEF IInv, WatcherOfStart, LateStop, controller
<1>7. OneWatcher'
  BY DEF IInv, OneWatcher, LateStop, controller
<1> QED
  BY <1>1, <1>2, <1>3, <1>4, <1>5, <1>6, <1>7 DEF IInv

(* A cleaner that crashed need not know the group. *)
LEMMA CleanerCrashesKeeps == ASSUME IInv, CleanerCrashes PROVE IInv'
<1>1. TypeOK'
  BY DEF IInv, history, TypeOK, CleanerCrashes, Starts, Places, InStart, controller
<1>2. StartInProgress'
  BY DEF IInv, StartInProgress, CleanerCrashes, InStart, controller
<1>3. OneGroupHeld'
  BY DEF IInv, history, OneGroupHeld, CleanerCrashes, Live, InStart, controller
<1>4. CleanerInformed'
  BY DEF IInv, history, CleanerInformed, CleanerCrashes, LastRegistered, controller
<1>5. CleanerKnowsGroup'
  BY DEF IInv, history, CleanerKnowsGroup, CleanerCrashes, LastRegistered, controller
<1>6. WatcherOfStart'
  BY DEF IInv, WatcherOfStart, CleanerCrashes, controller
<1>7. OneWatcher'
  BY DEF IInv, OneWatcher, CleanerCrashes, controller
<1> QED
  BY <1>1, <1>2, <1>3, <1>4, <1>5, <1>6, <1>7 DEF IInv

-----------------------------------------------------------------------------
(* The invariant of the worker group, through every start, shutdown, abort  *)
(* and death of a process, for any number of starts.                        *)
THEOREM Invariance == Spec => []IInv
<1>1. Init => IInv
  <2> SUFFICES ASSUME Init PROVE IInv
    OBVIOUS
  <2>1. TypeOK
    <3>1. pg \in [Starts -> {"none", "pending", "ready", "removed"}]
      BY DEF Init
    <3>2. pgQueue \in Seq(Starts) /\ at \in Places
      BY DEF Init, Places
    <3>3. /\ start \in 0..MaxStarts /\ group \in 0..start /\ watcher \in 0..start
          /\ message \in 0..start /\ current \in 0..start
      BY StartsAssumption DEF Init
    <3>4. /\ alive \in BOOLEAN /\ active \in BOOLEAN /\ ~active
          /\ cleaner \in {"none", "up", "exited", "crashed"}
          /\ watchers \subseteq Starts
          /\ stopSent \in BOOLEAN /\ unregistered \subseteq 1..start
          /\ orphans \subseteq 1..start /\ gaveUp \subseteq 1..start
      BY DEF Init
    <3> QED
      BY <3>1, <3>2, <3>3, <3>4 DEF TypeOK
  <2>2. OneGroupHeld
    BY DEF Init, OneGroupHeld, Live, InStart
  <2>3. StartInProgress /\ CleanerInformed /\ CleanerKnowsGroup
    BY DEF Init, StartInProgress, CleanerInformed, CleanerKnowsGroup, InStart
  <2>4. WatcherOfStart /\ OneWatcher
    BY DEF Init, WatcherOfStart, OneWatcher
  <2> QED
    BY <2>1, <2>2, <2>3, <2>4 DEF IInv
<1>2. IInv /\ [Next]_vars => IInv'
  <2> SUFFICES ASSUME IInv, [Next]_vars PROVE IInv'
    OBVIOUS
  <2>1. CASE Next
    BY <2>1,
     LaunchCleanerKeeps, CreatePlacementGroupKeeps, WaitTimesOutKeeps,
     PlacementGroupReadyKeeps, CreateFailsKeeps, BuildStateKeeps,
     StartFailsKeeps, RegisterKeeps, RegisterFailsKeeps, StartWatcherKeeps,
     LaunchTrainingKeeps, ShutdownGroupKeeps, BeginShutdownKeeps,
     CompleteShutdownKeeps, BeginAbortKeeps, AbortGroupKeeps,
     ProcessEndsKeeps, RegisterPlacementGroupKeeps, LoseMessageKeeps,
     MonitorTakesKeeps, MonitorFindsDeadKeeps, LateStopKeeps,
     CleanerCrashesKeeps
    DEF Next, StartStep, CleanerStep
  <2>2. CASE UNCHANGED vars
    BY <2>2
    DEF IInv, TypeOK, StartInProgress, OneGroupHeld, CleanerInformed,
        CleanerKnowsGroup, WatcherOfStart, OneWatcher, Live, LastRegistered,
        vars, controller, cleanerVars, history
  <2> QED
    BY <2>1, <2>2
<1> QED
  BY <1>1, <1>2, PTL DEF Spec

(* The controller, the cluster and the cleaner keep their shapes: the      *)
(* cleaner is never told of a start that was not made, and an active state *)
(* always has its group.                                                   *)
THEOREM TypeCorrectness == Spec => []TypeOK
<1>1. IInv => TypeOK
  BY DEF IInv
<1> QED
  BY <1>1, Invariance, PTL

(* The controller never holds the placement groups of two worker groups,   *)
(* apart from starts that raised after their state was built.              *)
THEOREM HoldsOneGroup == Spec => []OneGroupHeld
<1>1. IInv => OneGroupHeld
  BY DEF IInv
<1> QED
  BY <1>1, Invariance, PTL

(* Whenever a group is active and the cleaner runs, the placement group    *)
(* the cleaner would remove is that group's, or the call that registers it *)
(* raised.                                                                 *)
THEOREM CleanerIsInformed == Spec => []CleanerKnowsGroup
<1>1. IInv => CleanerKnowsGroup
  BY DEF IInv
<1> QED
  BY <1>1, Invariance, PTL

(* No watcher of an earlier group survives, and the active group has its   *)
(* own.                                                                    *)
THEOREM WatcherIsUnique == Spec => []OneWatcher
<1>1. IInv => OneWatcher
  BY DEF IInv
<1> QED
  BY <1>1, Invariance, PTL
=============================================================================
