----------------------------- MODULE WorkerGroup ------------------------------
(***************************************************************************)
(* What a worker group holds of the cluster, and who gives it back: the    *)
(* start, shutdown and abort of a WorkerGroup (worker_group.py, state.py), *)
(* the PlacementGroupCleaner, a detached actor that removes the placement  *)
(* group when the controller dies (placement_group_cleaner.py,             *)
(* placement_group_callback.py), and the PreemptionWatcher actor of every  *)
(* group (preemption_callback.py).  Polls are the subject of ReportPath.   *)
(*                                                                         *)
(* Every start of a group makes a placement group of its own, named by the *)
(* number of the start; 0 is no start.  Ray itself removes a placement     *)
(* group only when both the controller actor and the driver's job have     *)
(* ended (gcs_placement_group.cc), so that one nobody removes stays        *)
(* reserved as long as the driver lives; the model is about that time.     *)
(***************************************************************************)
EXTENDS Integers, Sequences, FiniteSets

CONSTANT MaxStarts   \* bound: so many starts of a worker group are made

ASSUME StartsAssumption == MaxStarts \in Nat \ {0}

VARIABLES
  (* the controller process *)
  alive,      \* it runs
  at,         \* where its control loop or its abort() is
  start,      \* the last start of a worker group
  group,      \* the start of the group in TrainController._worker_group
  active,     \* that group has its _worker_group_state
  watcher,    \* PreemptionCallback._watcher
  (* the cluster *)
  pg,         \* the placement group of every start
  watchers,   \* the PreemptionWatcher actors that run
  message,    \* a register_placement_group call on its way
  (* the PlacementGroupCleaner actor *)
  cleaner,    \* what became of it
  stopSent,   \* a stop() that timed out is still to run on it
  pgQueue,    \* _pg_queue
  current,    \* curr_placement_group of the monitor thread
  (* history *)
  orphans,    \* the starts that failed after the group's state was built
  unregistered,  \* the starts whose call of register_placement_group raised
  gaveUp      \* the placement groups the cleaner failed to remove

controller == <<alive, at, start, group, active, watcher>>
cleanerVars == <<cleaner, stopSent, pgQueue, current, message, gaveUp>>
history == <<orphans, unregistered>>
vars == <<controller, pg, watchers, cleanerVars, history>>

Starts == 1..MaxStarts
InStart == {"waiting", "creating", "built", "registering", "registered", "watched"}
Places == {"new", "idle", "stopping", "over", "aborting", "exiting"} \cup InStart
Live == {i \in Starts : pg[i] \in {"pending", "ready"}}

Init ==
  /\ alive = TRUE /\ at = "new" /\ start = 0
  /\ group = 0 /\ active = FALSE /\ watcher = 0
  /\ pg = [i \in Starts |-> "none"]
  /\ watchers = {} /\ message = 0
  /\ cleaner = "none" /\ stopSent = FALSE /\ pgQueue = <<>> /\ current = 0
  /\ orphans = {} /\ unregistered = {} /\ gaveUp = {}

----------------------------------------------------------------------------
(* after_controller_start: the cleaner is launched and told to monitor; a  *)
(* launch that fails is logged.                                            *)
LaunchCleaner ==
  /\ alive /\ at = "new"
  /\ at' = "idle"
  /\ cleaner' \in {"up", "none"} /\ UNCHANGED stopSent
  /\ UNCHANGED <<alive, start, group, active, watcher, pg, watchers, pgQueue,
                 current, message, gaveUp, history>>

(* _start_impl up to the wait for the placement group.  An earlier failure *)
(* (too few resources, a hook) has taken nothing yet.                      *)
CreatePlacementGroup ==
  /\ alive /\ at = "idle" /\ group = 0
  /\ start < MaxStarts
  /\ start' = start + 1
  /\ pg' = [pg EXCEPT ![start + 1] = "pending"]
  /\ at' = "waiting"
  /\ UNCHANGED <<alive, group, active, watcher, watchers, cleanerVars, history>>

(* The placement group is not ready within the start timeout.              *)
(* Mutant: it is left to the cluster.                                      *)
WaitTimesOutKeeping ==
  /\ alive /\ at = "waiting"
  /\ at' = "idle"
  /\ UNCHANGED <<alive, start, group, active, watcher, pg, watchers,
                 cleanerVars, history>>
WaitTimesOut ==
  /\ alive /\ at = "waiting"
  /\ pg' = [pg EXCEPT ![start] = "removed"]
  /\ at' = "idle"
  /\ UNCHANGED <<alive, start, group, active, watcher, watchers, cleanerVars,
                 history>>

PlacementGroupReady ==
  /\ alive /\ at = "waiting"
  /\ pg' = [pg EXCEPT ![start] = "ready"]
  /\ at' = "creating"
  /\ UNCHANGED <<alive, start, group, active, watcher, watchers, cleanerVars,
                 history>>

(* The workers or the train context fail before the state is built: _start *)
(* shuts down what the builder holds.                                      *)
CreateFails ==
  /\ alive /\ at = "creating"
  /\ pg' = [pg EXCEPT ![start] = "removed"]
  /\ at' = "idle"
  /\ UNCHANGED <<alive, start, group, active, watcher, watchers, cleanerVars,
                 history>>

BuildState ==
  /\ alive /\ at = "creating"
  /\ at' = "built"
  /\ UNCHANGED <<alive, start, group, active, watcher, pg, watchers,
                 cleanerVars, history>>

(* Something raises once the state is built: a callback before or after    *)
(* the cleaner's, the launch of the training function, or a callback after *)
(* it.  has_started() holds, so _start cleans nothing up, and the          *)
(* controller never gets the group.                                        *)
StartFails ==
  /\ alive /\ at \in {"built", "registered", "watched"}
  /\ orphans' = orphans \cup {start}
  /\ at' = "idle"
  /\ UNCHANGED <<alive, start, group, active, watcher, pg, watchers, cleanerVars,
                 unregistered>>

(* after_worker_group_start of the cleaner's callback: it blocks until the *)
(* cleaner has the placement group, or does without a cleaner.  An actor   *)
(* runs the calls of one caller in order, so a call of an earlier start    *)
(* has run by now or is lost.                                              *)
(* Mutant: the callback does not wait for the answer.                      *)
RegisterWithoutWaiting ==
  /\ alive /\ at = "built"
  /\ message' = IF cleaner = "none" THEN 0 ELSE start
  /\ at' = "registered"
  /\ UNCHANGED <<alive, start, group, active, watcher, pg, watchers, cleaner,
                 stopSent, pgQueue, current, gaveUp, history>>
Register ==
  /\ alive /\ at = "built"
  /\ message' = IF cleaner = "none" THEN 0 ELSE start
  /\ at' = IF cleaner = "none" THEN "registered" ELSE "registering"
  /\ UNCHANGED <<alive, start, group, active, watcher, pg, watchers, cleaner,
                 stopSent, pgQueue, current, gaveUp, history>>

(* The call raises, which is logged, and the start goes on: the cleaner's  *)
(* actor is gone, or cannot be reached for the moment, and then the call   *)
(* may get lost or run later.                                              *)
RegisterFails ==
  /\ alive /\ at = "registering"
  /\ message' \in {0, IF cleaner = "up" THEN message ELSE 0}
  /\ unregistered' = unregistered \cup {start}
  /\ at' = "registered"
  /\ UNCHANGED <<alive, start, group, active, watcher, pg, watchers, cleaner,
                 stopSent, pgQueue, current, gaveUp, orphans>>

(* after_worker_group_start of the preemption callback, the last one: the  *)
(* watcher of an earlier group is killed first.                            *)
(* Mutant: only the handle is replaced.                                    *)
StartWatcherOverwriting ==
  /\ alive /\ at = "registered"
  /\ watchers' = watchers \cup {start}
  /\ watcher' = start
  /\ at' = "watched"
  /\ UNCHANGED <<alive, start, group, active, pg, cleanerVars, history>>
StartWatcher ==
  /\ alive /\ at = "registered"
  /\ watchers' = (watchers \ {watcher}) \cup {start}
  /\ watcher' = start
  /\ at' = "watched"
  /\ UNCHANGED <<alive, start, group, active, pg, cleanerVars, history>>

(* The training function runs on every worker; WorkerGroup.create returns  *)
(* the group to the controller.                                            *)
LaunchTraining ==
  /\ alive /\ at = "watched"
  /\ group' = start /\ active' = TRUE
  /\ at' = "idle"
  /\ UNCHANGED <<alive, start, watcher, pg, watchers, cleanerVars, history>>

(* WorkerGroup.shutdown of an active group, past its first hooks, which    *)
(* stop the watcher: the workers and the placement group go, the state is  *)
(* cleared.                                                                *)
(* Mutant: the state is kept.                                              *)
DismantleKeepingState ==
  /\ active
  /\ pg' = [pg EXCEPT ![group] = "removed"]
  /\ watchers' = watchers \ {watcher} /\ watcher' = 0
  /\ UNCHANGED active
Dismantle ==
  /\ active
  /\ pg' = [pg EXCEPT ![group] = "removed"]
  /\ active' = FALSE
  /\ watchers' = watchers \ {watcher} /\ watcher' = 0

(* The restart of a group begins with the shutdown of the old one.  If a   *)
(* hook after the shutdown raises, the controller keeps the inactive group *)
(* (a hook before it that raises changes nothing).                         *)
ShutdownGroup ==
  /\ alive /\ at = "idle" /\ Dismantle
  /\ group' \in {0, group}
  /\ UNCHANGED <<alive, at, start, cleanerVars, history>>

(* TrainController._shutdown: the group, if it is active, is shut down, or *)
(* a hook before that raises and it is kept; the run ends all the same.    *)
BeginShutdown ==
  /\ alive /\ at = "idle"
  /\ at' = "stopping"
  /\ \/ Dismantle /\ group' \in {0, group}
     \/ UNCHANGED <<pg, active, watchers, watcher, group>>
  /\ UNCHANGED <<alive, start, cleanerVars, history>>

(* _stop_cleaner: the cleaner leaves without cleaning up; or it is gone or *)
(* out of reach, and is left alone; or it does not answer in time, and     *)
(* still has the call to run.                                              *)
StopCleaner ==
  \/ cleaner = "up" /\ cleaner' = "exited" /\ UNCHANGED stopSent
  \/ stopSent' \in {FALSE, cleaner = "up"} /\ UNCHANGED cleaner

(* before_controller_shutdown, after the validations have been drained.    *)
CompleteShutdown ==
  /\ alive /\ at = "stopping"
  /\ StopCleaner
  /\ at' = "over"
  /\ UNCHANGED <<alive, start, group, active, watcher, pg, watchers, pgQueue,
                 current, message, gaveUp, history>>

(* abort, while the loop sleeps or drains: before_controller_abort stops   *)
(* the cleaner first.                                                      *)
BeginAbort ==
  /\ alive /\ at \in {"idle", "stopping"}
  /\ StopCleaner
  /\ at' = "aborting"
  /\ UNCHANGED <<alive, start, group, active, watcher, pg, watchers, pgQueue,
                 current, message, gaveUp, history>>

(* Then the group is aborted: before its placement group is released a     *)
(* hook may raise, and after it another, which keeps the watcher; abort    *)
(* logs the exception and ends the process in any case.                    *)
AbortGroup ==
  /\ alive /\ at = "aborting"
  /\ at' = "exiting"
  /\ \/ UNCHANGED <<pg, active, watchers, watcher>>
     \/ Dismantle
     \/ /\ active
        /\ pg' = [pg EXCEPT ![group] = "removed"]
        /\ active' = FALSE
        /\ UNCHANGED <<watchers, watcher>>
  /\ UNCHANGED <<alive, start, group, cleanerVars, history>>

(* External: the controller process ends, wherever it is.  The watchers    *)
(* are its own actors and end with it; the cleaner is detached.            *)
ProcessEnds ==
  /\ alive
  /\ alive' = FALSE
  /\ watchers' = {}
  /\ UNCHANGED <<at, start, group, active, watcher, pg, cleanerVars, history>>

----------------------------------------------------------------------------
(* register_placement_group on the cleaner.                                *)
RegisterPlacementGroup ==
  /\ cleaner = "up" /\ message # 0
  /\ pgQueue' = Append(pgQueue, message)
  /\ message' = 0
  /\ at' = IF alive /\ at = "registering" THEN "registered" ELSE at
  /\ UNCHANGED <<alive, start, group, active, watcher, pg, watchers, cleaner,
                 stopSent, current, gaveUp, history>>

(* External: a call that nobody waits for may get lost, as its sender died *)
(* or has given it up.                                                     *)
LoseMessage ==
  /\ ~alive \/ at # "registering"
  /\ message # 0
  /\ message' = 0
  /\ UNCHANGED <<controller, pg, watchers, cleaner, stopSent, pgQueue, current,
                 gaveUp, history>>

(* stop() of the cleaner, once the controller no longer waits for it: the  *)
(* monitor thread ends, whatever has become of the controller since, and   *)
(* the actor exits.                                                        *)
LateStop ==
  /\ cleaner = "up" /\ stopSent
  /\ cleaner' = "exited" /\ stopSent' = FALSE
  /\ UNCHANGED <<controller, pg, watchers, pgQueue, current, message, gaveUp,
                 history>>

(* One turn of _monitor_loop while the controller is alive.                *)
MonitorTakes ==
  /\ cleaner = "up" /\ alive /\ pgQueue # <<>>
  /\ current' = Head(pgQueue) /\ pgQueue' = Tail(pgQueue)
  /\ UNCHANGED <<controller, pg, watchers, cleaner, stopSent, message, gaveUp,
                 history>>

(* The placement group the monitor cleans up once it finds the controller  *)
(* dead: the queue is drained first.                                       *)
LastRegistered == IF pgQueue = <<>> THEN current ELSE pgQueue[Len(pgQueue)]

(* _cleanup_placement_group removes it unless it is removed already, or    *)
(* fails to and gives up; the cleaner exits in any case.                   *)
(* Mutant: the queue is not drained.                                       *)
MonitorFindsDeadUndrained ==
  /\ cleaner = "up" /\ ~alive
  /\ cleaner' = "exited"
  /\ pg' = [i \in Starts |-> IF i = current THEN "removed" ELSE pg[i]]
  /\ UNCHANGED <<controller, watchers, stopSent, pgQueue, current, message, gaveUp,
                 history>>
MonitorFindsDead ==
  /\ cleaner = "up" /\ ~alive
  /\ cleaner' = "exited"
  /\ pgQueue' = <<>> /\ current' = LastRegistered
  /\ \/ /\ pg' = [i \in Starts |-> IF i = LastRegistered THEN "removed" ELSE pg[i]]
        /\ UNCHANGED gaveUp
     \/ /\ LastRegistered \in Live
        /\ gaveUp' = gaveUp \cup {LastRegistered}
        /\ UNCHANGED pg
  /\ UNCHANGED <<controller, watchers, stopSent, message, history>>

(* External: the cleaner's process dies.                                   *)
CleanerCrashes ==
  /\ cleaner = "up"
  /\ cleaner' = "crashed"
  /\ UNCHANGED <<controller, pg, watchers, stopSent, pgQueue, current, message,
                 gaveUp, history>>

StartStep ==
  \/ CreatePlacementGroup \/ WaitTimesOut \/ PlacementGroupReady
  \/ CreateFails \/ BuildState \/ StartFails
  \/ Register \/ RegisterFails \/ StartWatcher \/ LaunchTraining

CleanerStep ==
  \/ RegisterPlacementGroup \/ MonitorTakes \/ MonitorFindsDead
  \/ LateStop \/ CleanerCrashes \/ LoseMessage

Next ==
  \/ LaunchCleaner \/ StartStep
  \/ ShutdownGroup \/ BeginShutdown \/ CompleteShutdown
  \/ BeginAbort \/ AbortGroup \/ ProcessEnds
  \/ CleanerStep

Spec == Init /\ [][Next]_vars

(* The monitor thread of a cleaner that lives goes on polling.             *)
FairSpec == Spec /\ WF_vars(MonitorFindsDead)

----------------------------------------------------------------------------
TypeOK ==
  /\ alive \in BOOLEAN /\ at \in Places
  /\ start \in 0..MaxStarts /\ group \in 0..start
  /\ active \in BOOLEAN /\ (active => group # 0)
  /\ watcher \in 0..start
  /\ pg \in [Starts -> {"none", "pending", "ready", "removed"}]
  /\ watchers \subseteq Starts
  /\ message \in 0..start
  /\ cleaner \in {"none", "up", "exited", "crashed"}
  /\ stopSent \in BOOLEAN
  /\ pgQueue \in Seq(Starts) /\ current \in 0..start
  /\ orphans \subseteq 1..start /\ unregistered \subseteq 1..start
  /\ gaveUp \subseteq 1..start

(* However starts, restarts, shutdowns and aborts fail, the controller     *)
(* never holds the resources of two groups: every placement group that is  *)
(* not removed is the one of the start in progress or of its active group, *)
(* apart from the starts that raised after their state was built, which    *)
(* _start does not clean up.                                               *)
OneGroupHeld ==
  Live \ orphans \subseteq
    IF at \in InStart THEN {start} ELSE IF active THEN {group} ELSE {}

(* While a group is active and the cleaner runs, the last placement group  *)
(* the cleaner has heard of is that group's: otherwise a controller that   *)
(* dies now would leave it reserved.  The one exception is a group whose   *)
(* registration raised, which the callback logs; a call of an earlier      *)
(* start that runs late never displaces the group.                         *)
CleanerKnowsGroup ==
  alive /\ active /\ cleaner = "up" =>
    LastRegistered = group \/ group \in unregistered

(* The workers of a group are warned of preemptions by its own watcher,    *)
(* and no watcher of an earlier group is left running, whichever starts    *)
(* failed before the shutdown hook could stop theirs.                      *)
OneWatcher ==
  /\ watchers \subseteq {watcher}
  /\ alive /\ at = "idle" /\ active => watchers = {group}

(* A placement group that was active when the controller died is removed,  *)
(* unless the cleaner dies too, the removal itself fails, its registration *)
(* had raised, or the controller had asked the cleaner to stop and not     *)
(* waited for it.                                                          *)
ActiveIsRemoved ==
  (/\ ~alive /\ active /\ cleaner = "up"
   /\ ~stopSent /\ group \notin unregistered) ~>
    \/ group \notin Live \/ group \in gaveUp
    \/ cleaner = "crashed"

(* placement_group_callback.py: "This callback ensures that placement      *)
(* groups are cleaned up even if the controller dies ungracefully."        *)
CleanerEnsuresRemoval ==
  ~alive /\ at \notin {"over", "exiting"} /\ cleaner = "exited" =>
    Live \subseteq gaveUp
=============================================================================
