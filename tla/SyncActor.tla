------------------------------ MODULE SyncActor ------------------------------
(***************************************************************************)
(* SynchronizationActor of                                                 *)
(* ray/train/v2/_internal/execution/checkpoint/sync_actor.py: the barrier  *)
(* at which the workers agree on a checkpoint directory, with the part of  *)
(* TrainContext.report that calls it and the part of                       *)
(* WorkerGroup.replace_replica_group that resets it.                       *)
(*                                                                         *)
(* The actor is one asyncio event loop, and its methods run under the lock *)
(* of one asyncio.Condition.  Ready tasks and tasks that want the lock are *)
(* served first in, first out, and a task keeps the lock until it waits or *)
(* returns, so the loop is a queue of turns: a turn of a call ends when it *)
(* waits on the condition or returns, and notify_all appends a turn for    *)
(* every waiting call.                                                     *)
(*                                                                         *)
(* Every caller of a group passes the same world size; the ValueError for  *)
(* different ones is not modelled.                                         *)
(***************************************************************************)
EXTENDS Integers, Sequences, SequencesExt, FiniteSets

CONSTANTS
  WorldSize,    \* number of workers
  None,         \* Python's None
  MaxCalls,     \* bound on report() calls of a rank
  MaxDeaths,    \* bound on worker failures
  MaxWarnings,  \* bound on warning intervals that end while a turn is due
  MaxExpiries   \* bound on calls that exceed the collective timeout

Ranks == 0..(WorldSize - 1)

Calls == [rank : Ranks, number : Nat, life : Nat, index : Nat]

ASSUME SyncAssumption ==
  /\ WorldSize \in Nat \ {0}
  /\ None \notin Calls
  /\ {MaxCalls, MaxDeaths, MaxWarnings, MaxExpiries} \subseteq Nat

VARIABLES
  actor,    \* _counter, _world_size, _reduced_data and _reset of the actor
  queue,    \* turns of the event loop
  waiting,  \* calls waiting on the condition, oldest first
  worker,   \* per rank: status, calls so far, incarnation and report_call_index
  control,  \* what replace_replica_group is doing, and for which rank
  group,    \* history: the calls counted when the barrier last completed
  got,      \* history: what the last call of a rank returned
  budget    \* deaths, late warnings and expiries so far

vars == <<actor, queue, waiting, worker, control, group, got, budget>>

(* A call of broadcast_from_rank_zero, and the point where it continues. *)
Call(r) == [rank |-> r, number |-> worker[r].number, life |-> worker[r].life,
            index |-> worker[r].index]

Turn(step, call) == [step |-> step, call |-> call]

ResetTurn == Turn("reset", None)

CallsAt(steps, turns) == {t.call : t \in {u \in ToSet(turns) : u.step \in steps}}

(* Calls that hold one count of _counter. *)
Inside == CallsAt({"barrier", "rewait", "expired"}, waiting \o queue)

Watching == [step |-> "watching", rank |-> 0]

Idle == [counter |-> 0, worldSize |-> 0, data |-> None, reset |-> FALSE]

-----------------------------------------------------------------------------
(* The event loop. *)

(* Mutant: the states are not cleared when the last call leaves. *)
LeftKeepingReset(a) ==
  IF a.counter = 1 THEN [a EXCEPT !.counter = 0, !.worldSize = 0, !.data = None]
  ELSE [a EXCEPT !.counter = @ - 1]

(* _clear_states: one call leaves. *)
Left(a) == IF a.counter = 1 THEN Idle ELSE [a EXCEPT !.counter = @ - 1]

(* The turn is over, the waiting calls in ts keep waiting or are notified. *)
EndTurn(notify, ts) ==
  IF notify THEN queue' = Tail(queue) \o ts /\ waiting' = <<>>
  ELSE queue' = Tail(queue) /\ waiting' = ts

(* The call returned to its caller, if that is still there. *)
Reply(call, status, index) ==
  worker' = IF worker[call.rank].status = "calling" /\ worker[call.rank].number = call.number
            THEN [worker EXCEPT ![call.rank] = [@ EXCEPT !.status = status, !.index = index]]
            ELSE worker

(* The call returns the reduced data. *)
Return(call, data, members) ==
  /\ Reply(call, "idle", call.index)
  /\ got' = [got EXCEPT ![call.rank] = [call |-> call, data |-> data, group |-> members]]

(* Mutant: a call is counted twice, on entry and when it stores its data. *)
CountedTwice(a, call) ==
  [a EXCEPT !.worldSize = WorldSize, !.data = IF call.rank = 0 THEN call ELSE @,
            !.counter = @ + 2]

(* _setup_or_validate_collective_op and the entry of the context manager. *)
Counted(a, call) ==
  [a EXCEPT !.worldSize = WorldSize,
            !.data = IF call.rank = 0 THEN call ELSE @,
            !.counter = IF @ < WorldSize THEN @ + 1 ELSE @]

Starts(t) == t.step \in {"call", "setup"}

(* A call arrives during a reset, or looks again: it waits for the reset to end. *)
WaitForReset ==
  LET t == Head(queue) IN
  /\ queue # <<>> /\ Starts(t)
  /\ actor.reset
  /\ EndTurn(FALSE, Append(waiting, Turn("setup", t.call)))
  /\ UNCHANGED <<actor, worker, control, group, got, budget>>

(* A call enters the barrier and is not the last one. *)
EnterAndWait ==
  LET t == Head(queue)
      a == Counted(actor, t.call)
  IN
  /\ queue # <<>> /\ Starts(t)
  /\ ~actor.reset
  /\ a.counter # a.worldSize
  /\ actor' = a
  /\ EndTurn(FALSE, Append(waiting, Turn("barrier", t.call)))
  /\ UNCHANGED <<worker, control, group, got, budget>>

(* The last call enters: it notifies the others, returns and leaves. *)
EnterAndComplete ==
  LET t == Head(queue)
      a == Counted(actor, t.call)
  IN
  /\ queue # <<>> /\ Starts(t)
  /\ ~actor.reset
  /\ a.counter = a.worldSize
  /\ actor' = Left(a)
  /\ EndTurn(TRUE, waiting)
  /\ group' = Inside \cup {t.call}
  /\ Return(t.call, a.data, group')
  /\ UNCHANGED <<control, budget>>

(* Mutant: a notified call does not look at _reset. *)
BrokenIgnoringReset == FALSE

(* A notified call finds the barrier reset. *)
Broken == actor.reset

(***************************************************************************)
(* A notified call continues: it returns the data, or raises               *)
(* SynchronizationBarrierResetError, and report() takes its index back.    *)
(* The last call to leave notifies the ones that wait for the reset.       *)
(***************************************************************************)
Resume ==
  LET t == Head(queue) IN
  /\ queue # <<>> /\ t.step = "barrier"
  /\ actor' = Left(actor)
  /\ EndTurn(actor.counter = 1, waiting)
  /\ \/ Broken /\ Reply(t.call, "idle", t.call.index - 1) /\ UNCHANGED got
     \/ ~Broken /\ Return(t.call, actor.data, group)
  /\ UNCHANGED <<control, group, budget>>

(* The warning interval ended first: log, and wait on the condition again. *)
WaitAgain ==
  LET t == Head(queue) IN
  /\ queue # <<>> /\ t.step = "rewait"
  /\ EndTurn(FALSE, Append(waiting, Turn("barrier", t.call)))
  /\ UNCHANGED <<actor, worker, control, group, got, budget>>

(* BroadcastCollectiveTimeoutError: the call leaves and its worker fails. *)
RaiseTimeout ==
  LET t == Head(queue) IN
  /\ queue # <<>> /\ t.step = "expired"
  /\ actor' = Left(actor)
  /\ EndTurn(actor.counter = 1, waiting)
  /\ Reply(t.call, "dead", t.call.index)
  /\ UNCHANGED <<control, group, got, budget>>

(* Mutant: a reset of an unused barrier raises the flag, too. *)
ResetNeeded == TRUE

(* reset() does nothing when no call is inside. *)
SomeoneInside == actor.counter # 0

(* reset *)
Reset ==
  /\ queue # <<>> /\ Head(queue).step = "reset"
  /\ actor' = [actor EXCEPT !.reset = @ \/ SomeoneInside]
  /\ EndTurn(SomeoneInside, waiting)
  /\ control' = [control EXCEPT !.step = "replacing"]
  /\ UNCHANGED <<worker, group, got, budget>>

EventLoop ==
  \/ WaitForReset
  \/ EnterAndWait
  \/ EnterAndComplete
  \/ Resume
  \/ WaitAgain
  \/ RaiseTimeout
  \/ Reset

-----------------------------------------------------------------------------
(* Timers: asyncio.wait_for cancels the wait, and the call needs the lock again. *)

Spend(what) == budget' = [budget EXCEPT ![what] = @ + 1]

(* The timer of a waiting or a notified call fires; its next step is step. *)
Fires(step) ==
  \/ \E i \in DOMAIN waiting :
       /\ waiting[i].step = "barrier"
       /\ waiting' = RemoveAt(waiting, i)
       /\ queue' = Append(queue, Turn(step, waiting[i].call))
  \/ \E i \in DOMAIN queue :
       /\ queue[i].step = "barrier"
       /\ queue' = ReplaceAt(queue, i, Turn(step, queue[i].call))
       /\ UNCHANGED waiting

WarningFires ==
  /\ budget.warnings < MaxWarnings
  /\ queue # <<>>
  /\ Fires("rewait")
  /\ Spend("warnings")
  /\ UNCHANGED <<actor, worker, control, group, got>>

TimeoutFires ==
  /\ budget.expiries < MaxExpiries
  /\ Fires("expired")
  /\ Spend("expiries")
  /\ UNCHANGED <<actor, worker, control, group, got>>

-----------------------------------------------------------------------------
(* Workers and the controller. *)

(* report() calls the actor and blocks. *)
Report(r) ==
  /\ worker[r].status = "idle"
  /\ worker[r].number < MaxCalls
  /\ worker' = [worker EXCEPT ![r].status = "calling", ![r].number = @ + 1, ![r].index = @ + 1]
  /\ queue' = Append(queue, Turn("call", Call(r)'))
  /\ UNCHANGED <<actor, waiting, control, group, got, budget>>

(* A worker dies; a call it made stays with the actor. *)
Die(r) ==
  /\ worker[r].status \in {"idle", "calling"}
  /\ budget.deaths < MaxDeaths
  /\ worker' = [worker EXCEPT ![r] = [@ EXCEPT !.status = "dead"]]
  /\ Spend("deaths")
  /\ UNCHANGED <<actor, queue, waiting, control, group, got>>

Failed == {r \in Ranks : worker[r].status = "dead"}

(* replace_replica_group of a failed worker, after it was shut down. *)
RequestReset(r) ==
  /\ control.step = "watching"
  /\ r \in Failed
  /\ control' = [step |-> "resetting", rank |-> r]
  /\ queue' = Append(queue, ResetTurn)
  /\ UNCHANGED <<actor, waiting, worker, group, got, budget>>

(***************************************************************************)
(* reset() returned: a new worker takes the failed one's rank.  Its report *)
(* index is the checkpoint manager's, which no survivor is behind.         *)
(* Starting a process takes far longer than the turns that are due, so     *)
(* they are taken first (a timing assumption, not a guard of the code).    *)
(***************************************************************************)
Replace(r) ==
  /\ control.step = "replacing"
  /\ r = control.rank
  /\ queue = <<>>
  /\ \E i \in 0..MaxCalls :
       /\ \A s \in Ranks \ Failed : i <= worker[s].index
       /\ worker' = [worker EXCEPT ![r].status = "idle", ![r].life = @ + 1, ![r].index = i]
  /\ control' = Watching
  /\ UNCHANGED <<actor, queue, waiting, group, got, budget>>

Init ==
  /\ actor = Idle
  /\ queue = <<>>
  /\ waiting = <<>>
  /\ worker = [r \in Ranks |-> [status |-> "idle", number |-> 0, life |-> 0, index |-> 0]]
  /\ control = Watching
  /\ group = {}
  /\ got = [r \in Ranks |-> None]
  /\ budget = [deaths |-> 0, warnings |-> 0, expiries |-> 0]

Next ==
  \/ EventLoop
  \/ WarningFires
  \/ TimeoutFires
  \/ \E r \in Ranks : Report(r) \/ Die(r) \/ RequestReset(r) \/ Replace(r)

Spec == Init /\ [][Next]_vars

(* The event loop runs what is ready; nobody else has to do anything. *)
FairSpec == Spec /\ WF_vars(EventLoop)

-----------------------------------------------------------------------------
(* Properties *)

Turns == [step : {"call", "setup", "barrier", "rewait", "expired"}, call : Calls]
           \cup {ResetTurn}

(* Every variable has its shape. *)
TypeOK ==
  /\ actor \in [counter : 0..WorldSize, worldSize : {0, WorldSize},
                data : Calls \cup {None}, reset : BOOLEAN]
  /\ queue \in Seq(Turns)
  /\ waiting \in Seq(Turns)
  /\ worker \in [Ranks -> [status : {"idle", "calling", "dead"}, number : Nat,
                        life : Nat, index : Nat]]
  /\ control \in [step : {"watching", "resetting", "replacing"}, rank : Ranks]
  /\ group \subseteq Calls
  /\ \A r \in Ranks : got[r] # None => got[r].call \in Calls
  /\ budget \in [deaths : Nat, warnings : Nat, expiries : Nat]

(***************************************************************************)
(* The counter counts exactly the calls inside the barrier, through        *)
(* resets, timeouts and calls of dead workers: it can neither block the    *)
(* barrier for ever nor open it early.                                     *)
(***************************************************************************)
CounterIsInside ==
  /\ actor.counter = Cardinality(Inside)
  /\ actor.counter = 0 => actor = Idle

(***************************************************************************)
(* A call that returns was one of world_size calls, one per rank, that     *)
(* were inside together, and its data is that of rank 0 among them: "The   *)
(* data from the worker with rank 0 will be returned."  (A wake-up lost to *)
(* a warning interval, see NoneStranded, can leave a dead worker's call    *)
(* behind, so the claim is about behaviours without one.)                  *)
(***************************************************************************)
Agreement ==
  budget.warnings = 0 =>
    \A r \in Ranks : got[r] # None =>
      /\ got[r].call \in got[r].group
      /\ got[r].data \in got[r].group /\ got[r].data.rank = 0
      /\ \A s \in Ranks : Cardinality({c \in got[r].group : c.rank = s}) = 1

(***************************************************************************)
(* "When the counter equals to the world size, the actor notifies all the  *)
(* workers to continue": when the loop has nothing left to do, nobody      *)
(* waits for a reset and no member of a completed barrier is still in it,  *)
(* unless a warning interval that ended between the notification of a call *)
(* and its turn has swallowed the notification.                            *)
(***************************************************************************)
NoneStranded ==
  budget.warnings = 0 /\ queue = <<>> =>
    /\ ~actor.reset
    /\ CallsAt({"setup"}, waiting) = {}
    /\ Inside \cap group = {}

(***************************************************************************)
(* A reset ends: the waiting calls leave, the actor is usable again.       *)
(***************************************************************************)
ResetEnds == (actor.reset /\ budget.warnings = 0) ~> (~actor.reset \/ budget.warnings # 0)
=============================================================================
