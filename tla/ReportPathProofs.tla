-------------------------- MODULE ReportPathProofs ---------------------------
(***************************************************************************)
(* Proofs of the safety properties of ReportPath for any workers, any      *)
(* number of reports, failures, faults and hanging polls.                  *)
(*                                                                         *)
(* Between the training function and the manager a report passes through   *)
(* the pool, the result queue, the answer of a poll and the handler's      *)
(* buffer.  The properties are not inductive: NothingLost says what is in  *)
(* transit, but not why the next report to be put is the next number.  The *)
(* invariant says for every worker which numbers are in each place, and    *)
(* ties the number of a report, which the barrier gives out, to the index  *)
(* of the call that made it.                                               *)
(***************************************************************************)
EXTENDS ReportPath, SequenceTheorems, TLAPS

Alive(w) == thread[w] # "dead"

(***************************************************************************)
(* With every backend: a call in the barrier has been counted, the queue   *)
(* has room for one report, a poll has read nothing before it reads, and   *)
(* one that finds the thread ended found the queue empty.                  *)
(***************************************************************************)
Shaped(w) ==
  /\ thread[w] = "syncing" => reportCallIndex[w] # 0
  /\ thread[w] = "dead" => outcome[w] = "none"
  /\ Len(resultQueue[w]) <= 1
  /\ poll[w].step \in {"idle", "queue"} => poll[w].report = NoReport
  /\ poll[w].step = "done" /\ ~poll[w].running => poll[w].report = NoReport

(* The controller replaces workers only with replica groups. *)
ReplacesReplicas ==
  control \in {"replacing", "clearing", "resetting", "starting"} => backend = "replicas"

(* A live worker's call is in the barrier, or the last round was its last call. *)
Synced(w) ==
  Alive(w) =>
    /\ thread[w] = "syncing" <=> w \in barrier
    /\ reportCallIndex[w] = IF thread[w] = "syncing" THEN round + 1 ELSE round

(* A report in the pool is named by the index of its call. *)
Named(w) ==
  \A k \in 1..Len(pool[w]) :
    /\ pool[w][k].report = pool[w][k].index
    /\ pool[w][k].index <= reportCallIndex[w]

Carried(w) == IF poll[w].report = NoReport THEN 0 ELSE 1

(* The controller has the reports after the last one delivered, in order. *)
Arrived(w) ==
  /\ \A i \in 1..Len(buffers[w]) : buffers[w][i] = delivered + i
  /\ poll[w].report # NoReport => poll[w].report = delivered + Len(buffers[w]) + 1

(* A report in the queue is the last one put, and all others have arrived. *)
Sent(w) ==
  Alive(w) =>
    /\ currentReportIndex[w] =
         delivered + Len(buffers[w]) + Carried(w) + Len(resultQueue[w])
    /\ resultQueue[w] # <<>> => resultQueue[w][1] = currentReportIndex[w]
    /\ currentReportIndex[w] <= reportCallIndex[w]

(* The report() call that has not reached its upload yet. *)
Calling(w) == IF thread[w] \in {"syncing", "uploading"} THEN 1 ELSE 0

(* Unless one failed, the uploads under way are the reports not put yet. *)
Uploaded(w) ==
  Alive(w) /\ outcome[w] # "raised" =>
    /\ currentReportIndex[w] + Len(pool[w]) + Calling(w) = reportCallIndex[w]
    /\ \A k \in 1..Len(pool[w]) : pool[w][k].index = currentReportIndex[w] + k

(* A training function that returned made all its reports. *)
Returned(w) ==
  outcome[w] = "returned" =>
    /\ thread[w] \in {"joining", "ended"}
    /\ reportCallIndex[w] = MaxReports
    /\ pool[w] = <<>>

InOrder(w) ==
  Synced(w) /\ Named(w) /\ Arrived(w) /\ Sent(w) /\ Uploaded(w) /\ Returned(w)

(* A run ends consistently, and finishes on polls that found no report. *)
Concluded ==
  /\ control # "inconsistent"
  /\ control = "finished" => \A w \in Workers : poll[w].report = NoReport

IInv ==
  /\ TypeOK
  /\ HandlerKeepsUp
  /\ ReplacesReplicas
  /\ \A w \in Workers : Shaped(w)
  /\ NoReplacement => Concluded /\ \A w \in Workers : InOrder(w)

-----------------------------------------------------------------------------
(* Steps of one worker. *)

(* Nothing of worker v changes. *)
Same(v) ==
  /\ thread'[v] = thread[v] /\ reportCallIndex'[v] = reportCallIndex[v]
  /\ currentReportIndex'[v] = currentReportIndex[v] /\ pool'[v] = pool[v]
  /\ resultQueue'[v] = resultQueue[v] /\ outcome'[v] = outcome[v]
  /\ poll'[v] = poll[v] /\ (v \in barrier') = (v \in barrier)

(* A step of w leaves the others alone, so only w has to be looked at. *)
LEMMA LocalStep ==
  ASSUME IInv, NEW w \in Workers, \A v \in Workers \ {w} : Same(v),
         UNCHANGED <<round, controlVars>>, control \notin Over,
         TypeOK', Shaped(w)', NoReplacement => InOrder(w)'
  PROVE  IInv'
<1>1. ASSUME NEW v \in Workers PROVE Shaped(v)'
  <2>1. CASE v = w
    BY <2>1
  <2>2. CASE v # w
    BY <2>2 DEF IInv, Same, Shaped
  <2>3. QED
    BY <2>1, <2>2
<1>2. ASSUME NoReplacement, NEW v \in Workers PROVE InOrder(v)'
  <2>1. CASE v = w
    BY <1>2, <2>1
  <2>2. CASE v # w
    <3>1. Same(v) /\ InOrder(v) /\ UNCHANGED <<round, buffers, delivered>>
      BY <1>2, <2>2 DEF IInv, controlVars
    <3>2. Synced(v)' /\ Named(v)' /\ Arrived(v)'
      BY <3>1 DEF Same, InOrder, Synced, Named, Arrived, Alive
    <3>3. Sent(v)' /\ Uploaded(v)' /\ Returned(v)'
      BY <3>1 DEF Same, InOrder, Sent, Uploaded, Returned, Alive, Calling, Carried
    <3>4. QED
      BY <3>2, <3>3 DEF InOrder
  <2>3. QED
    BY <2>1, <2>2
<1>3. HandlerKeepsUp' /\ ReplacesReplicas' /\ NoReplacement' = NoReplacement
  BY DEF IInv, HandlerKeepsUp, ReplacesReplicas, NoReplacement, controlVars
<1>4. NoReplacement => Concluded'
  BY DEF IInv, Concluded, controlVars, Over
<1>5. QED
  BY <1>1, <1>2, <1>3, <1>4 DEF IInv

(* What is known of w before its step. *)
LEMMA WorkerTypes ==
  ASSUME IInv, NEW w \in Workers
  PROVE  /\ thread[w] \in Threads
         /\ reportCallIndex[w] \in Nat /\ currentReportIndex[w] \in Nat
         /\ pool[w] \in Seq(Job) /\ resultQueue[w] \in Seq(Nat)
         /\ outcome[w] \in {"none", "returned", "raised"}
         /\ monitored[w] \in BOOLEAN
         /\ poll[w] \in [step : PollSteps, report : Nat, error : BOOLEAN, running : BOOLEAN]
         /\ round \in Nat /\ delivered \in Nat /\ buffers[w] \in Seq(Nat)
         /\ Len(buffers[w]) \in Nat /\ Len(pool[w]) \in Nat /\ Len(resultQueue[w]) \in Nat
         /\ \A k \in 1..Len(pool[w]) : pool[w][k].index \in Nat /\ pool[w][k].report \in Nat
         /\ Shaped(w)
<1>1. \A k \in 1..Len(pool[w]) : pool[w][k] \in Job
  BY ElementOfSeq DEF IInv, TypeOK
<1>2. \A k \in 1..Len(pool[w]) : pool[w][k].index \in Nat /\ pool[w][k].report \in Nat
  BY <1>1 DEF Job
<1>3. Shaped(w)
  BY DEF IInv
<1>4. QED
  BY <1>2, <1>3 DEF IInv, TypeOK

(* The elements that remain when the first is taken. *)
LEMMA TailElements ==
  ASSUME NEW S, NEW p \in Seq(S), p # <<>>
  PROVE  /\ Len(p) \in Nat /\ Len(Tail(p)) \in Nat /\ Len(Tail(p)) = Len(p) - 1
         /\ \A k \in 1..Len(Tail(p)) : k + 1 \in 1..Len(p) /\ Tail(p)[k] = p[k + 1]
<1>1. Len(p) \in Nat /\ Len(Tail(p)) \in Nat /\ Len(Tail(p)) = Len(p) - 1
  BY HeadTailProperties, LenProperties
<1>2. ASSUME NEW k \in 1..Len(Tail(p)) PROVE k + 1 \in 1..Len(p) /\ Tail(p)[k] = p[k + 1]
  BY <1>1, HeadTailProperties
<1>3. QED
  BY <1>1, <1>2

(* The indexes that remain when the oldest of consecutive jobs is taken. *)
LEMMA TailIndexes ==
  ASSUME NEW p \in Seq(Job), p # <<>>, NEW c \in Nat,
         \A k \in 1..Len(p) : p[k].index = c + k
  PROVE  \A k \in 1..Len(Tail(p)) : Tail(p)[k].index = c + 1 + k
<1>1. ASSUME NEW k \in 1..Len(Tail(p)) PROVE Tail(p)[k].index = c + 1 + k
  <2>1. k \in Nat /\ k + 1 \in 1..Len(p) /\ Tail(p)[k] = p[k + 1]
    BY TailElements
  <2>2. p[k + 1].index = c + (k + 1)
    BY <2>1
  <2>3. QED
    BY <2>1, <2>2
<1>2. QED
  BY <1>1

(* The indexes when a job follows consecutive ones. *)
LEMMA AppendIndexes ==
  ASSUME NEW p \in Seq(Job), NEW c \in Nat, NEW job \in Job,
         \A k \in 1..Len(p) : p[k].index = c + k, job.index = c + Len(p) + 1
  PROVE  /\ Len(Append(p, job)) = Len(p) + 1
         /\ \A k \in 1..Len(Append(p, job)) : Append(p, job)[k].index = c + k
<1>1. /\ Len(p) \in Nat /\ Len(Append(p, job)) = Len(p) + 1
      /\ \A k \in 1..Len(p) : Append(p, job)[k] = p[k]
      /\ Append(p, job)[Len(p) + 1] = job
  BY LenProperties, AppendProperties
<1>2. ASSUME NEW k \in 1..Len(Append(p, job)) PROVE Append(p, job)[k].index = c + k
  <2>1. CASE k = Len(p) + 1
    BY <1>1, <2>1
  <2>2. CASE k # Len(p) + 1
    <3>1. k \in 1..Len(p)
      BY <1>1, <2>2
    <3>2. QED
      BY <1>1, <3>1
  <2>3. QED
    BY <2>1, <2>2
<1>3. QED
  BY <1>1, <1>2

(* A call takes the next index and enters the barrier. *)
LEMMA ReportKeeps ==
  ASSUME IInv, NEW w \in Workers, Report(w)
  PROVE  IInv'
<1>1. TypeOK'
  <2>1. /\ thread' \in [Workers -> Threads] /\ reportCallIndex' \in [Workers -> Nat]
        /\ barrier' \in SUBSET Workers
    BY DEF IInv, TypeOK, Report, Goto, Threads
  <2>2. UNCHANGED <<currentReportIndex, pool, resultQueue, outcome, monitored, poll,
                    round, faults, buffers, delivered, validating, control, failures,
                    hangs, failing, backend>>
    BY DEF Report, controlVars
  <2>3. QED
    BY <2>1, <2>2 DEF IInv, TypeOK
<1>2. \A v \in Workers \ {w} : Same(v)
  BY DEF IInv, TypeOK, Same, Report, At, Runs, Goto
<1>3. UNCHANGED <<round, controlVars>> /\ control \notin Over
  BY DEF Report, At, Runs, Goto, Over
<1>4. /\ thread[w] = "training"
      /\ thread'[w] = "syncing"
      /\ reportCallIndex'[w] = reportCallIndex[w] + 1
      /\ w \in barrier'
      /\ UNCHANGED <<currentReportIndex[w], pool[w], resultQueue[w], outcome[w], poll[w],
                     round, buffers, delivered>>
  BY <1>3 DEF IInv, TypeOK, Report, At, Runs, Goto, controlVars
<1>5. Shaped(w)'
  BY <1>4, WorkerTypes DEF Shaped, NoReport
<1>6. ASSUME NoReplacement PROVE InOrder(w)'
  <2>1. InOrder(w)
    BY <1>6 DEF IInv
  <2>2. Arrived(w)'
    BY <1>4, <2>1 DEF InOrder, Arrived
  <2>3. Synced(w)'
    BY <1>4, <2>1, WorkerTypes DEF InOrder, Synced, Alive
  <2>4. Named(w)'
    BY <1>4, <2>1, WorkerTypes DEF InOrder, Named, Synced, Alive
  <2>5. Sent(w)'
    BY <1>4, <2>1, WorkerTypes DEF InOrder, Synced, Named, Arrived, Sent, Alive, Carried,
       Shaped, NoReport
  <2>6. Uploaded(w)'
    BY <1>4, <2>1, WorkerTypes DEF InOrder, Uploaded, Returned, Alive, Calling
  <2>7. Returned(w)'
    BY <1>4, <2>1, WorkerTypes DEF InOrder, Returned, Shaped
  <2>8. QED
    BY <2>2, <2>3, <2>4, <2>5, <2>6, <2>7 DEF InOrder
<1>7. QED
  BY <1>1, <1>2, <1>3, <1>5, <1>6, LocalStep

(* A submitted upload carries the index of its call. *)
LEMMA SubmitUploadKeeps ==
  ASSUME IInv, NEW w \in Workers, SubmitUpload(w)
  PROVE  IInv'
<1>1. TypeOK'
  BY ReportAssumption DEF IInv, TypeOK, SubmitUpload, At, Runs, Goto, syncVars, Threads,
     controlVars, PollSteps, Job
<1>2. \A v \in Workers \ {w} : Same(v)
  BY DEF IInv, TypeOK, Same, SubmitUpload, At, Runs, Goto, syncVars
<1>3. UNCHANGED <<round, controlVars>> /\ control \notin Over
  BY DEF SubmitUpload, At, Runs, Goto, syncVars, Over
<1>4. /\ thread[w] = "uploading"
      /\ thread'[w] = "training"
      /\ pool'[w] = Append(pool[w], [index |-> reportCallIndex[w], report |-> round])
      /\ (w \in barrier') = (w \in barrier)
      /\ UNCHANGED <<reportCallIndex[w], currentReportIndex[w], resultQueue[w], outcome[w],
                     poll[w], round, buffers, delivered>>
  BY <1>3 DEF IInv, TypeOK, SubmitUpload, At, Runs, Goto, syncVars, controlVars
<1>5. Shaped(w)'
  BY <1>4, WorkerTypes DEF Shaped, NoReport
<1>6. ASSUME NoReplacement PROVE InOrder(w)'
  <2>1. InOrder(w)
    BY <1>6 DEF IInv
  <2>2. Arrived(w)' /\ Sent(w)'
    BY <1>4, <2>1 DEF InOrder, Arrived, Sent, Alive, Carried
  <2>3. Synced(w)'
    BY <1>4, <2>1, WorkerTypes DEF InOrder, Synced, Alive
  <2>4. Named(w)'
    BY <1>4, <2>1, WorkerTypes DEF InOrder, Named, Synced, Alive
  <2>5. Uploaded(w)'
    <3>1. Calling(w) = 1 /\ Calling(w)' = 0
      BY <1>4 DEF Calling
    <3>2. SUFFICES ASSUME outcome[w] # "raised"
                   PROVE  /\ currentReportIndex[w] + Len(pool'[w]) = reportCallIndex[w]
                          /\ \A k \in 1..Len(pool'[w]) :
                               pool'[w][k].index = currentReportIndex[w] + k
      BY <1>4, <3>1, WorkerTypes DEF Uploaded
    <3>3. PICK job : job = [index |-> reportCallIndex[w], report |-> round]
      OBVIOUS
    <3>4. pool'[w] = Append(pool[w], job) /\ job \in Job /\ job.index = reportCallIndex[w]
      BY <1>4, <3>3, WorkerTypes DEF Job
    <3>5. /\ currentReportIndex[w] + Len(pool[w]) + 1 = reportCallIndex[w]
          /\ \A k \in 1..Len(pool[w]) : pool[w][k].index = currentReportIndex[w] + k
      BY <1>4, <2>1, <3>1, <3>2 DEF InOrder, Uploaded, Alive
    <3>6. /\ Len(pool'[w]) = Len(pool[w]) + 1
          /\ \A k \in 1..Len(pool'[w]) : pool'[w][k].index = currentReportIndex[w] + k
      <4>1. job.index = currentReportIndex[w] + Len(pool[w]) + 1
        BY <3>4, <3>5
      <4>2. pool[w] \in Seq(Job) /\ currentReportIndex[w] \in Nat /\ job \in Job
        BY <3>4, WorkerTypes
      <4>3. /\ Len(Append(pool[w], job)) = Len(pool[w]) + 1
            /\ \A k \in 1..Len(Append(pool[w], job)) :
                 Append(pool[w], job)[k].index = currentReportIndex[w] + k
        BY <3>5, <4>1, <4>2, AppendIndexes
      <4>4. QED
        BY <3>4, <4>3
    <3>7. currentReportIndex[w] + Len(pool'[w]) = reportCallIndex[w]
      BY <3>5, <3>6, WorkerTypes
    <3>8. QED
      BY <3>6, <3>7
  <2>6. Returned(w)'
    BY <1>4, <2>1, WorkerTypes DEF InOrder, Returned, Shaped
  <2>7. QED
    BY <2>2, <2>3, <2>4, <2>5, <2>6 DEF InOrder
<1>7. QED
  BY <1>1, <1>2, <1>3, <1>5, <1>6, LocalStep

(* A failing training function puts nothing. *)
LEMMA TrainFnRaisesKeeps ==
  ASSUME IInv, NEW w \in Workers, TrainFnRaises(w)
  PROVE  IInv'
<1>1. TypeOK'
  BY ReportAssumption DEF IInv, TypeOK, TrainFnRaises, At, Runs, Goto, Fault, PutException,
     Threads, controlVars, PollSteps, Job
<1>2. \A v \in Workers \ {w} : Same(v)
  BY DEF IInv, TypeOK, Same, TrainFnRaises, At, Runs, Goto, Fault, PutException
<1>3. UNCHANGED <<round, controlVars>> /\ control \notin Over
  BY DEF TrainFnRaises, At, Runs, Goto, Fault, PutException, Over
<1>4. /\ thread[w] \in {"training", "uploading"}
      /\ thread'[w] = "joining"
      /\ outcome'[w] = IF outcome[w] = "none" THEN "raised" ELSE outcome[w]
      /\ (w \in barrier') = (w \in barrier)
      /\ UNCHANGED <<reportCallIndex[w], currentReportIndex[w], pool[w], resultQueue[w],
                     poll[w], round, buffers, delivered>>
  BY <1>3 DEF IInv, TypeOK, TrainFnRaises, At, Runs, Goto, Fault, PutException, controlVars
<1>5. Shaped(w)'
  BY <1>4, WorkerTypes DEF Shaped, NoReport
<1>6. ASSUME NoReplacement PROVE InOrder(w)'
  <2>1. InOrder(w)
    BY <1>6 DEF IInv
  <2>2. Named(w)' /\ Arrived(w)' /\ Sent(w)'
    BY <1>4, <2>1 DEF InOrder, Named, Arrived, Sent, Alive, Carried
  <2>3. Synced(w)'
    BY <1>4, <2>1, WorkerTypes DEF InOrder, Synced, Alive
  <2>4. Uploaded(w)'
    BY <1>4, <2>1, WorkerTypes DEF InOrder, Uploaded, Returned, Alive, Calling
  <2>5. Returned(w)'
    BY <1>4, <2>1, WorkerTypes DEF InOrder, Returned, Shaped
  <2>6. QED
    BY <2>2, <2>3, <2>4, <2>5 DEF InOrder
<1>7. QED
  BY <1>1, <1>2, <1>3, <1>5, <1>6, LocalStep

(* A synchronous report is put when all earlier ones were. *)
LEMMA WaitThenReportKeeps ==
  ASSUME IInv, NEW w \in Workers, WaitThenReport(w)
  PROVE  IInv'
<1>1. TypeOK'
  BY ReportAssumption DEF IInv, TypeOK, WaitThenReport, At, Runs, Goto, IsTurn, Put,
     syncVars, Threads, controlVars, PollSteps, Job
<1>2. \A v \in Workers \ {w} : Same(v)
  BY DEF IInv, TypeOK, Same, WaitThenReport, At, Runs, Goto, IsTurn, Put, syncVars
<1>3. UNCHANGED <<round, controlVars>> /\ control \notin Over
  BY DEF WaitThenReport, At, Runs, Goto, IsTurn, Put, syncVars, Over
<1>4. /\ thread[w] = "uploading"
      /\ resultQueue[w] = <<>>
      /\ currentReportIndex[w] = reportCallIndex[w] - 1
      /\ thread'[w] = "training"
      /\ resultQueue'[w] = <<round>>
      /\ currentReportIndex'[w] = currentReportIndex[w] + 1
      /\ (w \in barrier') = (w \in barrier)
      /\ UNCHANGED <<reportCallIndex[w], pool[w], outcome[w], poll[w],
                     round, buffers, delivered>>
  BY <1>3 DEF IInv, TypeOK, WaitThenReport, At, Runs, Goto, IsTurn, Put, syncVars,
     controlVars
<1>5. Shaped(w)'
  BY <1>4, WorkerTypes DEF Shaped, NoReport
<1>6. ASSUME NoReplacement PROVE InOrder(w)'
  <2>1. InOrder(w)
    BY <1>6 DEF IInv
  <2>2. Named(w)' /\ Arrived(w)'
    BY <1>4, <2>1 DEF InOrder, Named, Arrived
  <2>3. Synced(w)'
    BY <1>4, <2>1, WorkerTypes DEF InOrder, Synced, Alive
  <2>4. Sent(w)'
    BY <1>4, <2>1, WorkerTypes DEF InOrder, Synced, Named, Arrived, Sent, Alive, Carried,
       Shaped, NoReport
  <2>5. Uploaded(w)'
    BY <1>4, <2>1, WorkerTypes DEF InOrder, Uploaded, Returned, Alive, Calling
  <2>6. Returned(w)'
    BY <1>4, <2>1, WorkerTypes DEF InOrder, Returned, Shaped
  <2>7. QED
    BY <2>2, <2>3, <2>4, <2>5, <2>6 DEF InOrder
<1>7. QED
  BY <1>1, <1>2, <1>3, <1>5, <1>6, LocalStep

(* The training function returns with all its uploads done. *)
LEMMA TrainFnReturnsKeeps ==
  ASSUME IInv, NEW w \in Workers, TrainFnReturns(w)
  PROVE  IInv'
<1>1. TypeOK'
  BY ReportAssumption DEF IInv, TypeOK, TrainFnReturns, At, Runs, Goto, IsFlushed,
     PutException, syncVars, Threads, controlVars, PollSteps, Job
<1>2. \A v \in Workers \ {w} : Same(v)
  BY DEF IInv, TypeOK, Same, TrainFnReturns, At, Runs, Goto, IsFlushed, PutException,
     syncVars
<1>3. UNCHANGED <<round, controlVars>> /\ control \notin Over
  BY DEF TrainFnReturns, At, Runs, Goto, IsFlushed, PutException, syncVars, Over
<1>4. /\ thread[w] = "training"
      /\ reportCallIndex[w] = MaxReports
      /\ pool[w] = <<>>
      /\ thread'[w] = "joining"
      /\ outcome'[w] = IF outcome[w] = "none" THEN "returned" ELSE outcome[w]
      /\ (w \in barrier') = (w \in barrier)
      /\ UNCHANGED <<reportCallIndex[w], currentReportIndex[w], pool[w], resultQueue[w],
                     poll[w], round, buffers, delivered>>
  BY <1>3 DEF IInv, TypeOK, TrainFnReturns, At, Runs, Goto, IsFlushed, PutException,
     syncVars, controlVars
<1>5. Shaped(w)'
  BY <1>4, WorkerTypes DEF Shaped, NoReport
<1>6. ASSUME NoReplacement PROVE InOrder(w)'
  <2>1. InOrder(w)
    BY <1>6 DEF IInv
  <2>2. Named(w)' /\ Arrived(w)' /\ Sent(w)'
    BY <1>4, <2>1 DEF InOrder, Named, Arrived, Sent, Alive, Carried
  <2>3. Synced(w)'
    BY <1>4, <2>1, WorkerTypes DEF InOrder, Synced, Alive
  <2>4. Uploaded(w)'
    BY <1>4, <2>1, WorkerTypes DEF InOrder, Uploaded, Returned, Alive, Calling
  <2>5. Returned(w)'
    BY <1>4, <2>1, WorkerTypes DEF InOrder, Returned, Shaped
  <2>6. QED
    BY <2>2, <2>3, <2>4, <2>5 DEF InOrder
<1>7. QED
  BY <1>1, <1>2, <1>3, <1>5, <1>6, LocalStep

(* The oldest upload is put when it is its turn. *)
LEMMA PoolReportsKeeps ==
  ASSUME IInv, NEW w \in Workers, PoolReports(w)
  PROVE  IInv'
<1>1. TypeOK'
  <2>1. Head(pool[w]) \in Job /\ Tail(pool[w]) \in Seq(Job)
    BY WorkerTypes, HeadTailProperties DEF PoolReports, Busy
  <2>2. Head(pool[w]).report \in Nat
    BY <2>1 DEF Job
  <2>3. <<Head(pool[w]).report>> \in Seq(Nat) /\ currentReportIndex[w] + 1 \in Nat
    BY <2>2, WorkerTypes
  <2>4. QED
    BY <2>1, <2>3 DEF IInv, TypeOK, PoolReports, Put, syncVars, controlVars
<1>2. \A v \in Workers \ {w} : Same(v)
  BY DEF IInv, TypeOK, Same, PoolReports, Busy, Runs, IsTurn, Put, syncVars
<1>3. UNCHANGED <<round, controlVars>> /\ control \notin Over
  BY DEF PoolReports, Busy, Runs, IsTurn, Put, syncVars, Over
<1>4. /\ thread[w] # "dead"
      /\ pool[w] # <<>>
      /\ resultQueue[w] = <<>>
      /\ currentReportIndex[w] = Head(pool[w]).index - 1
      /\ pool'[w] = Tail(pool[w])
      /\ resultQueue'[w] = <<Head(pool[w]).report>>
      /\ currentReportIndex'[w] = currentReportIndex[w] + 1
      /\ (w \in barrier') = (w \in barrier)
      /\ UNCHANGED <<thread[w], reportCallIndex[w], outcome[w], poll[w],
                     round, buffers, delivered>>
  BY <1>3 DEF IInv, TypeOK, PoolReports, Busy, Runs, IsTurn, Put, syncVars, controlVars
<1>5. Shaped(w)'
  BY <1>4, WorkerTypes DEF Shaped, NoReport
<1>6. ASSUME NoReplacement PROVE InOrder(w)'
  <2>1. InOrder(w)
    BY <1>6 DEF IInv
  <2>2. Synced(w)' /\ Arrived(w)'
    BY <1>4, <2>1 DEF InOrder, Synced, Arrived, Alive
  <2>3. Named(w)'
    <3>1. ASSUME NEW k \in 1..Len(pool'[w])
          PROVE  k + 1 \in 1..Len(pool[w]) /\ pool'[w][k] = pool[w][k + 1]
      BY <1>4, WorkerTypes, TailElements
    <3>2. QED
      BY <1>4, <2>1, <3>1 DEF InOrder, Named
  <2>4. Sent(w)'
    <3>1. pool[w][1] = Head(pool[w]) /\ 1 \in 1..Len(pool[w])
      BY <1>4, WorkerTypes, HeadTailProperties
    <3>2. /\ Head(pool[w]).report = Head(pool[w]).index
          /\ Head(pool[w]).index <= reportCallIndex[w]
      BY <2>1, <3>1 DEF InOrder, Named
    <3>3. Head(pool[w]).index \in Nat /\ Head(pool[w]).index = currentReportIndex'[w]
      BY <1>4, <3>1, WorkerTypes
    <3>4. Len(resultQueue'[w]) = 1 /\ resultQueue'[w][1] = currentReportIndex'[w]
      BY <1>4, <3>2, <3>3
    <3>5. QED
      BY <1>4, <2>1, <3>2, <3>3, <3>4, WorkerTypes DEF InOrder, Sent, Alive, Carried
  <2>5. Uploaded(w)'
    <3>1. Len(pool'[w]) = Len(pool[w]) - 1
      BY <1>4, WorkerTypes, HeadTailProperties
    <3>2. Calling(w)' = Calling(w) /\ Calling(w) \in {0, 1}
      BY <1>4 DEF Calling
    <3>3. SUFFICES ASSUME outcome[w] # "raised"
                   PROVE  /\ currentReportIndex[w] + 1 + Len(pool'[w]) + Calling(w) =
                               reportCallIndex[w]
                          /\ \A k \in 1..Len(pool'[w]) :
                               pool'[w][k].index = currentReportIndex[w] + 1 + k
      BY <1>4, <3>2 DEF Uploaded
    <3>4. /\ currentReportIndex[w] + Len(pool[w]) + Calling(w) = reportCallIndex[w]
          /\ \A k \in 1..Len(pool[w]) : pool[w][k].index = currentReportIndex[w] + k
      BY <1>4, <2>1, <3>3 DEF InOrder, Uploaded, Alive
    <3>5. currentReportIndex[w] + 1 + Len(pool'[w]) + Calling(w) = reportCallIndex[w]
      BY <3>1, <3>2, <3>4, WorkerTypes
    <3>6. \A k \in 1..Len(Tail(pool[w])) :
            Tail(pool[w])[k].index = currentReportIndex[w] + 1 + k
      BY <1>4, <3>4, WorkerTypes, TailIndexes
    <3>7. QED
      BY <1>4, <3>5, <3>6
  <2>6. Returned(w)'
    BY <1>4, <2>1, WorkerTypes DEF InOrder, Returned, Shaped
  <2>7. QED
    BY <2>2, <2>3, <2>4, <2>5, <2>6 DEF InOrder
<1>7. QED
  BY <1>1, <1>2, <1>3, <1>5, <1>6, LocalStep

(* A failed upload leaves a gap that nothing after it passes. *)
LEMMA PoolFailsKeeps ==
  ASSUME IInv, NEW w \in Workers, PoolFails(w)
  PROVE  IInv'
<1>1. TypeOK'
  <2>1. Tail(pool[w]) \in Seq(Job)
    BY WorkerTypes, HeadTailProperties DEF PoolFails, Busy
  <2>2. QED
    BY <2>1, ReportAssumption DEF IInv, TypeOK, PoolFails, Fault, PutException, controlVars
<1>2. \A v \in Workers \ {w} : Same(v)
  BY DEF IInv, TypeOK, Same, PoolFails, Busy, Runs, Fault, PutException
<1>3. UNCHANGED <<round, controlVars>> /\ control \notin Over
  BY DEF PoolFails, Busy, Runs, Fault, PutException, Over
<1>4. /\ thread[w] # "dead"
      /\ pool[w] # <<>>
      /\ pool'[w] = Tail(pool[w])
      /\ outcome'[w] = IF outcome[w] = "none" THEN "raised" ELSE outcome[w]
      /\ (w \in barrier') = (w \in barrier)
      /\ UNCHANGED <<thread[w], reportCallIndex[w], currentReportIndex[w], resultQueue[w],
                     poll[w], round, buffers, delivered>>
  BY <1>3 DEF IInv, TypeOK, PoolFails, Busy, Runs, Fault, PutException, controlVars
<1>5. Shaped(w)'
  BY <1>4, WorkerTypes DEF Shaped, NoReport
<1>6. ASSUME NoReplacement PROVE InOrder(w)'
  <2>1. InOrder(w)
    BY <1>6 DEF IInv
  <2>2. Synced(w)' /\ Arrived(w)' /\ Sent(w)'
    BY <1>4, <2>1 DEF InOrder, Synced, Arrived, Sent, Alive, Carried
  <2>3. Named(w)'
    <3>1. ASSUME NEW k \in 1..Len(pool'[w])
          PROVE  k + 1 \in 1..Len(pool[w]) /\ pool'[w][k] = pool[w][k + 1]
      BY <1>4, WorkerTypes, TailElements
    <3>2. QED
      BY <1>4, <2>1, <3>1 DEF InOrder, Named
  <2>4. Uploaded(w)'
    BY <1>4, <2>1, WorkerTypes DEF InOrder, Uploaded, Returned, Alive, Calling
  <2>5. Returned(w)'
    BY <1>4, <2>1, WorkerTypes DEF InOrder, Returned, Shaped
  <2>6. QED
    BY <2>2, <2>3, <2>4, <2>5 DEF InOrder
<1>7. QED
  BY <1>1, <1>2, <1>3, <1>5, <1>6, LocalStep

(* A process that dies leaves only what has arrived. *)
LEMMA DieKeeps ==
  ASSUME IInv, NEW w \in Workers, Die(w)
  PROVE  IInv'
<1>1. TypeOK'
  BY ReportAssumption DEF IInv, TypeOK, Die, Runs, Goto, Fault, Process, Threads,
     controlVars, PollSteps, Poll, NewPoll, NoReport, Job
<1>2. \A v \in Workers \ {w} : Same(v)
  BY DEF IInv, TypeOK, Same, Die, Runs, Goto, Fault, Process
<1>3. UNCHANGED <<round, controlVars>> /\ control \notin Over
  BY DEF Die, Runs, Goto, Fault, Process, Over
<1>4. /\ thread[w] # "dead"
      /\ thread'[w] = "dead"
      /\ reportCallIndex'[w] = 0
      /\ currentReportIndex'[w] = 0
      /\ pool'[w] = <<>>
      /\ resultQueue'[w] = <<>>
      /\ outcome'[w] = "none"
      /\ poll'[w] = IF poll[w].step = "done" THEN poll[w] ELSE NewPoll
      /\ (w \in barrier') = (w \in barrier)
      /\ UNCHANGED <<round, buffers, delivered>>
  BY <1>3 DEF IInv, TypeOK, Die, Runs, Goto, Fault, Process, controlVars
<1>5. Shaped(w)'
  BY <1>4, WorkerTypes DEF Shaped, Poll, NewPoll, NoReport
<1>6. ASSUME NoReplacement PROVE InOrder(w)'
  <2>1. InOrder(w)
    BY <1>6 DEF IInv
  <2>2. Synced(w)'
    BY <1>4, <2>1, WorkerTypes DEF InOrder, Synced, Alive
  <2>3. Named(w)'
    BY <1>4, <2>1, WorkerTypes DEF InOrder, Named, Synced, Alive
  <2>4. Arrived(w)'
    BY <1>4, <2>1, WorkerTypes DEF InOrder, Arrived, Sent, Alive, Carried, Shaped, Poll,
       NewPoll, NoReport
  <2>5. Sent(w)'
    BY <1>4, <2>1, WorkerTypes DEF InOrder, Synced, Named, Arrived, Sent, Alive, Carried,
       Shaped, Poll, NewPoll, NoReport
  <2>6. Uploaded(w)'
    BY <1>4, <2>1, WorkerTypes DEF InOrder, Uploaded, Returned, Alive, Calling
  <2>7. Returned(w)'
    BY <1>4, <2>1, WorkerTypes DEF InOrder, Returned, Shaped
  <2>8. QED
    BY <2>2, <2>3, <2>4, <2>5, <2>6, <2>7 DEF InOrder
<1>7. QED
  BY <1>1, <1>2, <1>3, <1>5, <1>6, LocalStep

(* A poll takes the report out of the queue. *)
LEMMA PollReadsKeeps ==
  ASSUME IInv, NEW w \in Workers, PollReads(w)
  PROVE  IInv'
<1>1. TypeOK'
  <2>1. (IF resultQueue[w] = <<>> THEN NoReport ELSE Head(resultQueue[w])) \in Nat
    BY WorkerTypes, HeadTailProperties DEF NoReport
  <2>2. HasError(w) \in BOOLEAN
    BY DEF HasError
  <2>3. Poll("running", IF resultQueue[w] = <<>> THEN NoReport ELSE Head(resultQueue[w]),
             HasError(w), TRUE)
          \in [step : PollSteps, report : Nat, error : BOOLEAN, running : BOOLEAN]
    BY <2>1, <2>2 DEF Poll, PollSteps
  <2>4. poll' \in [Workers -> [step : PollSteps, report : Nat, error : BOOLEAN,
                               running : BOOLEAN]]
    BY <2>3 DEF IInv, TypeOK, PollReads
  <2>5. resultQueue' \in [Workers -> Seq(Nat)]
    BY DEF IInv, TypeOK, PollReads
  <2>6. QED
    BY <2>4, <2>5 DEF IInv, TypeOK, PollReads, syncVars, controlVars
<1>2. \A v \in Workers \ {w} : Same(v)
  BY DEF IInv, TypeOK, Same, PollReads, Runs, syncVars
<1>3. UNCHANGED <<round, controlVars>> /\ control \notin Over
  BY DEF PollReads, Runs, syncVars, Over
<1>4. /\ thread[w] # "dead"
      /\ poll[w].step \in {"idle", "queue"}
      /\ resultQueue'[w] = <<>>
      /\ poll'[w] = Poll("running",
                         IF resultQueue[w] = <<>> THEN NoReport ELSE Head(resultQueue[w]),
                         HasError(w), TRUE)
      /\ (w \in barrier') = (w \in barrier)
      /\ UNCHANGED <<thread[w], reportCallIndex[w], currentReportIndex[w], pool[w],
                     outcome[w], round, buffers, delivered>>
  BY <1>3 DEF IInv, TypeOK, PollReads, Runs, syncVars, controlVars
<1>5. Shaped(w)'
  BY <1>4, WorkerTypes DEF Shaped, Poll, NoReport
<1>6. ASSUME NoReplacement PROVE InOrder(w)'
  <2>1. InOrder(w)
    BY <1>6 DEF IInv
  <2>2. Synced(w)' /\ Named(w)' /\ Uploaded(w)' /\ Returned(w)'
    BY <1>4, <2>1 DEF InOrder, Synced, Named, Uploaded, Returned, Alive, Calling
  <2>3. Arrived(w)'
    BY <1>4, <2>1, WorkerTypes DEF InOrder, Arrived, Sent, Alive, Carried, Shaped, Poll,
       NoReport
  <2>4. Sent(w)'
    BY <1>4, <2>1, WorkerTypes DEF InOrder, Synced, Named, Arrived, Sent, Alive, Carried,
       Shaped, Poll, NoReport
  <2>5. QED
    BY <2>2, <2>3, <2>4 DEF InOrder
<1>7. QED
  BY <1>1, <1>2, <1>3, <1>5, <1>6, LocalStep

(* The answer of a poll has the report it took. *)
LEMMA PollRunningKeeps ==
  ASSUME IInv, NEW w \in Workers, PollRunning(w)
  PROVE  IInv'
<1>1. TypeOK'
  BY ReportAssumption DEF IInv, TypeOK, PollRunning, Runs, workerVars, syncVars, Threads,
     controlVars, PollSteps, Poll, NoReport, Job, IsRunning
<1>2. \A v \in Workers \ {w} : Same(v)
  BY DEF IInv, TypeOK, Same, PollRunning, Runs, workerVars, syncVars
<1>3. UNCHANGED <<round, controlVars>> /\ control \notin Over
  BY DEF PollRunning, Runs, workerVars, syncVars, Over
<1>4. /\ thread[w] # "dead"
      /\ poll[w].step = "running"
      /\ poll'[w] = Poll("done", poll[w].report, poll[w].error, IsRunning(w))
      /\ (w \in barrier') = (w \in barrier)
      /\ UNCHANGED <<thread[w], reportCallIndex[w], currentReportIndex[w], pool[w],
                     resultQueue[w], outcome[w], round, buffers, delivered>>
  BY <1>3 DEF IInv, TypeOK, PollRunning, Runs, workerVars, syncVars, controlVars
<1>5. Shaped(w)'
  <2>1. poll'[w].running = IsRunning(w) /\ poll'[w].report = poll[w].report
    BY <1>4 DEF Poll
  <2>2. poll[w].report # NoReport => poll'[w].running
    BY <2>1 DEF IsRunning
  <2>3. QED
    BY <1>4, <2>1, <2>2, WorkerTypes DEF Shaped, Poll
<1>6. ASSUME NoReplacement PROVE InOrder(w)'
  <2>1. InOrder(w)
    BY <1>6 DEF IInv
  <2>2. Synced(w)' /\ Named(w)' /\ Uploaded(w)' /\ Returned(w)'
    BY <1>4, <2>1 DEF InOrder, Synced, Named, Uploaded, Returned, Alive, Calling
  <2>3. Arrived(w)'
    BY <1>4, <2>1, WorkerTypes DEF InOrder, Arrived, Sent, Alive, Carried, Shaped, Poll,
       NoReport
  <2>4. Sent(w)'
    BY <1>4, <2>1, WorkerTypes DEF InOrder, Synced, Named, Arrived, Sent, Alive, Carried,
       Shaped, Poll, NoReport
  <2>5. QED
    BY <2>2, <2>3, <2>4 DEF InOrder
<1>7. QED
  BY <1>1, <1>2, <1>3, <1>5, <1>6, LocalStep

(* The poll of a dead worker has none. *)
LEMMA PollDeadKeeps ==
  ASSUME IInv, NEW w \in Workers, PollDead(w)
  PROVE  IInv'
<1>1. TypeOK'
  BY ReportAssumption DEF IInv, TypeOK, PollDead, workerVars, syncVars, Threads,
     controlVars, PollSteps, Poll, NoReport, Job
<1>2. \A v \in Workers \ {w} : Same(v)
  BY DEF IInv, TypeOK, Same, PollDead, workerVars, syncVars
<1>3. UNCHANGED <<round, controlVars>> /\ control \notin Over
  BY DEF PollDead, workerVars, syncVars, Over
<1>4. /\ thread[w] = "dead"
      /\ poll[w].step # "done"
      /\ poll'[w] = Poll("done", NoReport, TRUE, FALSE)
      /\ (w \in barrier') = (w \in barrier)
      /\ UNCHANGED <<thread[w], reportCallIndex[w], currentReportIndex[w], pool[w],
                     resultQueue[w], outcome[w], round, buffers, delivered>>
  BY <1>3 DEF IInv, TypeOK, PollDead, workerVars, syncVars, controlVars
<1>5. Shaped(w)'
  BY <1>4, WorkerTypes DEF Shaped, Poll, NoReport
<1>6. ASSUME NoReplacement PROVE InOrder(w)'
  <2>1. InOrder(w)
    BY <1>6 DEF IInv
  <2>2. Synced(w)' /\ Named(w)' /\ Uploaded(w)' /\ Returned(w)'
    BY <1>4, <2>1 DEF InOrder, Synced, Named, Uploaded, Returned, Alive, Calling
  <2>3. Arrived(w)'
    BY <1>4, <2>1, WorkerTypes DEF InOrder, Arrived, Sent, Alive, Carried, Shaped, Poll,
       NoReport
  <2>4. Sent(w)'
    BY <1>4, <2>1, WorkerTypes DEF InOrder, Synced, Named, Arrived, Sent, Alive, Carried,
       Shaped, Poll, NoReport
  <2>5. QED
    BY <2>2, <2>3, <2>4 DEF InOrder
<1>7. QED
  BY <1>1, <1>2, <1>3, <1>5, <1>6, LocalStep

(* A step of the training thread or its monitor that touches no report. *)
LEMMA QuietStep ==
  ASSUME IInv, NEW w \in Workers, \A v \in Workers \ {w} : Same(v), TypeOK',
         UNCHANGED <<round, controlVars>>, control \notin Over,
         UNCHANGED <<reportCallIndex[w], currentReportIndex[w], pool[w], resultQueue[w],
                     outcome[w], poll[w]>>,
         (w \in barrier') = (w \in barrier),
         \/ thread'[w] = thread[w]
         \/ {thread[w], thread'[w]} \subseteq {"training", "COMMITTED", "VALIDATED"}
         \/ {thread[w], thread'[w]} \subseteq {"joining", "ended"}
  PROVE  IInv'
<1>1. Shaped(w)'
  BY WorkerTypes DEF Shaped
<1>2. ASSUME NoReplacement PROVE InOrder(w)'
  <2>1. InOrder(w) /\ UNCHANGED <<buffers, delivered>>
    BY <1>2 DEF IInv, controlVars
  <2>2. Synced(w)' /\ Named(w)' /\ Arrived(w)'
    BY <2>1 DEF InOrder, Synced, Named, Arrived, Alive
  <2>3. Sent(w)' /\ Uploaded(w)' /\ Returned(w)'
    BY <2>1 DEF InOrder, Sent, Uploaded, Returned, Alive, Calling, Carried
  <2>4. QED
    BY <2>2, <2>3 DEF InOrder
<1>3. QED
  BY <1>1, <1>2, LocalStep

(* Asking the manager for its checkpoints reports nothing. *)
LEMMA ReadCheckpointsKeeps ==
  ASSUME IInv, NEW w \in Workers, ReadCheckpoints(w)
  PROVE  IInv'
<1>1. TypeOK'
  BY ReportAssumption DEF IInv, TypeOK, ReadCheckpoints, At, Runs, Goto, syncVars, Threads,
     controlVars, PollSteps, Job
<1>2. \A v \in Workers \ {w} : Same(v)
  BY DEF IInv, TypeOK, Same, ReadCheckpoints, At, Runs, Goto, syncVars
<1>3. UNCHANGED <<round, controlVars>> /\ control \notin Over
  BY DEF ReadCheckpoints, At, Runs, Goto, syncVars, Over
<1>4. /\ thread[w] = "training"
      /\ thread'[w] \in {"COMMITTED", "VALIDATED"}
      /\ (w \in barrier') = (w \in barrier)
      /\ UNCHANGED <<reportCallIndex[w], currentReportIndex[w], pool[w], resultQueue[w],
                     outcome[w], poll[w], round, buffers, delivered>>
  BY <1>3, ReportAssumption DEF IInv, TypeOK, ReadCheckpoints, At, Runs, Goto, syncVars, controlVars
<1>5. QED
  BY <1>1, <1>2, <1>3, <1>4, QuietStep

(* Nor does its answer. *)
LEMMA ReadReturnsKeeps ==
  ASSUME IInv, NEW w \in Workers, ReadReturns(w)
  PROVE  IInv'
<1>1. TypeOK'
  BY ReportAssumption DEF IInv, TypeOK, ReadReturns, At, Runs, Goto, syncVars, Threads,
     controlVars, PollSteps, Job
<1>2. \A v \in Workers \ {w} : Same(v)
  BY DEF IInv, TypeOK, Same, ReadReturns, At, Runs, Goto, syncVars
<1>3. UNCHANGED <<round, controlVars>> /\ control \notin Over
  BY DEF ReadReturns, At, Runs, Goto, syncVars, Over
<1>4. /\ thread[w] \in {"COMMITTED", "VALIDATED"}
      /\ thread'[w] = "training"
      /\ (w \in barrier') = (w \in barrier)
      /\ UNCHANGED <<reportCallIndex[w], currentReportIndex[w], pool[w], resultQueue[w],
                     outcome[w], poll[w], round, buffers, delivered>>
  BY <1>3, ReportAssumption DEF IInv, TypeOK, ReadReturns, At, Runs, Goto, syncVars, controlVars
<1>5. QED
  BY <1>1, <1>2, <1>3, <1>4, QuietStep

(* The end of the thread changes no report. *)
LEMMA EndThreadKeeps ==
  ASSUME IInv, NEW w \in Workers, EndThread(w)
  PROVE  IInv'
<1>1. TypeOK'
  BY ReportAssumption DEF IInv, TypeOK, EndThread, At, Runs, Goto, syncVars, Threads,
     controlVars, PollSteps, Job
<1>2. \A v \in Workers \ {w} : Same(v)
  BY DEF IInv, TypeOK, Same, EndThread, At, Runs, Goto, syncVars
<1>3. UNCHANGED <<round, controlVars>> /\ control \notin Over
  BY DEF EndThread, At, Runs, Goto, syncVars, Over
<1>4. /\ thread[w] = "joining"
      /\ thread'[w] = "ended"
      /\ (w \in barrier') = (w \in barrier)
      /\ UNCHANGED <<reportCallIndex[w], currentReportIndex[w], pool[w], resultQueue[w],
                     outcome[w], poll[w], round, buffers, delivered>>
  BY <1>3 DEF IInv, TypeOK, EndThread, At, Runs, Goto, syncVars, controlVars
<1>5. QED
  BY <1>1, <1>2, <1>3, <1>4, QuietStep

(* The monitor only looks. *)
LEMMA MonitorKeeps ==
  ASSUME IInv, NEW w \in Workers, Monitor(w)
  PROVE  IInv'
<1>1. TypeOK'
  BY ReportAssumption DEF IInv, TypeOK, Monitor, Runs, syncVars, Threads, controlVars,
     PollSteps, Job
<1>2. \A v \in Workers \ {w} : Same(v)
  BY DEF IInv, TypeOK, Same, Monitor, Runs, syncVars
<1>3. UNCHANGED <<round, controlVars>> /\ control \notin Over
  BY DEF Monitor, Runs, syncVars, Over
<1>4. /\ thread[w] # "dead"
      /\ (w \in barrier') = (w \in barrier)
      /\ UNCHANGED <<thread[w], reportCallIndex[w], currentReportIndex[w], pool[w],
                     resultQueue[w], outcome[w], poll[w], round, buffers, delivered>>
  BY <1>3 DEF IInv, TypeOK, Monitor, Runs, syncVars, controlVars
<1>5. QED
  BY <1>1, <1>2, <1>3, <1>4, QuietStep

-----------------------------------------------------------------------------
(* The barrier. *)

(* When the barrier completes every live worker is in it, one call behind the round. *)
LEMMA CompleteBarrierKeeps ==
  ASSUME IInv, CompleteBarrier
  PROVE  IInv'
<1>1. TypeOK'
  BY DEF IInv, TypeOK, CompleteBarrier, Threads, controlVars
<1>2. ASSUME NEW w \in Workers PROVE Shaped(w)'
  BY <1>2, WorkerTypes DEF Shaped, CompleteBarrier
<1>3. ASSUME NoReplacement, NEW w \in Workers PROVE InOrder(w)'
  <2>1. InOrder(w) /\ w \in barrier
    BY <1>3 DEF IInv, CompleteBarrier
  <2>2. thread[w] \in {"syncing", "dead"}
    BY <2>1 DEF InOrder, Synced, Alive
  <2>3. /\ thread'[w] = IF thread[w] = "syncing" THEN "uploading" ELSE thread[w]
        /\ w \notin barrier' /\ round' = round + 1
        /\ UNCHANGED <<reportCallIndex, currentReportIndex, pool, resultQueue, outcome,
                       poll, buffers, delivered>>
    BY DEF CompleteBarrier, controlVars
  <2>4. Synced(w)'
    BY <2>1, <2>2, <2>3, WorkerTypes DEF InOrder, Synced, Alive
  <2>5. Named(w)' /\ Arrived(w)'
    BY <2>1, <2>3 DEF InOrder, Named, Arrived
  <2>6. Sent(w)'
    BY <2>1, <2>2, <2>3 DEF InOrder, Sent, Alive, Carried
  <2>7. Uploaded(w)'
    BY <2>1, <2>2, <2>3 DEF InOrder, Uploaded, Alive, Calling
  <2>8. Returned(w)'
    BY <2>1, <2>2, <2>3, WorkerTypes DEF InOrder, Returned, Shaped
  <2>9. QED
    BY <2>4, <2>5, <2>6, <2>7, <2>8 DEF InOrder
<1>4. HandlerKeepsUp' /\ ReplacesReplicas' /\ (NoReplacement => Concluded')
  BY DEF IInv, HandlerKeepsUp, ReplacesReplicas, Concluded, CompleteBarrier, controlVars
<1>5. NoReplacement' = NoReplacement
  BY DEF NoReplacement, CompleteBarrier, controlVars
<1>6. QED
  BY <1>1, <1>2, <1>3, <1>4, <1>5 DEF IInv

-----------------------------------------------------------------------------
(* The handler merges reports. *)

(* What a worker's buffer holds after step 2 of the handler. *)
LEMMA FilledBuffer ==
  ASSUME IInv, NEW w \in Workers
  PROVE  /\ Filled(w) \in Seq(Nat)
         /\ Len(Filled(w)) \in {Len(buffers[w]), Len(buffers[w]) + 1}
         /\ Filled(w) # <<>> => Tail(Filled(w)) \in Seq(Nat)
  BY WorkerTypes, AppendProperties, HeadTailProperties DEF Filled

(* The types of what Merge leaves. *)
LEMMA MergeTypes ==
  ASSUME IInv, Merge
  PROVE  /\ buffers' \in [Workers -> Seq(Nat)] /\ delivered' \in Nat
         /\ validating' \in BOOLEAN
<1>1. ASSUME NEW w \in Workers
      PROVE  (IF AllReported THEN Tail(Filled(w)) ELSE Filled(w)) \in Seq(Nat)
  BY FilledBuffer DEF AllReported
<1>2. delivered' \in Nat
  BY DEF Merge, Deliver, IInv, TypeOK
<1>3. validating' \in BOOLEAN
  BY Zenon DEF Merge, Deliver, IInv, TypeOK
<1>4. QED
  BY <1>1, <1>2, <1>3 DEF Merge

(* A buffer with one report is empty once it is taken. *)
LEMMA ShortTail ==
  ASSUME NEW s \in Seq(Nat), s # <<>>, Len(s) <= 1
  PROVE  Tail(s) = <<>>
<1>1. Len(s) \in Nat \ {0}
  BY EmptySeq
<1>2. Tail(s) \in Seq(Nat) /\ Len(Tail(s)) = Len(s) - 1
  BY HeadTailProperties
<1>3. Len(Tail(s)) = 0
  BY <1>1, <1>2
<1>4. QED
  BY <1>2, <1>3, EmptySeq

(* The handler never keeps a complete set of reports. *)
LEMMA MergeKeepsUp ==
  ASSUME IInv, Merge
  PROVE  HandlerKeepsUp'
<1>1. CASE AllReported
  <2>1. PICK w \in Workers : buffers[w] = <<>>
    BY DEF IInv, HandlerKeepsUp
  <2>2. Filled(w) \in Seq(Nat) /\ Filled(w) # <<>> /\ Len(Filled(w)) <= 1
    BY <1>1, <2>1, FilledBuffer DEF AllReported
  <2>3. Tail(Filled(w)) = <<>>
    BY <2>2, ShortTail
  <2>4. buffers'[w] = <<>>
    BY <1>1, <2>3 DEF Merge
  <2>5. QED
    BY <2>4 DEF HandlerKeepsUp
<1>2. CASE ~AllReported
  BY <1>2 DEF AllReported, Merge, HandlerKeepsUp
<1>3. QED
  BY <1>1, <1>2

(* What becomes of the poll of w when its answer is handled. *)
Handled(w) ==
  \/ w \in Answered /\ poll'[w] = NewPoll
  \/ w \notin Answered /\ poll'[w] = poll[w]
  \/ poll[w].report = NoReport /\ poll'[w] = poll[w]

(* The buffered reports are the ones after the last delivered. *)
LEMMA FilledInOrder ==
  ASSUME IInv, NEW w \in Workers, Arrived(w), Handled(w)
  PROVE  /\ \A i \in 1..Len(Filled(w)) : Filled(w)[i] = delivered + i
         /\ poll'[w].report # NoReport => poll'[w].report = delivered + Len(Filled(w)) + 1
         /\ Len(Filled(w)) + Carried(w)' = Len(buffers[w]) + Carried(w)
<1>1. CASE w \in Answered /\ poll[w].report # NoReport
  <2>1. Filled(w) = Append(buffers[w], poll[w].report)
    BY <1>1 DEF Filled
  <2>2. /\ Len(Filled(w)) = Len(buffers[w]) + 1
        /\ \A i \in 1..Len(buffers[w]) : Filled(w)[i] = buffers[w][i]
        /\ Filled(w)[Len(buffers[w]) + 1] = poll[w].report
    BY <2>1, WorkerTypes, AppendProperties
  <2>3. ASSUME NEW i \in 1..Len(Filled(w)) PROVE Filled(w)[i] = delivered + i
    <3>1. poll[w].report = delivered + (Len(buffers[w]) + 1)
      BY <1>1, WorkerTypes DEF Arrived
    <3>2. Len(buffers[w]) \in Nat /\ i \in 1..(Len(buffers[w]) + 1)
      BY <2>2, WorkerTypes
    <3>3. CASE i = Len(buffers[w]) + 1
      BY <2>2, <3>1, <3>3
    <3>4. CASE i # Len(buffers[w]) + 1
      <4>1. i \in 1..Len(buffers[w])
        BY <3>2, <3>4
      <4>2. QED
        BY <2>2, <4>1 DEF Arrived
    <3>5. QED
      BY <3>3, <3>4
  <2>4. poll'[w].report = NoReport
    BY <1>1 DEF Handled, NewPoll, Poll
  <2>5. QED
    BY <1>1, <2>2, <2>3, <2>4, WorkerTypes DEF Carried
<1>2. CASE w \notin Answered \/ poll[w].report = NoReport
  <2>1. Filled(w) = buffers[w]
    BY <1>2 DEF Filled
  <2>2. poll'[w].report = poll[w].report
    BY <1>2 DEF Handled, NewPoll, Poll
  <2>3. QED
    BY <2>1, <2>2 DEF Carried, Arrived
<1>3. QED
  BY <1>1, <1>2

(* Consecutive reports stay so when the first is taken. *)
LEMMA TailInOrder ==
  ASSUME NEW s \in Seq(Nat), s # <<>>, NEW d \in Nat,
         \A i \in 1..Len(s) : s[i] = d + i
  PROVE  /\ Len(Tail(s)) \in Nat /\ d + 1 + Len(Tail(s)) = d + Len(s)
         /\ \A i \in 1..Len(Tail(s)) : Tail(s)[i] = d + 1 + i
<1>1. Len(s) \in Nat /\ Len(Tail(s)) \in Nat /\ Len(Tail(s)) = Len(s) - 1
  BY TailElements
<1>2. ASSUME NEW i \in 1..Len(Tail(s)) PROVE Tail(s)[i] = d + 1 + i
  <2>1. i \in Nat /\ i + 1 \in 1..Len(s) /\ Tail(s)[i] = s[i + 1]
    BY TailElements
  <2>2. s[i + 1] = d + (i + 1)
    BY <2>1
  <2>3. QED
    BY <2>1, <2>2
<1>3. QED
  BY <1>1, <1>2

(***************************************************************************)
(* Merging keeps every worker's reports in order: the head of every buffer *)
(* is the report that is delivered.                                        *)
(***************************************************************************)
LEMMA MergeInOrder ==
  ASSUME IInv, NoReplacement, NEW w \in Workers, Merge, Handled(w),
         UNCHANGED <<workerVars, syncVars>>
  PROVE  InOrder(w)'
<1> DEFINE F == Filled(w)
<1>1. InOrder(w) /\ UNCHANGED <<thread, reportCallIndex, currentReportIndex, pool,
                                resultQueue, outcome, barrier, round>>
  BY DEF IInv, workerVars, syncVars
<1>2. /\ F \in Seq(Nat) /\ Len(F) \in Nat
      /\ \A i \in 1..Len(F) : F[i] = delivered + i
      /\ poll'[w].report # NoReport => poll'[w].report = delivered + Len(F) + 1
      /\ Len(F) + Carried(w)' = Len(buffers[w]) + Carried(w)
  BY <1>1, FilledInOrder, FilledBuffer, LenProperties DEF InOrder
<1>3. /\ delivered' + Len(buffers'[w]) = delivered + Len(F)
      /\ \A i \in 1..Len(buffers'[w]) : buffers'[w][i] = delivered' + i
      /\ delivered' \in Nat /\ Len(buffers'[w]) \in Nat
  <2>1. CASE ~AllReported
    BY <1>2, <2>1, WorkerTypes DEF Merge, Deliver
  <2>2. CASE AllReported
    <3>1. F # <<>> /\ buffers'[w] = Tail(F) /\ delivered' = delivered + 1
      BY <2>2 DEF Merge, Deliver, AllReported
    <3>2. /\ Len(Tail(F)) \in Nat /\ delivered + 1 + Len(Tail(F)) = delivered + Len(F)
          /\ \A i \in 1..Len(Tail(F)) : Tail(F)[i] = delivered + 1 + i
      BY <1>2, <3>1, TailInOrder, WorkerTypes
    <3>3. delivered + 1 \in Nat
      BY WorkerTypes
    <3>4. QED
      BY <3>1, <3>2, <3>3
  <2>3. QED
    BY <2>1, <2>2
<1>4. Arrived(w)'
  BY <1>2, <1>3 DEF Arrived
<1>5. Sent(w)'
  <2>1. Carried(w) \in {0, 1} /\ Carried(w)' \in {0, 1}
    BY DEF Carried
  <2>2. delivered' + Len(buffers'[w]) + Carried(w)' + Len(resultQueue[w]) =
          delivered + Len(buffers[w]) + Carried(w) + Len(resultQueue[w])
    <3>1. Len(F) + Carried(w)' = Len(buffers[w]) + Carried(w)
      BY <1>2
    <3>2. delivered' + Len(buffers'[w]) = delivered + Len(F)
      BY <1>3
    <3>3. /\ delivered \in Nat /\ delivered' \in Nat /\ Len(F) \in Nat
          /\ Len(buffers[w]) \in Nat /\ Len(buffers'[w]) \in Nat
          /\ Len(resultQueue[w]) \in Nat
      BY <1>2, <1>3, WorkerTypes
    <3> HIDE DEF F
    <3>4. QED
      BY <2>1, <3>1, <3>2, <3>3
  <2>3. QED
    BY <1>1, <2>2 DEF InOrder, Sent, Alive
<1>6. Synced(w)' /\ Named(w)' /\ Uploaded(w)' /\ Returned(w)'
  BY <1>1 DEF InOrder, Synced, Named, Uploaded, Returned, Alive, Calling
<1>7. QED
  BY <1>4, <1>5, <1>6 DEF InOrder

(* The handler has nothing to refuse: all heads are the next report. *)
LEMMA HandlerNeverRefuses ==
  ASSUME IInv, NoReplacement
  PROVE  ~HandlerRefuses
<1> SUFFICES ASSUME AllReported PROVE Consistent
  BY DEF HandlerRefuses
<1>1. ASSUME NEW w \in Workers PROVE Head(Filled(w)) = delivered + 1
  <2>1. /\ Filled(w) \in Seq(Nat) /\ Filled(w) # <<>>
    BY FilledBuffer DEF AllReported
  <2>2. Arrived(w)
    BY DEF IInv, InOrder
  <2>3. CASE buffers[w] = <<>>
    <3>1. Filled(w) = Append(<<>>, poll[w].report) /\ poll[w].report # NoReport
      BY <2>1, <2>3 DEF Filled
    <3>2. Head(Filled(w)) = poll[w].report
      BY <3>1, WorkerTypes
    <3>3. QED
      BY <2>2, <2>3, <3>1, <3>2, WorkerTypes DEF Arrived
  <2>4. CASE buffers[w] # <<>>
    <3>1. Len(buffers[w]) > 0 /\ 1 \in 1..Len(buffers[w])
      BY <2>4, WorkerTypes, EmptySeq
    <3>2. Head(Filled(w)) = buffers[w][1]
      BY <2>1, <3>1, WorkerTypes, AppendProperties, HeadTailProperties DEF Filled
    <3>3. QED
      BY <2>2, <3>1, <3>2 DEF Arrived
  <2>5. QED
    BY <2>3, <2>4
<1>2. QED
  BY <1>1 DEF Consistent

-----------------------------------------------------------------------------
(* The controller goes on after a poll. *)

(* The rounds that time out stay within their bound. *)
LEMMA HandlingTypes ==
  ASSUME IInv, Handling
  PROVE  hangs' \in 0..MaxHangs /\ control = "polling"
  BY ReportAssumption DEF Handling, IInv, TypeOK

(* The polls that were answered are forgotten, the others go on. *)
LEMMA PollAgainHandles ==
  ASSUME IInv, PollAgain
  PROVE  /\ poll' \in [Workers -> [step : PollSteps, report : Nat, error : BOOLEAN,
                                   running : BOOLEAN]]
         /\ \A w \in Workers : Handled(w)
<1>1. NewPoll \in [step : PollSteps, report : Nat, error : BOOLEAN, running : BOOLEAN]
  BY DEF NewPoll, Poll, PollSteps, NoReport
<1>2. QED
  BY <1>1, WorkerTypes DEF PollAgain, Handled

(* A poll that is handled without replacing workers. *)
LEMMA HandledStep ==
  ASSUME IInv, Merge, \A w \in Workers : Handled(w), UNCHANGED <<workerVars, syncVars>>,
         poll' \in [Workers -> [step : PollSteps, report : Nat, error : BOOLEAN,
                                running : BOOLEAN]],
         hangs' \in 0..MaxHangs, failures' \in Nat, UNCHANGED <<failing, backend>>,
         control' \in {"polling", "finished", "failed"},
         NoReplacement => Concluded'
  PROVE  IInv'
<1>1. TypeOK'
  BY MergeTypes DEF IInv, TypeOK, workerVars, syncVars, Over
<1>2. ASSUME NEW w \in Workers PROVE Shaped(w)'
  <2>1. /\ UNCHANGED <<thread, reportCallIndex, resultQueue, outcome>>
        /\ poll'[w] = poll[w] \/ poll'[w] = NewPoll
    BY DEF workerVars, Handled
  <2>2. QED
    BY <2>1, WorkerTypes DEF Shaped, NewPoll, Poll
<1>3. ASSUME NoReplacement, NEW w \in Workers PROVE InOrder(w)'
  BY <1>3, MergeInOrder
<1>4. HandlerKeepsUp' /\ ReplacesReplicas' /\ NoReplacement' = NoReplacement
  BY MergeKeepsUp DEF ReplacesReplicas, NoReplacement
<1>5. QED
  BY <1>1, <1>2, <1>3, <1>4 DEF IInv

(* The next poll follows. *)
LEMMA PollGoesOnKeeps ==
  ASSUME IInv, PollGoesOn
  PROVE  IInv'
<1>1. Merge /\ PollAgain /\ Handling /\ failures' \in Nat /\ control' = control
  BY DEF PollGoesOn, Accepting, IInv, TypeOK
<1>2. control = "polling" /\ hangs' \in 0..MaxHangs
  BY <1>1, HandlingTypes
<1>3. NoReplacement => Concluded'
  BY <1>1, <1>2 DEF Concluded
<1>4. UNCHANGED <<workerVars, syncVars>> /\ UNCHANGED <<failing, backend>>
  BY DEF PollGoesOn
<1>5. QED
  BY <1>1, <1>2, <1>3, <1>4, PollAgainHandles, HandledStep

(* The answers that finish a run carry no report. *)
LEMMA PollFinishesKeeps ==
  ASSUME IInv, PollFinishes
  PROVE  IInv'
<1>1. Merge /\ Handling /\ failures' \in Nat /\ control' = "finished" /\ poll' = poll
  BY DEF PollFinishes, Accepting, IInv, TypeOK
<1>2. hangs' \in 0..MaxHangs
  BY <1>1, HandlingTypes
<1>3. \A w \in Workers : poll[w].report = NoReport
  BY WorkerTypes DEF PollFinishes, Answered, Shaped
<1>4. NoReplacement => Concluded'
  BY <1>1, <1>3 DEF Concluded
<1>5. UNCHANGED <<workerVars, syncVars>> /\ UNCHANGED <<failing, backend>>
  BY DEF PollFinishes
<1>6. \A w \in Workers : Handled(w)
  BY <1>1, <1>3 DEF Handled
<1>7. poll' \in [Workers -> [step : PollSteps, report : Nat, error : BOOLEAN,
                             running : BOOLEAN]]
  BY <1>1 DEF IInv, TypeOK
<1>8. QED
  BY <1>1, <1>2, <1>4, <1>5, <1>6, <1>7, HandledStep

(* The run fails, with the reports it has. *)
LEMMA GiveUpKeeps ==
  ASSUME IInv, GiveUp
  PROVE  IInv'
<1>1. Merge /\ PollAgain /\ Handling /\ failures' \in Nat /\ control' = "failed"
  BY DEF GiveUp, PollFails, Accepting, IInv, TypeOK
<1>2. hangs' \in 0..MaxHangs
  BY <1>1, HandlingTypes
<1>3. NoReplacement => Concluded'
  BY <1>1 DEF Concluded
<1>4. UNCHANGED <<workerVars, syncVars>> /\ UNCHANGED <<failing, backend>>
  BY DEF GiveUp
<1>5. QED
  BY <1>1, <1>2, <1>3, <1>4, PollAgainHandles, HandledStep

(* Only a run with replica groups ends on inconsistent reports. *)
LEMMA HandlerRefusesKeeps ==
  ASSUME IInv, HandlerRefuses
  PROVE  IInv'
<1>1. ~NoReplacement /\ backend' = backend /\ control' = "inconsistent"
  BY HandlerNeverRefuses DEF HandlerRefuses
<1>2. TypeOK'
  BY HandlingTypes DEF HandlerRefuses, IInv, TypeOK, workerVars, syncVars, Over
<1>3. HandlerKeepsUp' /\ ReplacesReplicas'
  BY <1>1 DEF IInv, HandlerKeepsUp, ReplacesReplicas, HandlerRefuses
<1>4. ASSUME NEW w \in Workers PROVE Shaped(w)'
  BY WorkerTypes DEF Shaped, HandlerRefuses, workerVars
<1>5. QED
  BY <1>1, <1>2, <1>3, <1>4 DEF IInv, NoReplacement

(* New processes, all of them at the manager's report index. *)
LEMMA RestartKeeps ==
  ASSUME IInv, RestartGroup
  PROVE  IInv'
<1>1. PICK late \in SUBSET (Workers \ Answered) : Restart(late)
  BY DEF RestartGroup
<1>2. /\ Handling /\ failures' \in Nat /\ delivered' \in Nat /\ control' = control
      /\ backend' \in {"open", "plain", "replicas"}
      /\ backend' # "replicas" => backend # "replicas"
  BY <1>1, ReportAssumption DEF Restart, Deliver, PollFails, Accepting, IInv, TypeOK
<1>3. control = "polling" /\ hangs' \in 0..MaxHangs
  BY <1>2, HandlingTypes
<1>4. TypeOK'
  <2>1. /\ NewPoll \in [step : PollSteps, report : Nat, error : BOOLEAN, running : BOOLEAN]
        /\ <<>> \in Seq(Nat) /\ <<>> \in Seq(Job) /\ "training" \in Threads
    BY EmptySeq DEF NewPoll, Poll, PollSteps, NoReport, Threads
  <2>2. UNCHANGED <<faults, control, failing>> /\ barrier' = {} /\ round' \in Nat
    BY <1>1, <1>2 DEF Restart
  <2>3. /\ thread' \in [Workers -> Threads] /\ reportCallIndex' \in [Workers -> Nat]
        /\ currentReportIndex' \in [Workers -> Nat] /\ pool' \in [Workers -> Seq(Job)]
        /\ resultQueue' \in [Workers -> Seq(Nat)] /\ buffers' \in [Workers -> Seq(Nat)]
        /\ outcome' \in [Workers -> {"none", "returned", "raised"}]
        /\ monitored' \in [Workers -> BOOLEAN]
        /\ poll' \in [Workers -> [step : PollSteps, report : Nat, error : BOOLEAN,
                                  running : BOOLEAN]]
    BY <1>1, <1>2, <2>1 DEF Restart
  <2>4. validating' \in BOOLEAN
    BY <1>1, Zenon DEF Restart, Deliver, IInv, TypeOK
  <2>5. QED
    BY <1>2, <1>3, <2>2, <2>3, <2>4 DEF IInv, TypeOK
<1>5. ASSUME NEW w \in Workers
      PROVE  /\ thread'[w] = "training" /\ pool'[w] = <<>> /\ resultQueue'[w] = <<>>
             /\ reportCallIndex'[w] = delivered' /\ currentReportIndex'[w] = delivered'
             /\ outcome'[w] = "none" /\ poll'[w] = NewPoll /\ buffers'[w] = <<>>
             /\ w \notin barrier' /\ round' = delivered'
  BY <1>1 DEF Restart
<1>6. ASSUME NEW w \in Workers PROVE Shaped(w)'
  BY <1>5 DEF Shaped, NewPoll, Poll
<1>7. ASSUME NEW w \in Workers PROVE InOrder(w)'
  <2>1. Len(pool'[w]) = 0 /\ Len(resultQueue'[w]) = 0 /\ Len(buffers'[w]) = 0
    BY <1>5
  <2>2. poll'[w].report = NoReport
    BY <1>5 DEF NewPoll, Poll
  <2>3. Synced(w)' /\ Returned(w)'
    BY <1>5 DEF Synced, Returned, Alive
  <2>4. Named(w)' /\ Arrived(w)'
    BY <2>1, <2>2 DEF Named, Arrived
  <2>5. Sent(w)' /\ Uploaded(w)'
    BY <1>2, <1>5, <2>1, <2>2 DEF Sent, Uploaded, Alive, Calling, Carried
  <2>6. QED
    BY <2>3, <2>4, <2>5 DEF InOrder
<1>8. HandlerKeepsUp' /\ ReplacesReplicas' /\ Concluded'
  BY <1>2, <1>3, <1>5, ReportAssumption DEF HandlerKeepsUp, ReplacesReplicas, Concluded
<1>9. QED
  BY <1>4, <1>6, <1>7, <1>8 DEF IInv

-----------------------------------------------------------------------------
(* Replica groups are replaced. *)

(* Of a run with replica groups less is claimed. *)
LEMMA ReplacementStep ==
  ASSUME TypeOK', HandlerKeepsUp', backend' = "replicas",
         \A w \in Workers : Shaped(w)'
  PROVE  IInv'
  BY DEF IInv, ReplacesReplicas, NoReplacement

(* The last poll before a replacement. *)
LEMMA BeginReplacementKeeps ==
  ASSUME IInv, BeginReplacement
  PROVE  IInv'
<1>1. /\ Handling /\ Merge /\ failures' \in Nat /\ failing' \in SUBSET Workers
      /\ backend' = "replicas" /\ control' = "replacing"
  BY DEF BeginReplacement, PollFails, Accepting, PolledErrors, Answered, IInv, TypeOK
<1>2. /\ UNCHANGED <<thread, reportCallIndex, currentReportIndex, pool, resultQueue,
                     outcome, monitored, barrier, round, faults>>
  BY DEF BeginReplacement, workerVars, syncVars
<1>3. ASSUME NEW w \in Workers
      PROVE  poll'[w] \in {NewPoll, Poll("queue", NoReport, FALSE, TRUE), poll[w]}
  BY DEF BeginReplacement
<1>4. poll' \in [Workers -> [step : PollSteps, report : Nat, error : BOOLEAN,
                             running : BOOLEAN]]
  <2>1. ASSUME NEW w \in Workers
        PROVE  poll'[w] \in [step : PollSteps, report : Nat, error : BOOLEAN,
                             running : BOOLEAN]
    <3>1. /\ {NewPoll, Poll("queue", NoReport, FALSE, TRUE)} \subseteq
               [step : PollSteps, report : Nat, error : BOOLEAN, running : BOOLEAN]
      BY DEF NewPoll, Poll, PollSteps, NoReport
    <3>2. QED
      BY <1>3, <3>1, WorkerTypes
  <2>2. DOMAIN poll' = Workers /\ poll' = [w \in DOMAIN poll' |-> poll'[w]]
    BY DEF BeginReplacement
  <2>3. QED
    BY <2>1, <2>2
<1>5. TypeOK'
  BY <1>1, <1>2, <1>4, MergeTypes, HandlingTypes DEF IInv, TypeOK
<1>6. ASSUME NEW w \in Workers PROVE Shaped(w)'
  BY <1>2, <1>3, WorkerTypes DEF Shaped, NewPoll, Poll
<1>7. QED
  BY <1>1, <1>5, <1>6, MergeKeepsUp, ReplacementStep

(* The old worker's process ends. *)
LEMMA ShutDownOldKeeps ==
  ASSUME IInv, ShutDownOld
  PROVE  IInv'
<1>1. backend' = "replicas" /\ HandlerKeepsUp'
  BY DEF IInv, ShutDownOld, ReplacesReplicas, HandlerKeepsUp
<1>2. TypeOK'
  <2>1. /\ NewPoll \in [step : PollSteps, report : Nat, error : BOOLEAN, running : BOOLEAN]
        /\ <<>> \in Seq(Nat) /\ <<>> \in Seq(Job) /\ "dead" \in Threads
    BY EmptySeq DEF NewPoll, Poll, PollSteps, NoReport, Threads
  <2>2. QED
    BY <2>1 DEF IInv, TypeOK, ShutDownOld, Process, Goto, syncVars
<1>3. ASSUME NEW w \in Workers PROVE Shaped(w)'
  <2>1. CASE w = Old
    BY <2>1, EmptySeq DEF IInv, TypeOK, Shaped, ShutDownOld, Process, Goto, NewPoll, Poll
  <2>2. CASE w # Old
    BY <2>2, WorkerTypes DEF IInv, TypeOK, Shaped, ShutDownOld, Process, Goto
  <2>3. QED
    BY <2>1, <2>2
<1>4. QED
  BY <1>1, <1>2, <1>3, ReplacementStep

(* The survivors' queues are emptied. *)
LEMMA ClearResultQueuesKeeps ==
  ASSUME IInv, ClearResultQueues
  PROVE  IInv'
<1>1. backend' = "replicas" /\ HandlerKeepsUp'
  BY DEF IInv, ClearResultQueues, ReplacesReplicas, HandlerKeepsUp
<1>2. TypeOK'
  BY EmptySeq DEF IInv, TypeOK, ClearResultQueues, syncVars
<1>3. ASSUME NEW w \in Workers PROVE Shaped(w)'
  BY WorkerTypes, EmptySeq DEF Shaped, ClearResultQueues
<1>4. QED
  BY <1>1, <1>2, <1>3, ReplacementStep

(* A survivor has died. *)
LEMMA ClearFailsKeeps ==
  ASSUME IInv, ClearFails
  PROVE  IInv'
<1>1. backend' = "replicas" /\ HandlerKeepsUp'
  BY DEF IInv, ClearFails, ReplacesReplicas, HandlerKeepsUp
<1>2. TypeOK'
  BY DEF IInv, TypeOK, ClearFails, workerVars, syncVars, Over
<1>3. ASSUME NEW w \in Workers PROVE Shaped(w)'
  BY WorkerTypes DEF Shaped, ClearFails, workerVars
<1>4. QED
  BY <1>1, <1>2, <1>3, ReplacementStep

(* A call in the barrier was counted, so its index can be given back. *)
LEMMA ResetBarrierKeeps ==
  ASSUME IInv, ResetBarrier
  PROVE  IInv'
<1>1. backend' = "replicas" /\ HandlerKeepsUp'
  BY DEF IInv, ResetBarrier, ReplacesReplicas, HandlerKeepsUp
<1>2. TypeOK'
  <2>1. ASSUME NEW w \in Workers PROVE AfterReset(w) \in Nat
    BY WorkerTypes DEF AfterReset, Shaped
  <2>2. thread' \in [Workers -> Threads] /\ reportCallIndex' \in [Workers -> Nat]
    BY <2>1 DEF IInv, TypeOK, ResetBarrier, Threads
  <2>3. QED
    BY <2>2 DEF IInv, TypeOK, ResetBarrier
<1>3. ASSUME NEW w \in Workers PROVE Shaped(w)'
  <2>1. /\ thread'[w] # "syncing" /\ (thread'[w] = "dead" => thread[w] = "dead")
        /\ UNCHANGED <<outcome, resultQueue, poll>>
    BY DEF ResetBarrier
  <2>2. QED
    BY <2>1, WorkerTypes DEF Shaped
<1>4. QED
  BY <1>1, <1>2, <1>3, ReplacementStep

(* The new worker starts, and all buffers are empty. *)
LEMMA StartNewKeeps ==
  ASSUME IInv, StartNew
  PROVE  IInv'
<1>1. backend' = "replicas" /\ HandlerKeepsUp'
  BY ReportAssumption DEF IInv, StartNew, ReplacesReplicas, HandlerKeepsUp
<1>2. TypeOK'
  <2>1. <<>> \in Seq(Nat) /\ <<>> \in Seq(Job) /\ "training" \in Threads
    BY EmptySeq DEF Threads
  <2>2. QED
    BY <2>1 DEF IInv, TypeOK, StartNew, Process, Goto, syncVars
<1>3. ASSUME NEW w \in Workers PROVE Shaped(w)'
  <2>1. CASE w = Old
    BY <2>1, EmptySeq, WorkerTypes DEF IInv, TypeOK, Shaped, StartNew, Process, Goto
  <2>2. CASE w # Old
    BY <2>2, WorkerTypes DEF IInv, TypeOK, Shaped, StartNew, Process, Goto
  <2>3. QED
    BY <2>1, <2>2
<1>4. QED
  BY <1>1, <1>2, <1>3, ReplacementStep

-----------------------------------------------------------------------------
(* The invariant holds initially and every step keeps it. *)

(* The first group starts at index 0. *)
LEMMA InitIInv == Init => IInv
<1> SUFFICES ASSUME Init PROVE IInv
  OBVIOUS
<1>1. TypeOK
  <2>1. /\ NewPoll \in [step : PollSteps, report : Nat, error : BOOLEAN, running : BOOLEAN]
        /\ <<>> \in Seq(Nat) /\ <<>> \in Seq(Job) /\ "training" \in Threads
    BY EmptySeq DEF NewPoll, Poll, PollSteps, NoReport, Threads
  <2>2. /\ thread \in [Workers -> Threads] /\ reportCallIndex \in [Workers -> Nat]
        /\ currentReportIndex \in [Workers -> Nat] /\ pool \in [Workers -> Seq(Job)]
        /\ resultQueue \in [Workers -> Seq(Nat)] /\ buffers \in [Workers -> Seq(Nat)]
        /\ outcome \in [Workers -> {"none", "returned", "raised"}]
        /\ monitored \in [Workers -> BOOLEAN]
        /\ poll \in [Workers -> [step : PollSteps, report : Nat, error : BOOLEAN,
                                 running : BOOLEAN]]
    BY <2>1 DEF Init
  <2>3. /\ barrier \in SUBSET Workers /\ round \in Nat /\ faults \in 0..MaxFaults
        /\ delivered \in Nat /\ control = "polling" /\ failures \in Nat
        /\ hangs \in 0..MaxHangs /\ failing \in SUBSET Workers
        /\ backend \in {"open", "plain", "replicas"}
    BY ReportAssumption DEF Init
  <2>4. validating \in BOOLEAN
    BY Zenon DEF Init
  <2>5. QED
    BY <2>2, <2>3, <2>4 DEF TypeOK
<1>2. HandlerKeepsUp /\ ReplacesReplicas /\ Concluded
  BY ReportAssumption DEF Init, HandlerKeepsUp, ReplacesReplicas, Concluded
<1>3. ASSUME NEW w \in Workers PROVE Shaped(w)
  BY EmptySeq DEF Init, Shaped, NewPoll, Poll
<1>4. ASSUME NEW w \in Workers PROVE InOrder(w)
  <2>1. Len(pool[w]) = 0 /\ Len(resultQueue[w]) = 0 /\ Len(buffers[w]) = 0
    BY EmptySeq DEF Init
  <2>2. poll[w].report = NoReport
    BY DEF Init, NewPoll, Poll
  <2>3. Synced(w) /\ Returned(w)
    BY DEF Init, Synced, Returned, Alive
  <2>4. Named(w) /\ Arrived(w)
    BY <2>1, <2>2 DEF Named, Arrived
  <2>5. Sent(w) /\ Uploaded(w)
    BY <2>1, <2>2 DEF Init, Sent, Uploaded, Alive, Calling, Carried
  <2>6. QED
    BY <2>3, <2>4, <2>5 DEF InOrder
<1>5. QED
  BY <1>1, <1>2, <1>3, <1>4 DEF IInv

(* Nothing changes, or only what the manager knows of validations. *)
LEMMA SettleKeeps ==
  ASSUME IInv, Settle \/ UNCHANGED vars
  PROVE  IInv'
<1>1. /\ UNCHANGED <<thread, reportCallIndex, currentReportIndex, pool, resultQueue,
                     outcome, monitored, poll, barrier, round, faults, buffers,
                     delivered, control, failures, hangs, failing, backend>>
      /\ validating' \in BOOLEAN
  BY DEF IInv, TypeOK, Settle, vars, workerVars, syncVars, controlVars
<1>2. TypeOK'
  BY <1>1 DEF IInv, TypeOK
<1>3. HandlerKeepsUp' /\ ReplacesReplicas' /\ (NoReplacement => Concluded')
  BY <1>1 DEF IInv, HandlerKeepsUp, ReplacesReplicas, Concluded
<1>4. ASSUME NEW w \in Workers PROVE Shaped(w)'
  BY <1>1, WorkerTypes DEF Shaped
<1>5. ASSUME NoReplacement, NEW w \in Workers PROVE InOrder(w)'
  <2>1. InOrder(w)
    BY <1>5 DEF IInv
  <2>2. QED
    BY <1>1, <2>1 DEF InOrder, Synced, Named, Arrived, Sent, Uploaded, Returned, Alive,
       Calling, Carried
<1>6. NoReplacement' = NoReplacement
  BY <1>1 DEF NoReplacement
<1>7. QED
  BY <1>2, <1>3, <1>4, <1>5, <1>6 DEF IInv

(* One case for each action. *)
LEMMA NextIInv ==
  ASSUME IInv, [Next]_vars
  PROVE  IInv'
<1>1. ASSUME NEW w \in Workers, Advance(w) \/ ReadCheckpoints(w) \/ ThreadStep(w)
      PROVE  IInv'
  BY <1>1, ReportKeeps, TrainFnReturnsKeeps, ReadCheckpointsKeeps, SubmitUploadKeeps,
     WaitThenReportKeeps, ReadReturnsKeeps, EndThreadKeeps DEF Advance, ThreadStep
<1>2. ASSUME NEW w \in Workers,
             PoolReports(w) \/ Monitor(w) \/ PollStep(w) \/ Failure(w)
      PROVE  IInv'
  BY <1>2, PoolReportsKeeps, MonitorKeeps, PollReadsKeeps, PollRunningKeeps, PollDeadKeeps,
     TrainFnRaisesKeeps, PoolFailsKeeps, DieKeeps DEF PollStep, Failure
<1>3. CASE CompleteBarrier
  BY <1>3, CompleteBarrierKeeps
<1>4. CASE PollCompletes
  BY <1>4, HandlerRefusesKeeps, PollGoesOnKeeps, PollFinishesKeeps DEF PollCompletes
<1>5. CASE GiveUp
  BY <1>5, GiveUpKeeps
<1>6. CASE RestartGroup
  BY <1>6, RestartKeeps
<1>7. CASE BeginReplacement
  BY <1>7, BeginReplacementKeeps
<1>8. CASE Replace
  BY <1>8, ShutDownOldKeeps, ClearResultQueuesKeeps, ClearFailsKeeps, ResetBarrierKeeps,
     StartNewKeeps DEF Replace
<1>9. CASE Settle \/ Terminated \/ UNCHANGED vars
  BY <1>9, SettleKeeps DEF Terminated
<1>10. QED
  BY <1>1, <1>2, <1>3, <1>4, <1>5, <1>6, <1>7, <1>8, <1>9 DEF Next

(***************************************************************************)
(* The numbers in the pool, the queue, the poll and the buffer of every    *)
(* worker are those its calls of report() gave out, in order.              *)
(***************************************************************************)
THEOREM Invariance == Spec => []IInv
<1>1. Init => IInv
  BY InitIInv
<1>2. IInv /\ [Next]_vars => IInv'
  BY NextIInv
<1>3. QED
  BY <1>1, <1>2, PTL DEF Spec

-----------------------------------------------------------------------------
(* What follows from the invariant. *)

(* s holds the consecutive reports after d. *)
Consecutive(s, d) == s \in Seq(Nat) /\ \A i \in 1..Len(s) : s[i] = d + i

(* A number of at most one. *)
LEMMA AtMostOne ==
  \A n \in Nat : n <= 1 => /\ n # 0 => n = 1
                           /\ \A i \in 1..n : i = 1 /\ n = 1
  OBVIOUS

(* At most one report is consecutive if it is the next one. *)
LEMMA OneConsecutive ==
  ASSUME NEW s \in Seq(Nat), NEW d \in Nat, Len(s) <= 1, s # <<>> => s[1] = d + 1
  PROVE  Consecutive(s, d)
<1>1. ASSUME NEW i \in 1..Len(s) PROVE s[i] = d + i
  <2>1. Len(s) \in Nat
    BY LenProperties
  <2>2. i = 1 /\ Len(s) = 1
    BY <2>1, AtMostOne
  <2>3. s # <<>>
    BY <2>2, EmptySeq
  <2>4. QED
    BY <2>2, <2>3
<1>2. QED
  BY <1>1 DEF Consecutive

(* Two parts, the second after the first. *)
LEMMA ConcatConsecutive ==
  ASSUME NEW d \in Nat, NEW s, NEW t, Consecutive(s, d), Consecutive(t, d + Len(s))
  PROVE  Consecutive(s \o t, d) /\ Len(s \o t) = Len(s) + Len(t)
<1>1. s \in Seq(Nat) /\ t \in Seq(Nat)
  BY DEF Consecutive
<1>2. Len(s) \in Nat /\ Len(t) \in Nat
  BY <1>1, LenProperties
<1>3. /\ s \o t \in Seq(Nat) /\ Len(s \o t) = Len(s) + Len(t)
      /\ \A i \in 1..(Len(s) + Len(t)) :
           (s \o t)[i] = IF i <= Len(s) THEN s[i] ELSE t[i - Len(s)]
  BY <1>1, ConcatProperties
<1>4. ASSUME NEW i \in 1..(Len(s) + Len(t)) PROVE (s \o t)[i] = d + i
  <2>1. CASE i <= Len(s)
    <3>1. i \in 1..Len(s) /\ (s \o t)[i] = s[i]
      BY <1>2, <1>3, <2>1
    <3>2. QED
      BY <3>1 DEF Consecutive
  <2>2. CASE ~(i <= Len(s))
    <3>1. i - Len(s) \in 1..Len(t) /\ (s \o t)[i] = t[i - Len(s)]
      BY <1>2, <1>3, <2>2
    <3>2. t[i - Len(s)] = d + Len(s) + (i - Len(s))
      BY <3>1 DEF Consecutive
    <3>3. QED
      BY <1>2, <3>1, <3>2
  <2>3. QED
    BY <2>1, <2>2
<1>5. QED
  BY <1>3, <1>4 DEF Consecutive

(* What is in transit of one live worker. *)
LEMMA InTransitInOrder ==
  ASSUME IInv, NEW w \in Workers, InOrder(w), Alive(w)
  PROVE  /\ delivered <= currentReportIndex[w]
         /\ currentReportIndex[w] <= reportCallIndex[w]
         /\ InTransit(w) =
              [i \in 1..(currentReportIndex[w] - delivered) |-> delivered + i]
<1>1. PICK b, c, q :
        /\ b = buffers[w] /\ q = resultQueue[w]
        /\ c = IF poll[w].report = NoReport THEN <<>> ELSE <<poll[w].report>>
  OBVIOUS
<1>2. /\ b \in Seq(Nat) /\ q \in Seq(Nat) /\ Len(q) <= 1
      /\ Len(b) \in Nat /\ Len(q) \in Nat /\ delivered \in Nat /\ poll[w].report \in Nat
  BY <1>1, WorkerTypes DEF Shaped
<1>3. c \in Seq(Nat) /\ Len(c) = Carried(w) /\ Len(c) \in {0, 1}
  BY <1>1, <1>2 DEF Carried
<1>4. /\ currentReportIndex[w] = delivered + Len(b) + Len(c) + Len(q)
      /\ q # <<>> => q[1] = currentReportIndex[w]
      /\ currentReportIndex[w] <= reportCallIndex[w]
  BY <1>1, <1>3 DEF InOrder, Sent
<1>5. Consecutive(b, delivered)
  BY <1>1, <1>2 DEF InOrder, Arrived, Consecutive
<1>6. Consecutive(b \o c, delivered) /\ Len(b \o c) = Len(b) + Len(c)
  <2>1. c # <<>> => c[1] = delivered + Len(b) + 1
    BY <1>1, <1>2 DEF InOrder, Arrived
  <2>2. delivered + Len(b) \in Nat /\ Len(c) <= 1
    BY <1>2, <1>3
  <2>3. Consecutive(c, delivered + Len(b))
    BY <1>3, <2>1, <2>2, OneConsecutive
  <2>4. QED
    BY <1>2, <1>5, <2>3, ConcatConsecutive
<1>7. /\ Consecutive(b \o c \o q, delivered)
      /\ Len(b \o c \o q) = Len(b) + Len(c) + Len(q)
  <2>1. delivered + Len(b \o c) \in Nat
    BY <1>2, <1>3, <1>6
  <2>2. q # <<>> => q[1] = delivered + Len(b \o c) + 1
    <3>1. q # <<>> => Len(q) = 1
      <4>1. q # <<>> => Len(q) # 0
        BY <1>2, EmptySeq
      <4>2. QED
        BY <1>2, <4>1, AtMostOne
    <3>2. QED
      BY <1>2, <1>3, <1>4, <1>6, <3>1
  <2>3. Consecutive(q, delivered + Len(b \o c))
    BY <1>2, <2>1, <2>2, OneConsecutive
  <2>4. /\ Consecutive(b \o c \o q, delivered)
        /\ Len(b \o c \o q) = Len(b \o c) + Len(q)
    BY <1>2, <1>6, <2>3, ConcatConsecutive
  <2>5. QED
    BY <1>6, <2>4
<1>8. /\ Len(b \o c \o q) = currentReportIndex[w] - delivered
      /\ delivered <= currentReportIndex[w]
  BY <1>2, <1>3, <1>4, <1>7
<1>9. b \o c \o q = [i \in 1..Len(b \o c \o q) |-> delivered + i]
  <2>1. PICK s : s = b \o c \o q
    OBVIOUS
  <2>2. s \in Seq(Nat) /\ \A i \in 1..Len(s) : s[i] = delivered + i
    BY <1>7, <2>1 DEF Consecutive
  <2>3. s = [i \in 1..Len(s) |-> s[i]]
    BY <2>2, LenProperties
  <2>4. QED
    BY <2>1, <2>2, <2>3
<1>10. QED
  BY <1>1, <1>4, <1>8, <1>9 DEF InTransit

(* At the end of a run whose workers returned, at most one report is in a queue. *)
LEMMA FinishedWithout ==
  ASSUME IInv
  PROVE  FinishedDelivered
<1> SUFFICES ASSUME control = "finished", NoReplacement,
                    \A w \in Workers : outcome[w] = "returned"
             PROVE  delivered >= MaxReports - 1
  BY DEF FinishedDelivered
<1>1. PICK w \in Workers : buffers[w] = <<>>
  BY DEF IInv, HandlerKeepsUp
<1>2. InOrder(w) /\ poll[w].report = NoReport /\ outcome[w] = "returned"
  BY <1>1 DEF IInv, Concluded
<1>3. /\ reportCallIndex[w] = MaxReports /\ pool[w] = <<>>
      /\ thread[w] \in {"joining", "ended"}
  BY <1>2 DEF InOrder, Returned
<1>4. currentReportIndex[w] = delivered + Len(resultQueue[w])
  <2>1. Len(buffers[w]) = 0 /\ Carried(w) = 0
    BY <1>1, <1>2, EmptySeq DEF Carried
  <2>2. QED
    BY <1>2, <1>3, <2>1, WorkerTypes DEF InOrder, Sent, Alive
<1>5. currentReportIndex[w] = MaxReports
  <2>1. Len(pool[w]) = 0 /\ Calling(w) = 0
    BY <1>3, EmptySeq DEF Calling
  <2>2. QED
    BY <1>2, <1>3, <2>1, WorkerTypes DEF InOrder, Uploaded, Alive
<1>6. Len(resultQueue[w]) \in Nat /\ Len(resultQueue[w]) <= 1 /\ delivered \in Nat
  BY WorkerTypes DEF Shaped
<1>7. QED
  BY <1>4, <1>5, <1>6

(* Every variable has the shape of the attribute it models. *)
THEOREM TypeCorrectness == Spec => []TypeOK
<1>1. IInv => TypeOK
  BY DEF IInv
<1>2. QED
  BY <1>1, Invariance, PTL

(***************************************************************************)
(* Between report() and the checkpoint manager no report is lost,          *)
(* duplicated or overtaken, for any number of workers and reports, while   *)
(* no replica group is replaced.                                           *)
(***************************************************************************)
THEOREM NoReportLost == Spec => []NothingLost
<1>1. IInv => NothingLost
  BY InTransitInOrder DEF IInv, NothingLost, Alive
<1>2. QED
  BY <1>1, Invariance, PTL

(***************************************************************************)
(* The inconsistency check of after_worker_group_poll_status never fires   *)
(* while no replica group is replaced.                                     *)
(***************************************************************************)
THEOREM MergedReportsBelongTogether == Spec => []ReportsBelongTogether
<1>1. IInv => ReportsBelongTogether
  BY DEF IInv, ReportsBelongTogether, Concluded
<1>2. QED
  BY <1>1, Invariance, PTL

(* One merge per poll is enough: no complete set of reports is ever kept. *)
THEOREM KeepsUp == Spec => []HandlerKeepsUp
<1>1. IInv => HandlerKeepsUp
  BY DEF IInv
<1>2. QED
  BY <1>1, Invariance, PTL

(***************************************************************************)
(* A group whose workers all returned delivered every report but at most   *)
(* the last.                                                               *)
(***************************************************************************)
THEOREM AllButTheLastDelivered == Spec => []FinishedDelivered
<1>1. IInv => FinishedDelivered
  BY FinishedWithout
<1>2. QED
  BY <1>1, Invariance, PTL

=============================================================================
