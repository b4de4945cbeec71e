----------------------------- MODULE SteelCompute ---------------------------
(***************************************************************************)
(* Compute tasks and model versions (app/compute_commands,                 *)
(* compute/handler.rs, compute/worker.rs,                                  *)
(* storage/repositories/steel_models.rs).  A task runs its operation in a  *)
(* worker process that the handler spawns, greets, asks and shuts down;    *)
(* what the process computed lives in the task's checkpoint, where         *)
(* predictions, exports, optimizations and model versions take it from.    *)
(*                                                                         *)
(* The scheduler is the one of TaskScheduler, cut down to what a compute   *)
(* handler meets: claims with a growing attempt, cancellation, shutdown    *)
(* while a handler works, recovery and manual retry.  A model artifact is  *)
(* named by the task and the attempt that computed it.                     *)
(***************************************************************************)
EXTENDS Naturals, FiniteSets, FiniteSetsExt

CONSTANTS
  ScJobs,         \* compute tasks
  Lineages,       \* lineages a model is registered under
  Algorithms,     \* the training algorithms asked for
  Derived,        \* the kinds of task asked of a completed training
  Standalone,     \* the kinds of task that need none
  ScMaxAttempts,  \* claims of one task
  ScMaxClaims,    \* claims of all tasks
  ScMaxFaults,    \* failures of the worker process
  MaxVersion      \* highest version number

ASSUME KindsAssumption ==
  /\ Algorithms \subseteq {"linear", "sklearn", "transformer"}
  /\ Derived \subseteq {"predict", "optimize", "export"}
  /\ Standalone \subseteq {"design", "predict_onnx"}

VARIABLES
  job,        \* task -> what it computes and from what
  jobState, jobTry, jobCancel,
  taskCheckpoint,      \* task -> checkpoint: its stage and the attempt that wrote it
  hand,       \* claim -> its handler: step, outcome and shutdown signal
  models,     \* rows of steel_models
  scFaults

taskVars == <<jobState, jobTry, jobCancel>>
scVars == <<job, taskVars, taskCheckpoint, hand, models, scFaults>>

ScClaims == ScJobs \X (1..ScMaxAttempts)
IdleHandler == [at |-> "none", outcome |-> "none", stop |-> FALSE]
NoJob == [kind |-> "none"]

ScInit ==
  /\ job = [j \in ScJobs |-> NoJob]
  /\ jobState = [j \in ScJobs |-> "absent"]
  /\ jobTry = [j \in ScJobs |-> 0] /\ jobCancel = [j \in ScJobs |-> FALSE]
  /\ taskCheckpoint = [j \in ScJobs |-> [stage |-> "queued", by |-> 0]]
  /\ hand = [c \in ScClaims |-> IdleHandler]
  /\ models = {} /\ scFaults = 0

ScFault == scFaults < ScMaxFaults /\ scFaults' = scFaults + 1

(***************************************************************************)
(* Requests                                                                *)
(***************************************************************************)

CreateJob(j, what) ==
  /\ jobState[j] = "absent"
  /\ job' = [job EXCEPT ![j] = what]
  /\ jobState' = [jobState EXCEPT ![j] = "queued"]

\* The dataset is activated, its source unchanged and its table usable, or the
\* request is refused.
train_steel_dataset(j, algo) ==
  /\ CreateJob(j, [kind |-> "train", algo |-> algo])
  /\ UNCHANGED <<jobTry, jobCancel, taskCheckpoint, hand, models, scFaults>>

\* What may be asked of which training; a transformer cannot be asked to predict.
Accepts(kind, algo) ==
  CASE kind = "predict" -> algo \in {"linear", "sklearn"}
    [] kind = "export" -> algo = "linear"
    [] OTHER -> TRUE

Trained(t) == job[t].kind = "train" /\ jobState[t] = "completed"
ResultOf(t) == [task |-> t, by |-> taskCheckpoint[t].by]

\* Prediction, optimization and export copy the artifact of a completed training.
derive(j, kind, t) ==
  /\ Trained(t) /\ taskCheckpoint[t].stage = "completed" /\ Accepts(kind, job[t].algo)
  /\ CreateJob(j, [kind |-> kind, artifact |-> ResultOf(t)])
  /\ UNCHANGED <<jobTry, jobCancel, taskCheckpoint, hand, models, scFaults>>

\* Experiment designs, and predictions with a model file whose hash the user gave.
standalone(j, kind) ==
  /\ CreateJob(j, [kind |-> kind])
  /\ UNCHANGED <<jobTry, jobCancel, taskCheckpoint, hand, models, scFaults>>

(***************************************************************************)
(* The scheduler, as far as a compute task meets it                        *)
(***************************************************************************)

SetState(j, s) == jobState' = [jobState EXCEPT ![j] = s]

ClaimJob(j) ==
  /\ jobState[j] = "queued" /\ ~jobCancel[j] /\ jobTry[j] < ScMaxAttempts
  /\ MapThenSumSet(LAMBDA k : jobTry[k], ScJobs) < ScMaxClaims
  /\ SetState(j, "running")
  /\ jobTry' = [jobTry EXCEPT ![j] = @ + 1]
  /\ hand' = [hand EXCEPT ![<<j, jobTry[j] + 1>>] = [IdleHandler EXCEPT !.at = "spawn"]]
  /\ UNCHANGED <<job, jobCancel, taskCheckpoint, models, scFaults>>

OwnsRow(c) == jobState[c[1]] = "running" /\ jobTry[c[1]] = c[2]

OutcomeOf(c) ==
  IF jobCancel[c[1]] THEN "cancelled" ELSE hand[c].outcome

\* Compute handlers only fail permanently.
EndAttempt(c) ==
  /\ hand[c].at = "returned"
  /\ hand' = [hand EXCEPT ![c] = IdleHandler]
  /\ IF OwnsRow(c) THEN SetState(c[1], OutcomeOf(c)) ELSE UNCHANGED jobState
  /\ UNCHANGED <<job, jobTry, jobCancel, taskCheckpoint, models, scFaults>>

\* A running task is only flagged; the scheduler may then write the row without
\* waiting for the handler.
CancelJob(j) ==
  /\ \/ jobState[j] = "running" /\ ~jobCancel[j]
        /\ jobCancel' = [jobCancel EXCEPT ![j] = TRUE] /\ UNCHANGED jobState
     \/ jobState[j] \in {"queued", "interrupted"} /\ SetState(j, "cancelled") /\ UNCHANGED jobCancel
     \/ jobState[j] = "running" /\ jobCancel[j] /\ SetState(j, "cancelled") /\ UNCHANGED jobCancel
  /\ UNCHANGED <<job, jobTry, taskCheckpoint, hand, models, scFaults>>

RetryJob(j) ==
  /\ jobState[j] \in {"failed", "cancelled", "interrupted"} /\ jobTry[j] < ScMaxAttempts
  /\ SetState(j, "queued") /\ jobCancel' = [jobCancel EXCEPT ![j] = FALSE]
  /\ UNCHANGED <<job, jobTry, taskCheckpoint, hand, models, scFaults>>

\* A shutdown first signals every handler, then interrupts the running rows; compute
\* tasks are resumable, so the next start queues them.
SignalStop ==
  /\ \E c \in ScClaims : hand[c].at # "none" /\ ~hand[c].stop
  /\ hand' = [c \in ScClaims |-> IF hand[c].at = "none" THEN hand[c] ELSE [hand[c] EXCEPT !.stop = TRUE]]
  /\ UNCHANGED <<job, taskVars, taskCheckpoint, models, scFaults>>

InterruptJob(j) ==
  /\ jobState[j] = "running" /\ hand[<<j, jobTry[j]>>].stop
  /\ SetState(j, IF jobCancel[j] THEN "cancelled" ELSE "interrupted")
  /\ UNCHANGED <<job, jobTry, jobCancel, taskCheckpoint, hand, models, scFaults>>

RecoverJob(j) ==
  /\ jobState[j] = "interrupted" /\ ~jobCancel[j]
  /\ SetState(j, "queued")
  /\ UNCHANGED <<job, jobTry, jobCancel, taskCheckpoint, hand, models, scFaults>>

(***************************************************************************)
(* run_task: one handler and its worker process                            *)
(***************************************************************************)

HandlerAt(c, step) == hand[c].at = step
HandlerTo(c, step) == hand' = [hand EXCEPT ![c].at = step]
Return(c, outcome) == hand' = [hand EXCEPT ![c] = [@ EXCEPT !.at = "returned", !.outcome = outcome]]

\* WorkerClient::spawn checks the executable and its manifest and attaches the
\* process group; hello lists the operations.  Any failure is permanent.
open_worker(c) ==
  /\ HandlerAt(c, "spawn")
  /\ \/ HandlerTo(c, "submit") /\ UNCHANGED scFaults
     \/ ScFault /\ Return(c, "failed")
  /\ UNCHANGED <<job, taskVars, taskCheckpoint, models>>

MustStop(c) == jobCancel[c[1]] \/ hand[c].stop

\* Mutant: the checkpoint is written for the task, whoever holds it.
CheckpointAnyAttempt(c, stage) ==
  /\ jobState[c[1]] # "absent"
  /\ taskCheckpoint' = [taskCheckpoint EXCEPT ![c[1]] = [stage |-> stage, by |-> c[2]]]

\* repository::checkpoint, which refuses an attempt that lost the row.
task_checkpoint(c, stage) ==
  /\ OwnsRow(c)
  /\ taskCheckpoint' = [taskCheckpoint EXCEPT ![c[1]] = [stage |-> stage, by |-> c[2]]]

\* A progress notification: it ends the request when the task is to stop or the
\* checkpoint is refused.
on_progress(c) ==
  /\ HandlerAt(c, "submit")
  /\ \/ MustStop(c) /\ Return(c, "cancelled") /\ UNCHANGED taskCheckpoint
     \/ ~MustStop(c) /\ task_checkpoint(c, "progress") /\ UNCHANGED hand
     \/ ~MustStop(c) /\ ~OwnsRow(c) /\ Return(c, "failed") /\ UNCHANGED taskCheckpoint
  /\ UNCHANGED <<job, taskVars, models, scFaults>>

\* The monitor thread polls, kills the process and turns even an answer that was
\* already read into a cancellation.
monitor(c) ==
  /\ HandlerAt(c, "submit") /\ MustStop(c) /\ Return(c, "cancelled")
  /\ UNCHANGED <<job, taskVars, taskCheckpoint, models, scFaults>>

\* _dispatch in the worker: the operation's result, or an error; the process may die.
dispatch(c) ==
  \/ HandlerTo(c, "answered") /\ UNCHANGED scFaults
  \/ ScFault /\ Return(c, "failed")

\* The response: a bad frame, another id or an invalid result are failures as well.
response(c) ==
  /\ HandlerAt(c, "submit") /\ dispatch(c)
  /\ UNCHANGED <<job, taskVars, taskCheckpoint, models>>

\* The result goes into the checkpoint; a cancellation does not prevent it any more.
store(c) ==
  /\ HandlerAt(c, "answered")
  /\ \/ task_checkpoint(c, "completed") /\ HandlerTo(c, "closing")
     \/ ~OwnsRow(c) /\ Return(c, "failed") /\ UNCHANGED taskCheckpoint
  /\ UNCHANGED <<job, taskVars, models, scFaults>>

\* shutdown: a worker that does not exit in time is killed and the task fails,
\* its result stored.
close(c) ==
  /\ HandlerAt(c, "closing")
  /\ \/ Return(c, "completed") /\ UNCHANGED scFaults
     \/ ScFault /\ Return(c, "failed")
  /\ UNCHANGED <<job, taskVars, taskCheckpoint, models>>

(***************************************************************************)
(* Model versions                                                          *)
(***************************************************************************)

Registrable(t) ==
  /\ job[t].kind \in {"train", "export"}
  /\ jobState[t] = "completed" /\ taskCheckpoint[t].stage = "completed"

Versions(l) == {m \in models : m.lineage = l}

\* MAX(version) + 1 in the lineage: the version of a deleted row can come back.
NextVersion(l) ==
  IF Versions(l) = {} THEN 1
  ELSE 1 + (CHOOSE v \in {m.version : m \in Versions(l)} : \A m \in Versions(l) : m.version <= v)

register_steel_model(t, l) ==
  /\ Registrable(t) /\ NextVersion(l) <= MaxVersion
  /\ models' = models \cup {[lineage |-> l, version |-> NextVersion(l), artifact |-> ResultOf(t),
                             active |-> NextVersion(l) = 1]}
  /\ UNCHANGED <<job, taskVars, taskCheckpoint, hand, scFaults>>

set_active(m) ==
  /\ models' = {[n EXCEPT !.active = IF n.lineage # m.lineage THEN @ ELSE n = m] : n \in models}
  /\ UNCHANGED <<job, taskVars, taskCheckpoint, hand, scFaults>>

\* The active version of a lineage cannot be deleted.
delete(m) ==
  /\ ~m.active /\ models' = models \ {m}
  /\ UNCHANGED <<job, taskVars, taskCheckpoint, hand, scFaults>>

-----------------------------------------------------------------------------
ScRequests ==
  \/ \E j \in ScJobs, algo \in Algorithms : train_steel_dataset(j, algo)
  \/ \E j, t \in ScJobs, kind \in Derived : derive(j, kind, t)
  \/ \E j \in ScJobs, kind \in Standalone : standalone(j, kind)

ScTasks ==
  \/ \E j \in ScJobs : ClaimJob(j) \/ CancelJob(j) \/ RetryJob(j) \/ InterruptJob(j) \/ RecoverJob(j)
  \/ SignalStop

ScHandlers ==
  \E c \in ScClaims :
    \/ open_worker(c) \/ on_progress(c) \/ monitor(c) \/ response(c)
    \/ store(c) \/ close(c) \/ EndAttempt(c)

ScModels ==
  \/ \E t \in ScJobs, l \in Lineages : register_steel_model(t, l)
  \/ \E m \in models : set_active(m) \/ delete(m)

ScNext == ScRequests \/ ScTasks \/ ScHandlers \/ ScModels

ScSpec == ScInit /\ [][ScNext]_scVars

(***************************************************************************)
(* Properties                                                              *)
(***************************************************************************)

IsFinal(a) == jobState[a.task] = "completed" /\ taskCheckpoint[a.task] = [stage |-> "completed", by |-> a.by]

\* Every artifact that a prediction, an optimization, an export or a model version was
\* built from is still the result its completed training or export shows: no handler
\* that lost its claim, was cancelled or was shut down rewrites it afterwards.
DerivedFromFinal ==
  /\ \A j \in ScJobs : job[j].kind \in Derived => IsFinal(job[j].artifact)
  /\ \A m \in models : IsFinal(m.artifact)

=============================================================================
