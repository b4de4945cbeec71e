---------------------------- MODULE TaskScheduler ----------------------------
(***************************************************************************)
(* The background task scheduler of src-tauri/src/tasks/scheduler.rs: its  *)
(* thread, the worker threads it spawns, the cancel and retry commands of  *)
(* app/task_commands/tasks.rs, orderly shutdown, restarts and crashes, all *)
(* sharing the rows of TaskRepository.                                     *)
(*                                                                         *)
(* The code reads a row in one transaction and writes it in a later one;   *)
(* the model keeps the two apart.  What a read decided stands in plan (for *)
(* the scheduler) or cmd (for the user) until the write is attempted.      *)
(*                                                                         *)
(* A claim <<t, a>> is the a-th claim of task t.  The thread that runs it, *)
(* the channel it answers on and the ActiveTask entry are indexed by it.   *)
(***************************************************************************)
EXTENDS TaskRepository, FiniteSets

CONSTANTS
  Known,        \* tasks whose kind has a registered handler
  Resumable,    \* tasks whose handler says resumable()
  MaxWorkers,   \* SchedulerConfig.max_workers
  MaxAttempts,  \* SchedulerConfig.max_attempts
  MaxFaults     \* bound on crashes plus storage faults

ASSUME SchedulerAssumption ==
  /\ IsFiniteSet(Tasks)
  /\ Resumable \subseteq Known
  /\ Known \subseteq Tasks
  /\ MaxWorkers \in Nat \ {0}
  /\ MaxAttempts \in Nat \ {0}
  /\ MaxFaults \in Nat

VARIABLES
  pc,        \* where the scheduler thread stands
  shutdown,  \* ControlState: shutdown set and accepting cleared, under one lock
  active,    \* Scheduler.active: claims with an ActiveTask entry
  fenced,    \* entries whose outcome must no longer be written
  worker,    \* per claim: no thread, a live thread, or the result it sent
  finished,  \* reap_finished: entries that had a result when it looked
  todo,      \* entries the current loop over active has still to visit
  plan,      \* row changes decided from a read and not yet attempted
  slots,     \* iterations left in tick's claim loop
  nested,    \* reap_finished was called by fail_unknown
  cmd,       \* the user command between its get and its update
  wanted,    \* history: an accepted cancellation not undone by a manual retry
  faults     \* crashes and storage faults so far

threadVars == <<pc, shutdown, active, fenced, finished, todo, plan, slots, nested>>
vars == <<rowVars, threadVars, worker, cmd, wanted, faults>>

Claims == Tasks \X (1..MaxClaims)
TaskOf(c) == c[1]
AttemptOf(c) == c[2]

\* HandlerOutcome and HandlerError; a panicked worker or a failed thread
\* spawn disconnects the channel and is reported as a permanent error.
Outcomes ==
  {"completed", "waiting_external", "cancelled", "interrupted",
   "retryable", "permanent"}

Phases ==
  {"off", "stopped", "recover_running", "recover_interrupted",
   "loop", "reap", "cancel", "claim", "interrupt"}

Recovering == {"recover_running", "recover_interrupted"}
Ticking == {"reap", "cancel", "claim"}
ThreadUp == {"loop", "reap", "cancel", "claim", "interrupt"}

Move(t, from, to) == [task |-> t, attempt |-> attempt[t], from |-> from, to |-> to]
Moves == [task : Tasks, attempt : Attempts, from : TaskState, to : TaskState]
NoCmd == [op |-> "none"]
Cmds == [op : {"cancel", "retry"}, task : Tasks, attempt : Attempts, from : TaskState]

TypeOK ==
  /\ RowTypeOK
  /\ pc \in Phases
  /\ shutdown \in BOOLEAN
  /\ active \in SUBSET Claims
  /\ fenced \in SUBSET Claims
  /\ worker \in [Claims -> {"none", "live"} \cup Outcomes]
  /\ finished \in SUBSET Claims
  /\ todo \in SUBSET Claims
  /\ plan \in SUBSET Moves
  /\ slots \in Int
  /\ nested \in BOOLEAN
  /\ cmd \in Cmds \cup {NoCmd}
  /\ wanted \in [Tasks -> BOOLEAN]
  /\ faults \in 0..MaxFaults

Init ==
  /\ NoRows
  /\ pc = "off"
  /\ shutdown = FALSE
  /\ active = {}
  /\ fenced = {}
  /\ worker = [c \in Claims |-> "none"]
  /\ finished = {}
  /\ todo = {}
  /\ plan = {}
  /\ slots = 0
  /\ nested = FALSE
  /\ cmd = NoCmd
  /\ wanted = [t \in Tasks |-> FALSE]
  /\ faults = 0

-----------------------------------------------------------------------------
(***************************************************************************)
(* Start-up: SchedulerState::start and Scheduler::recover.  A new          *)
(* Scheduler has an empty active list; threads of an earlier one in the    *)
(* same process may still be alive.                                        *)
(***************************************************************************)
\* Mutant: a running row whose cancellation is pending is left to the user.
RecoverSkipsCancelled ==
  {Move(t, "running", "interrupted") :
     t \in {u \in Tasks : state[u] = "running" /\ ~cancel_requested[u]}}

RecoverRunningPlan ==
  {Move(t, "running", IF cancel_requested[t] THEN "cancelled" ELSE "interrupted") :
     t \in {u \in Tasks : state[u] = "running"}}

RecoverInterruptedPlan ==
  {Move(t, "interrupted", IF cancel_requested[t] THEN "cancelled" ELSE "queued") :
     t \in {u \in Tasks : /\ state[u] = "interrupted"
                          /\ cancel_requested[u] \/ u \in Resumable}}

Start ==
  /\ pc \in {"off", "stopped"}
  /\ pc' = "recover_running"
  /\ plan' = RecoverRunningPlan
  /\ shutdown' = FALSE
  /\ UNCHANGED <<rowVars, active, fenced, finished, todo, slots, nested,
                 worker, cmd, wanted, faults>>

PlanOk(m) == TransitionOk(m.task, m.attempt, m.from, m.to)

RecoverWrite ==
  /\ pc \in Recovering
  /\ \E m \in plan :
       /\ transition(m.task, m.attempt, m.from, m.to)
       /\ plan' = plan \ {m}
  /\ UNCHANGED <<pc, shutdown, active, fenced, finished, todo, slots, nested,
                 worker, cmd, wanted, faults>>

RecoverListInterrupted ==
  /\ pc = "recover_running"
  /\ plan = {}
  /\ pc' = "recover_interrupted"
  /\ plan' = RecoverInterruptedPlan
  /\ UNCHANGED <<rowVars, shutdown, active, fenced, finished, todo, slots, nested,
                 worker, cmd, wanted, faults>>

RecoverDone ==
  /\ pc = "recover_interrupted"
  /\ plan = {}
  /\ pc' = "loop"
  /\ UNCHANGED <<rowVars, shutdown, active, fenced, finished, todo, plan, slots,
                 nested, worker, cmd, wanted, faults>>

\* A row listed by recover changed before its transition: start() returns
\* the stale_claim and no scheduler runs.
RecoverStale ==
  /\ pc \in Recovering
  /\ \E m \in plan : ~PlanOk(m)
  /\ pc' = "off"
  /\ plan' = {}
  /\ UNCHANGED <<rowVars, shutdown, active, fenced, finished, todo, slots, nested,
                 worker, cmd, wanted, faults>>

-----------------------------------------------------------------------------
(***************************************************************************)
(* The thread's loop.  When it ends the Scheduler is dropped; threads that *)
(* have not answered go on running, unowned.                               *)
(***************************************************************************)
Live(c) == worker[c] = "live"
Dropped == [c \in Claims |-> IF Live(c) THEN "live" ELSE "none"]

Owns(c) == state[TaskOf(c)] = "running" /\ attempt[TaskOf(c)] = AttemptOf(c)

ThreadStops ==
  /\ pc = "loop"
  /\ shutdown
  /\ active \subseteq fenced
  /\ pc' = "stopped"
  /\ active' = {}
  /\ fenced' = {}
  /\ worker' = Dropped
  /\ UNCHANGED <<rowVars, shutdown, finished, todo, plan, slots, nested, cmd,
                 wanted, faults>>

BeginInterrupt ==
  /\ pc = "loop"
  /\ shutdown
  /\ ~(active \subseteq fenced)
  /\ pc' = "interrupt"
  /\ todo' = active \ fenced
  /\ UNCHANGED <<rowVars, shutdown, active, fenced, finished, plan, slots, nested,
                 worker, cmd, wanted, faults>>

\* Mutant: a disconnected channel is not taken for an answer.
AnsweredByMessage == {c \in active : worker[c] \notin {"live", "permanent"}}

\* tick: reap_finished drains every channel once, then finishes what it found.
Answered == {c \in active : ~Live(c)}

BeginTick ==
  /\ pc = "loop"
  /\ ~shutdown
  /\ pc' = "reap"
  /\ finished' = Answered
  /\ todo' = Answered \ fenced
  /\ nested' = FALSE
  /\ UNCHANGED <<rowVars, shutdown, active, fenced, plan, slots, worker, cmd,
                 wanted, faults>>

\* finish(): what the row becomes.  "queued" stands for schedule_retry.
FinishTarget(c) ==
  IF cancel_requested[TaskOf(c)] THEN "cancelled"
  ELSE IF shutdown THEN "interrupted"
  ELSE IF worker[c] \in {"completed", "waiting_external", "cancelled", "interrupted"}
       THEN worker[c]
  ELSE IF worker[c] = "retryable" /\ AttemptOf(c) < MaxAttempts THEN "queued"
  ELSE "failed"

FinishRead ==
  /\ pc = "reap"
  /\ plan = {}
  /\ \E c \in todo :
       IF Owns(c)
       THEN /\ plan' = {Move(TaskOf(c), "running", FinishTarget(c))}
            /\ UNCHANGED todo
       ELSE /\ todo' = todo \ {c}
            /\ UNCHANGED plan
  /\ UNCHANGED <<rowVars, pc, shutdown, active, fenced, finished, slots, nested,
                 worker, cmd, wanted, faults>>

FinishWrite ==
  /\ pc = "reap"
  /\ \E m \in plan :
       /\ IF m.to = "queued"
          THEN schedule_retry(m.task, m.attempt)
          ELSE transition(m.task, m.attempt, m.from, m.to)
       /\ todo' = todo \ {<<m.task, m.attempt>>}
  /\ plan' = {}
  /\ UNCHANGED <<pc, shutdown, active, fenced, finished, slots, nested,
                 worker, cmd, wanted, faults>>

\* Mutant: a fenced entry stays in the active list after its thread answered.
ReapKeepsFenced ==
  /\ pc = "reap"
  /\ todo = {}
  /\ plan = {}
  /\ active' = active \ (finished \ fenced)
  /\ worker' = [c \in Claims |-> IF c \in finished \ fenced THEN "none" ELSE worker[c]]
  /\ finished' = {}
  /\ pc' = IF nested THEN "claim" ELSE IF shutdown THEN "interrupt" ELSE "cancel"
  /\ todo' = IF nested THEN {} ELSE active' \ fenced
  /\ UNCHANGED <<rowVars, shutdown, fenced, plan, slots, nested, cmd, wanted, faults>>

\* All finish calls returned Ok: the finished entries leave active, and tick
\* (or the claim loop, after fail_unknown) goes on.
ReapDone ==
  /\ pc = "reap"
  /\ todo = {}
  /\ plan = {}
  /\ active' = active \ finished
  /\ fenced' = fenced \ finished
  /\ worker' = [c \in Claims |-> IF c \in finished THEN "none" ELSE worker[c]]
  /\ finished' = {}
  /\ pc' = IF nested THEN "claim" ELSE IF shutdown THEN "interrupt" ELSE "cancel"
  /\ todo' = IF nested THEN {} ELSE active' \ fenced'
  /\ UNCHANGED <<rowVars, shutdown, plan, slots, nested, cmd, wanted, faults>>

\* cancel_active visits one entry: skip it, fence it or decide to cancel it.
CancelRead ==
  /\ pc = "cancel"
  /\ plan = {}
  /\ \E c \in todo :
       IF Owns(c) /\ cancel_requested[TaskOf(c)]
       THEN /\ plan' = {Move(TaskOf(c), "running", "cancelled")}
            /\ UNCHANGED <<todo, fenced>>
       ELSE /\ todo' = todo \ {c}
            /\ fenced' = IF Owns(c) THEN fenced ELSE fenced \cup {c}
            /\ UNCHANGED plan
  /\ UNCHANGED <<rowVars, pc, shutdown, active, finished, slots, nested, worker,
                 cmd, wanted, faults>>

\* The write of cancel_active or of interrupt_active, after which the entry
\* is fenced.
FencingWrite ==
  /\ pc \in {"cancel", "interrupt"}
  /\ \E m \in plan, c \in todo :
       /\ c = <<m.task, m.attempt>>
       /\ transition(m.task, m.attempt, m.from, m.to)
       /\ todo' = todo \ {c}
       /\ fenced' = fenced \cup {c}
  /\ plan' = {}
  /\ UNCHANGED <<pc, shutdown, active, finished, slots, nested, worker, cmd,
                 wanted, faults>>

CancelDone ==
  /\ pc = "cancel"
  /\ todo = {}
  /\ plan = {}
  /\ pc' = "claim"
  /\ slots' = MaxWorkers - Cardinality(active)
  /\ UNCHANGED <<rowVars, shutdown, active, fenced, finished, todo, plan, nested,
                 worker, cmd, wanted, faults>>

\* Claim and spawn happen under the accepting lock, so shutdown cannot be
\* requested in between.
ClaimAndSpawn(t) ==
  LET c == <<t, attempt[t] + 1>>
  IN  /\ pc = "claim"
      /\ slots > 0
      /\ ~shutdown
      /\ t \in Known
      /\ claim_next(t)
      /\ active' = active \cup {c}
      /\ worker' = [worker EXCEPT ![c] = "live"]
      /\ slots' = slots - 1
      /\ UNCHANGED <<pc, shutdown, fenced, finished, todo, plan, nested, cmd,
                     wanted, faults>>

\* No handler for the kind (some other kind has one, or tick would not claim):
\* fail_unknown pushes an entry that already has a permanent error and reaps.
ClaimUnknown(t) ==
  LET c == <<t, attempt[t] + 1>>
  IN  /\ pc = "claim"
      /\ slots > 0
      /\ ~shutdown
      /\ t \notin Known
      /\ claim_next(t)
      /\ active' = active \cup {c}
      /\ worker' = [worker EXCEPT ![c] = "permanent"]
      /\ slots' = slots - 1
      /\ pc' = "reap"
      /\ nested' = TRUE
      /\ finished' = Answered \cup {c}
      /\ todo' = (Answered \cup {c}) \ fenced
      /\ UNCHANGED <<shutdown, fenced, plan, cmd, wanted, faults>>

ClaimDone ==
  /\ pc = "claim"
  /\ slots = 0 \/ shutdown \/ Candidates = {}
  /\ pc' = "loop"
  /\ UNCHANGED <<rowVars, shutdown, active, fenced, finished, todo, plan, slots,
                 nested, worker, cmd, wanted, faults>>

\* Mutant: interrupt_active does not look at the row before it writes, so an
\* entry that lost its row is refused in every round.
InterruptUnread ==
  /\ pc = "interrupt"
  /\ plan = {}
  /\ \E c \in todo :
       plan' = {[Move(TaskOf(c), "running", "interrupted")
                   EXCEPT !.attempt = AttemptOf(c)]}
  /\ UNCHANGED <<rowVars, pc, shutdown, active, fenced, finished, todo, slots,
                 nested, worker, cmd, wanted, faults>>

InterruptRead ==
  /\ pc = "interrupt"
  /\ plan = {}
  /\ \E c \in todo :
       IF Owns(c)
       THEN /\ plan' = {Move(TaskOf(c), "running",
                             IF cancel_requested[TaskOf(c)]
                             THEN "cancelled" ELSE "interrupted")}
            /\ UNCHANGED <<todo, fenced>>
       ELSE /\ todo' = todo \ {c}
            /\ fenced' = fenced \cup {c}
            /\ UNCHANGED plan
  /\ UNCHANGED <<rowVars, pc, shutdown, active, finished, slots, nested, worker,
                 cmd, wanted, faults>>

InterruptDone ==
  /\ pc = "interrupt"
  /\ todo = {}
  /\ plan = {}
  /\ pc' = "loop"
  /\ UNCHANGED <<rowVars, shutdown, active, fenced, finished, todo, plan, slots,
                 nested, worker, cmd, wanted, faults>>

\* interrupt_active lost the race for a row: the error is logged and the loop
\* comes round again.
InterruptStale ==
  /\ pc = "interrupt"
  /\ \E m \in plan : ~PlanOk(m)
  /\ pc' = "loop"
  /\ plan' = {}
  /\ todo' = {}
  /\ UNCHANGED <<rowVars, shutdown, active, fenced, finished, slots, nested,
                 worker, cmd, wanted, faults>>

\* Any error in a tick ends it and requests shutdown of the whole scheduler.
\* The error is a storage error (database busy, I/O) or a lost race.
TickFails ==
  /\ pc \in Ticking
  /\ \/ faults < MaxFaults
     \/ \E m \in plan : ~PlanOk(m) /\ ~(m.to = "queued" /\ ScheduleRetryOk(m.task, m.attempt))
  /\ faults' = IF faults < MaxFaults THEN faults + 1 ELSE faults
  /\ shutdown' = TRUE
  /\ pc' = "loop"
  /\ todo' = {}
  /\ plan' = {}
  /\ finished' = {}
  /\ UNCHANGED <<rowVars, active, fenced, slots, nested, worker, cmd, wanted>>

\* A storage error while interrupting is retried; while recovering, start()
\* fails.
StorageFault ==
  /\ pc \in Recovering \cup {"interrupt"}
  /\ faults < MaxFaults
  /\ faults' = faults + 1
  /\ pc' = IF pc = "interrupt" THEN "loop" ELSE "off"
  /\ plan' = {}
  /\ todo' = {}
  /\ UNCHANGED <<rowVars, shutdown, active, fenced, finished, slots, nested,
                 worker, cmd, wanted>>

-----------------------------------------------------------------------------
(***************************************************************************)
(* Worker threads: TaskHandler::run with its HandlerContext.  A handler may *)
(* checkpoint, may complete its own row (knowledge activation) and returns *)
(* any outcome at any time.                                                *)
(***************************************************************************)
WorkerCheckpoint(c, schedule) ==
  /\ Live(c)
  /\ checkpoint(TaskOf(c), AttemptOf(c), schedule)
  /\ UNCHANGED <<threadVars, worker, cmd, wanted, faults>>

WorkerActivate(c) ==
  /\ Live(c)
  /\ activate(TaskOf(c), AttemptOf(c))
  /\ UNCHANGED <<threadVars, worker, cmd, wanted, faults>>

WorkerReturn(c, o) ==
  /\ Live(c)
  /\ worker' = [worker EXCEPT ![c] = IF c \in active THEN o ELSE "none"]
  /\ UNCHANGED <<rowVars, threadVars, cmd, wanted, faults>>

-----------------------------------------------------------------------------
(***************************************************************************)
(* The user: cancel_task and retry_task read the row, then update it.      *)
(* Commands share one connection behind a mutex, so one is under way.      *)
(***************************************************************************)
Cancellable == {"running", "queued", "waiting_external", "paused", "interrupted"}

UserRead(op, t) ==
  /\ cmd = NoCmd
  /\ state[t] \in IF op = "cancel" THEN Cancellable ELSE Retryable
  /\ cmd' = [op |-> op, task |-> t, attempt |-> attempt[t], from |-> state[t]]
  /\ UNCHANGED <<rowVars, threadVars, worker, wanted, faults>>

CmdOk ==
  \/ cmd.op = "retry" /\ RetryManuallyOk(cmd.task, cmd.attempt, cmd.from)
  \/ /\ cmd.op = "cancel" /\ cmd.from = "running"
     /\ RunningCancellationOk(cmd.task, cmd.attempt)
  \/ /\ cmd.op = "cancel" /\ cmd.from # "running"
     /\ TransitionOk(cmd.task, cmd.attempt, cmd.from, "cancelled")

UserWrite ==
  /\ cmd # NoCmd
  /\ \/ cmd.op = "retry" /\ retry_manually(cmd.task, cmd.attempt, cmd.from)
     \/ /\ cmd.op = "cancel" /\ cmd.from = "running"
        /\ request_running_cancellation(cmd.task, cmd.attempt)
     \/ /\ cmd.op = "cancel" /\ cmd.from # "running"
        /\ transition(cmd.task, cmd.attempt, cmd.from, "cancelled")
  /\ wanted' = [wanted EXCEPT ![cmd.task] = (cmd.op = "cancel")]
  /\ cmd' = NoCmd
  /\ UNCHANGED <<threadVars, worker, faults>>

\* The row changed since the get: the command reports stale_claim.
UserStale ==
  /\ cmd # NoCmd
  /\ ~CmdOk
  /\ cmd' = NoCmd
  /\ UNCHANGED <<rowVars, threadVars, worker, wanted, faults>>

Create(t, schedule) ==
  /\ create(t, schedule)
  /\ UNCHANGED <<threadVars, worker, cmd, wanted, faults>>

TimePasses(t) ==
  /\ ScheduleReached(t)
  /\ UNCHANGED <<threadVars, worker, cmd, wanted, faults>>

\* Exit and restore ask for shutdown; the handle is locked during start-up,
\* and a claim, with the reap of fail_unknown, holds the accepting lock.
RequestShutdown ==
  /\ pc \in ThreadUp
  /\ ~(pc = "reap" /\ nested)
  /\ ~shutdown
  /\ shutdown' = TRUE
  /\ UNCHANGED <<rowVars, pc, active, fenced, finished, todo, plan, slots, nested,
                 worker, cmd, wanted, faults>>

\* The process dies; only the rows survive.
Crash ==
  /\ faults < MaxFaults
  /\ faults' = faults + 1
  /\ pc' = "off"
  /\ shutdown' = FALSE
  /\ active' = {}
  /\ fenced' = {}
  /\ worker' = [c \in Claims |-> "none"]
  /\ finished' = {}
  /\ todo' = {}
  /\ plan' = {}
  /\ slots' = 0
  /\ nested' = FALSE
  /\ cmd' = NoCmd
  /\ UNCHANGED <<rowVars, wanted>>

-----------------------------------------------------------------------------
Scheduler ==
  \/ Start \/ RecoverWrite \/ RecoverListInterrupted \/ RecoverDone \/ RecoverStale
  \/ ThreadStops \/ BeginInterrupt \/ BeginTick
  \/ FinishRead \/ FinishWrite \/ ReapDone
  \/ CancelRead \/ FencingWrite \/ CancelDone
  \/ \E t \in Tasks : ClaimAndSpawn(t) \/ ClaimUnknown(t)
  \/ ClaimDone
  \/ InterruptRead \/ InterruptDone \/ InterruptStale
  \/ TickFails \/ StorageFault

Worker ==
  \E c \in Claims :
    \/ \E schedule \in {"none", "later"} : WorkerCheckpoint(c, schedule)
    \/ WorkerActivate(c)
    \/ \E o \in Outcomes : WorkerReturn(c, o)

Environment ==
  \/ \E t \in Tasks :
       \/ \E schedule \in {"none", "later"} : Create(t, schedule)
       \/ \E op \in {"cancel", "retry"} : UserRead(op, t)
       \/ TimePasses(t)
  \/ UserWrite \/ UserStale
  \/ RequestShutdown
  \/ Crash

Next == Scheduler \/ Worker \/ Environment

Spec == Init /\ [][Next]_vars
\* The thread, and a recovery once begun, keep taking steps; handlers end
\* (every provider request, database query and worker call has a time-out);
\* a command that read its row goes on to write it; the clock advances.
\* Nothing makes the app start the scheduler, fail or ask for shutdown.
ThreadStep ==
  \/ RecoverWrite \/ RecoverListInterrupted \/ RecoverDone \/ RecoverStale
  \/ ThreadStops \/ BeginInterrupt \/ BeginTick
  \/ FinishRead \/ FinishWrite \/ ReapDone
  \/ CancelRead \/ FencingWrite \/ CancelDone
  \/ \E t \in Tasks : ClaimAndSpawn(t) \/ ClaimUnknown(t)
  \/ ClaimDone
  \/ InterruptRead \/ InterruptDone \/ InterruptStale

FairSpec ==
  /\ Spec
  /\ WF_vars(ThreadStep)
  /\ \A c \in Claims : WF_vars(\E o \in Outcomes : WorkerReturn(c, o))
  /\ WF_vars(UserWrite \/ UserStale)
  /\ \A t \in Tasks : WF_vars(TimePasses(t))

-----------------------------------------------------------------------------
(***************************************************************************)
(* Safety.                                                                 *)
(***************************************************************************)

\* Whenever recover has finished its first pass, the thread is up, or the
\* thread has stopped and reported so (SchedulerHandle::shutdown returned
\* true), every row marked running belongs to an unfenced entry of the
\* active list: no task is left running that nobody will finish, cancel or
\* interrupt, and after an orderly stop no row is running at all.
RunningIsOwned ==
  pc \in ThreadUp \cup {"recover_interrupted", "stopped"} =>
    \A t \in Tasks :
      state[t] = "running" => <<t, attempt[t]>> \in active \ fenced

\* The active list never outgrows max_workers, so the unsigned subtraction
\* max_workers - active.len() of tick cannot wrap, however fenced entries,
\* failed reaps and unknown kinds pile up.
WorkerLimit ==
  /\ Cardinality(active) <= MaxWorkers
  /\ pc = "claim" \/ (pc = "reap" /\ nested) =>
       slots >= 0 /\ Cardinality(active) + slots <= MaxWorkers

\* The row changes decided by finish and cancel_active are still allowed when
\* they are written, whatever the workers and the user did since the read: a
\* tick never fails, and so never shuts the scheduler down, by losing a race.
PlannedWritesFresh ==
  pc \in {"reap", "cancel"} =>
    \A m \in plan : attempt[m.task] = m.attempt /\ state[m.task] = "running"

CanWrite(c) == CheckpointOk(TaskOf(c), AttemptOf(c))

\* A worker that has lost its row (cancelled, interrupted, completed or
\* claimed again) never gets it back while its thread lives, through manual
\* retries, recoveries and restarts of the scheduler in the same process: the
\* attempt number is a fencing token that is never issued again.
LostClaimStaysLost ==
  [][\A c \in Claims :
       Live(c) /\ Live(c)' /\ ~CanWrite(c) => ~CanWrite(c)']_vars

\* A completed task stays completed with its attempt, whichever stale reads
\* the scheduler, a worker or the user still hold.
CompletedIsFinal ==
  [][\A t \in Tasks : state[t] = "completed" =>
       state'[t] = "completed" /\ attempt'[t] = attempt[t]]_vars

\* Once a cancellation has been accepted the task is not run again until the
\* user retries it: neither an automatic retry, nor a later poll, nor the
\* recovery after a crash claims it.
CancelNeverRerun ==
  [][\A t \in Tasks : wanted[t] => attempt'[t] = attempt[t]]_vars

\* Every change to the rows is a step the transition table allows, a claim or
\* a retry, of one task at a time; raw UPDATEs that bypass
\* can_transition_to (retry_manually, schedule_retry, activate) included.
Lifecycle == INSTANCE TaskLifecycle
ImplementsLifecycle == Lifecycle!LifecycleSpec

-----------------------------------------------------------------------------
(***************************************************************************)
(* What makes the safety properties inductive.                             *)
(***************************************************************************)

\* Every claim a thread, an entry or a loop still holds was really issued.
TokensIssued ==
  \A c \in Claims :
    Live(c) \/ c \in active \cup fenced \cup todo \cup finished
      => AttemptOf(c) <= attempt[TaskOf(c)]

\* The first pass of recover has listed every running row.
RecoveryCovers ==
  pc = "recover_running" =>
    \A t \in Tasks : state[t] = "running" => \E m \in plan : m.task = t

\* An entry reap_finished is about to drop has been finished, or is fenced.
ReapCovers ==
  pc = "reap" =>
    /\ todo \subseteq finished
    /\ \A c \in finished : ~Live(c) /\ (c \in todo \cup fenced \/ ~Owns(c))

\* Where the planned writes of a tick come from.
PlanSources ==
  /\ pc \in {"loop", "claim"} => plan = {}
  /\ pc = "reap" => \A m \in plan : <<m.task, m.attempt>> \in todo
  /\ pc = "cancel" => \A m \in plan : cancel_requested[m.task]

OwnershipInv ==
  /\ TypeOK
  /\ TokensIssued
  /\ RecoveryCovers
  /\ ReapCovers
  /\ PlanSources
  /\ PlannedWritesFresh
  /\ RunningIsOwned

\* What the planned writes of recovery, cancellation and shutdown may do: none
\* of them requeues a task whose cancellation is pending.
PlanTargets ==
  /\ pc \in {"recover_running", "cancel", "interrupt"} =>
       \A m \in plan : m.from = "running" /\ m.to \in {"cancelled", "interrupted"}
  /\ pc = "recover_interrupted" =>
       \A m \in plan :
         /\ m.from = "interrupted" /\ m.to \in {"queued", "cancelled"}
         /\ m.to = "queued" /\ state[m.task] = "interrupted" => ~cancel_requested[m.task]

\* An accepted cancellation is in the row, as its flag or as its state.
CancelRecorded ==
  \A t \in Tasks :
    wanted[t] => cancel_requested[t] \/ state[t] \in {"cancelled", "completed"}

CancelInv == OwnershipInv /\ PlanTargets /\ CancelRecorded

-----------------------------------------------------------------------------
(***************************************************************************)
(* Liveness, under FairSpec.                                               *)
(***************************************************************************)

\* Requesting shutdown stops the thread: it waits for no worker, and one that
\* completes its row in the middle of interrupt_active does not stall it.
ShutdownCompletes == (pc \in ThreadUp /\ shutdown) ~> (pc \in {"stopped", "off"})

\* A running task does not stay running for ever: its result is recorded, it
\* is cancelled, or the scheduler stops and marks it interrupted.
RunningSettles ==
  \A t \in Tasks :
    (state[t] = "running" /\ pc \in ThreadUp)
      ~> (state[t] # "running" \/ pc = "off")

\* A claimable task is claimed (or cancelled) as long as the thread is up: a
\* fenced entry or an unknown kind does not hold its slot for ever.
DueTaskClaimed ==
  \A t \in Tasks :
    (Claimable(t) /\ pc \in ThreadUp) ~> (~Claimable(t) \/ pc \notin ThreadUp)

\* An accepted cancellation settles: the task ends cancelled, had already
\* completed or failed, or is interrupted (the next recovery cancels it),
\* unless the scheduler goes down first.
CancelSettles ==
  \A t \in Tasks :
    (wanted[t] /\ pc \in ThreadUp)
      ~> \/ state[t] \in {"cancelled", "completed", "failed", "interrupted"}
         \/ ~wanted[t]
         \/ pc \notin ThreadUp

=============================================================================
