------------------------- MODULE TaskSchedulerProofs -------------------------
(***************************************************************************)
(* Proofs about TaskScheduler, for every set of tasks, every choice of     *)
(* handlers and every value of the limits: its types, the ownership of     *)
(* running rows, the fencing of lost claims, the refinement of             *)
(* TaskLifecycle, cancellation and the worker limit.                       *)
(***************************************************************************)
EXTENDS TaskScheduler, FiniteSetTheorems, TLAPS

\* A legal transition never leads to running: only claim_next starts a task.
LEMMA TransitionNeverRuns ==
  ASSUME NEW t, NEW a, NEW from, NEW to, TransitionOk(t, a, from, to)
  PROVE  to # "running" /\ to \in TaskState
BY DEF TransitionOk, can_transition_to, TaskState

\* The fields of a planned write.
LEMMA MovesType ==
  ASSUME NEW m \in Moves
  PROVE  /\ m.task \in Tasks /\ m.attempt \in Attempts
         /\ m.from \in TaskState /\ m.to \in TaskState
BY DEF Moves

\* The fields of a user command under way.
LEMMA CmdsType ==
  ASSUME TypeOK, cmd # NoCmd
  PROVE  /\ cmd.op \in {"cancel", "retry"} /\ cmd.task \in Tasks
         /\ cmd.attempt \in Attempts /\ cmd.from \in TaskState
BY DEF TypeOK, Cmds

\* Every transaction on a row keeps the rows well typed.
LEMMA RowSteps ==
  ASSUME RowTypeOK, NEW t \in Tasks
  PROVE  /\ \A a, from, to : transition(t, a, from, to) => RowTypeOK'
         /\ \A a : schedule_retry(t, a) => RowTypeOK'
         /\ \A a : request_running_cancellation(t, a) => RowTypeOK'
         /\ \A a, from : retry_manually(t, a, from) => RowTypeOK'
         /\ \A a : activate(t, a) => RowTypeOK'
         /\ \A a : \A s \in {"none", "later"} : checkpoint(t, a, s) => RowTypeOK'
         /\ \A s \in {"none", "later"} : create(t, s) => RowTypeOK'
         /\ ScheduleReached(t) => RowTypeOK'
         /\ claim_next(t) => RowTypeOK'
<1> USE DEF RowTypeOK, Schedule
<1>1. \A a, from, to : transition(t, a, from, to) => RowTypeOK'
  BY TransitionNeverRuns DEF transition
<1>2. \A a : schedule_retry(t, a) => RowTypeOK'
  BY DEF schedule_retry, TaskState
<1>3. \A a : request_running_cancellation(t, a) => RowTypeOK'
  BY DEF request_running_cancellation
<1>4. \A a, from : retry_manually(t, a, from) => RowTypeOK'
  BY DEF retry_manually, TaskState
<1>5. \A a : activate(t, a) => RowTypeOK'
  BY DEF activate, TaskState
<1>6. \A a : \A s \in {"none", "later"} : checkpoint(t, a, s) => RowTypeOK'
  BY DEF checkpoint
<1>7. \A s \in {"none", "later"} : create(t, s) => RowTypeOK'
  BY DEF create, TaskState
<1>8. ScheduleReached(t) => RowTypeOK'
  BY DEF ScheduleReached
<1>9. claim_next(t) => RowTypeOK'
  BY MaxClaimsAssumption DEF claim_next, Candidates, Claimable, TaskState, Attempts
<1>10. QED
  BY <1>1, <1>2, <1>3, <1>4, <1>5, <1>6, <1>7, <1>8, <1>9

\* Steps that write no row keep the rows well typed.
LEMMA RowUnchanged == RowTypeOK /\ UNCHANGED rowVars => RowTypeOK'
BY DEF RowTypeOK, rowVars

\* What the plans of recover and the reads of the loops are made of.
LEMMA MoveType ==
  ASSUME TypeOK, NEW t \in Tasks, NEW from \in TaskState, NEW to \in TaskState
  PROVE  Move(t, from, to) \in Moves
BY DEF TypeOK, RowTypeOK, Move, Moves

\* finish() writes a state of the table.
LEMMA FinishTargetType ==
  ASSUME TypeOK, NEW c \in Claims
  PROVE  FinishTarget(c) \in TaskState
BY DEF FinishTarget, TaskState

\* The parts of a claim.
LEMMA ClaimType ==
  ASSUME NEW c \in Claims
  PROVE  TaskOf(c) \in Tasks /\ AttemptOf(c) \in 1..MaxClaims
BY DEF Claims, TaskOf, AttemptOf

\* Both passes of recover plan well-typed writes.
LEMMA RecoverPlanType ==
  ASSUME TypeOK
  PROVE  RecoverRunningPlan \in SUBSET Moves /\ RecoverInterruptedPlan \in SUBSET Moves
<1>1. {"running", "cancelled", "interrupted", "queued"} \subseteq TaskState
  BY DEF TaskState
<1>2. QED
  BY <1>1, MoveType DEF RecoverRunningPlan, RecoverInterruptedPlan

\* There are finitely many claims, so the active list has a length.
LEMMA ClaimsFinite ==
  ASSUME NEW S \in SUBSET Claims
  PROVE  IsFiniteSet(S) /\ Cardinality(S) \in Nat
<1>1. IsFiniteSet(1..MaxClaims)
  BY FS_Interval, MaxClaimsAssumption
<1>2. IsFiniteSet(Claims)
  BY <1>1, FS_Product, SchedulerAssumption DEF Claims
<1>3. QED
  BY <1>2, FS_Subset, FS_CardinalityType

\* claim_next hands out an attempt number within the bound.
LEMMA ClaimIsClaim ==
  ASSUME TypeOK, NEW t \in Tasks, claim_next(t)
  PROVE  <<t, attempt[t] + 1>> \in Claims
<1>1. attempt[t] \in Nat /\ attempt[t] < MaxClaims
  BY MaxClaimsAssumption DEF claim_next, Candidates, Claimable, TypeOK, RowTypeOK, Attempts
<1>2. QED
  BY <1>1, MaxClaimsAssumption DEF Claims

\* The initial state is well typed.
LEMMA TypeInit == Init => TypeOK
<1> SUFFICES ASSUME Init PROVE TypeOK
  OBVIOUS
<1>1. RowTypeOK
  BY MaxClaimsAssumption DEF Init, NoRows, RowTypeOK, Attempts, Schedule
<1>2. faults \in 0..MaxFaults /\ slots \in Int
  BY SchedulerAssumption DEF Init
<1>3. worker \in [Claims -> {"none", "live"} \cup Outcomes]
  BY DEF Init
<1>4. wanted \in [Tasks -> BOOLEAN]
  BY DEF Init
<1>5. QED
  BY <1>1, <1>2, <1>3, <1>4 DEF Init, TypeOK, Phases

\* Every step of the scheduler, the workers, the user and the crashes keeps it so.
LEMMA TypeStep ==
  ASSUME TypeOK, [Next]_vars
  PROVE  TypeOK'
<1> USE DEF Phases, Recovering, Ticking, ThreadUp
<1>1. CASE Start
  BY <1>1, RecoverPlanType, RowUnchanged DEF Start, TypeOK
<1>2. CASE RecoverWrite
  <2>1. PICK m \in plan : /\ transition(m.task, m.attempt, m.from, m.to)
                          /\ plan' = plan \ {m}
    BY <1>2 DEF RecoverWrite
  <2>2. m.task \in Tasks
    BY MovesType DEF TypeOK
  <2>3. RowTypeOK'
    BY <2>1, <2>2, RowSteps DEF TypeOK
  <2>4. QED
    BY <1>2, <2>1, <2>3 DEF RecoverWrite, TypeOK
<1>3. CASE RecoverListInterrupted
  BY <1>3, RecoverPlanType, RowUnchanged DEF RecoverListInterrupted, TypeOK
<1>4. CASE RecoverDone
  BY <1>4, RowUnchanged DEF RecoverDone, TypeOK
<1>5. CASE RecoverStale
  BY <1>5, RowUnchanged DEF RecoverStale, TypeOK
<1>6. CASE BeginInterrupt
  BY <1>6, RowUnchanged DEF BeginInterrupt, TypeOK
<1>7. CASE InterruptDone
  BY <1>7, RowUnchanged DEF InterruptDone, TypeOK
<1>8. CASE InterruptStale
  BY <1>8, RowUnchanged DEF InterruptStale, TypeOK
<1>9. CASE ClaimDone
  BY <1>9, RowUnchanged DEF ClaimDone, TypeOK
<1>10. CASE ThreadStops
  BY <1>10, RowUnchanged DEF ThreadStops, Dropped, TypeOK
<1>11. CASE BeginTick
  BY <1>11, RowUnchanged DEF BeginTick, Answered, TypeOK
<1>12. CASE FinishRead
  <2>1. PICK c \in todo :
          IF Owns(c)
          THEN /\ plan' = {Move(TaskOf(c), "running", FinishTarget(c))}
               /\ UNCHANGED todo
          ELSE /\ todo' = todo \ {c}
               /\ UNCHANGED plan
    BY <1>12 DEF FinishRead
  <2>2. c \in Claims
    BY DEF TypeOK
  <2>3. Move(TaskOf(c), "running", FinishTarget(c)) \in Moves
    BY <2>2, ClaimType, FinishTargetType, MoveType DEF TaskState
  <2>4. plan' \in SUBSET Moves /\ todo' \in SUBSET Claims
    BY <2>1, <2>3 DEF TypeOK
  <2>5. QED
    BY <1>12, <2>4, RowUnchanged DEF FinishRead, TypeOK
<1>13. CASE FinishWrite
  <2>1. PICK m \in plan :
          /\ IF m.to = "queued"
             THEN schedule_retry(m.task, m.attempt)
             ELSE transition(m.task, m.attempt, m.from, m.to)
          /\ todo' = todo \ {<<m.task, m.attempt>>}
    BY <1>13 DEF FinishWrite
  <2>2. m.task \in Tasks
    BY MovesType DEF TypeOK
  <2>3. RowTypeOK'
    BY <2>1, <2>2, RowSteps DEF TypeOK
  <2>4. QED
    BY <1>13, <2>1, <2>3 DEF FinishWrite, TypeOK
<1>14. CASE ReapDone
  BY <1>14, RowUnchanged DEF ReapDone, TypeOK
<1>15. CASE CancelRead
  <2>1. PICK c \in todo :
          IF Owns(c) /\ cancel_requested[TaskOf(c)]
          THEN /\ plan' = {Move(TaskOf(c), "running", "cancelled")}
               /\ UNCHANGED <<todo, fenced>>
          ELSE /\ todo' = todo \ {c}
               /\ fenced' = IF Owns(c) THEN fenced ELSE fenced \cup {c}
               /\ UNCHANGED plan
    BY <1>15 DEF CancelRead
  <2>2. c \in Claims
    BY DEF TypeOK
  <2>3. \A to \in {"cancelled", "interrupted"} :
          Move(TaskOf(c), "running", to) \in Moves
    BY <2>2, ClaimType, MoveType DEF TaskState
  <2>4. /\ plan' \in SUBSET Moves
        /\ todo' \in SUBSET Claims
        /\ fenced' \in SUBSET Claims
    BY <2>1, <2>2, <2>3 DEF TypeOK
  <2>5. QED
    BY <1>15, <2>4, RowUnchanged DEF CancelRead, TypeOK
<1>16. CASE InterruptRead
  <2>1. PICK c \in todo :
          IF Owns(c)
          THEN /\ plan' = {Move(TaskOf(c), "running", IF cancel_requested[TaskOf(c)]
                                                   THEN "cancelled" ELSE "interrupted")}
               /\ UNCHANGED <<todo, fenced>>
          ELSE /\ todo' = todo \ {c}
               /\ fenced' = fenced \cup {c}
               /\ UNCHANGED plan
    BY <1>16 DEF InterruptRead
  <2>2. c \in Claims
    BY DEF TypeOK
  <2>3. \A to \in {"cancelled", "interrupted"} :
          Move(TaskOf(c), "running", to) \in Moves
    BY <2>2, ClaimType, MoveType DEF TaskState
  <2>4. /\ plan' \in SUBSET Moves
        /\ todo' \in SUBSET Claims
        /\ fenced' \in SUBSET Claims
    BY <2>1, <2>2, <2>3 DEF TypeOK
  <2>5. QED
    BY <1>16, <2>4, RowUnchanged DEF InterruptRead, TypeOK
<1>17. CASE FencingWrite
  <2>1. PICK m \in plan, c \in todo :
          /\ transition(m.task, m.attempt, m.from, m.to)
          /\ todo' = todo \ {c}
          /\ fenced' = fenced \cup {c}
    BY <1>17 DEF FencingWrite
  <2>2. m.task \in Tasks
    BY MovesType DEF TypeOK
  <2>3. RowTypeOK'
    BY <2>1, <2>2, RowSteps DEF TypeOK
  <2>4. QED
    BY <1>17, <2>1, <2>3 DEF FencingWrite, TypeOK
<1>18. CASE CancelDone
  BY <1>18, RowUnchanged, ClaimsFinite, SchedulerAssumption DEF CancelDone, TypeOK
<1>19. ASSUME NEW t \in Tasks, ClaimAndSpawn(t) \/ ClaimUnknown(t)
       PROVE  TypeOK'
  <2>1. claim_next(t)
    BY <1>19 DEF ClaimAndSpawn, ClaimUnknown
  <2>2. RowTypeOK'
    BY <2>1, RowSteps DEF TypeOK
  <2>3. <<t, attempt[t] + 1>> \in Claims
    BY <2>1, ClaimIsClaim
  <2>4. CASE ClaimAndSpawn(t)
    BY <2>2, <2>3, <2>4 DEF ClaimAndSpawn, TypeOK
  <2>5. CASE ClaimUnknown(t)
    BY <2>2, <2>3, <2>5 DEF ClaimUnknown, Answered, TypeOK, Outcomes
  <2>6. QED
    BY <1>19, <2>4, <2>5
<1>20. CASE TickFails
  BY <1>20, RowUnchanged, SchedulerAssumption DEF TickFails, TypeOK
<1>21. CASE StorageFault
  BY <1>21, RowUnchanged, SchedulerAssumption DEF StorageFault, TypeOK
<1>22. CASE Worker
  <2>1. PICK c \in Claims :
          \/ \E s \in {"none", "later"} : WorkerCheckpoint(c, s)
          \/ WorkerActivate(c)
          \/ \E o \in Outcomes : WorkerReturn(c, o)
    BY <1>22 DEF Worker
  <2>2. RowTypeOK'
    BY <2>1, ClaimType, RowSteps, RowUnchanged
    DEF WorkerCheckpoint, WorkerActivate, WorkerReturn, TypeOK
  <2>3. worker' \in [Claims -> {"none", "live"} \cup Outcomes]
    BY <2>1 DEF WorkerCheckpoint, WorkerActivate, WorkerReturn, TypeOK
  <2>4. QED
    BY <2>1, <2>2, <2>3
    DEF WorkerCheckpoint, WorkerActivate, WorkerReturn, threadVars, TypeOK
<1>23. CASE Environment
  <2>1. ASSUME NEW t \in Tasks, NEW s \in {"none", "later"}, Create(t, s)
        PROVE  TypeOK'
    BY <2>1, RowSteps DEF Create, threadVars, TypeOK
  <2>2. ASSUME NEW t \in Tasks, NEW op \in {"cancel", "retry"}, UserRead(op, t)
        PROVE  TypeOK'
    <3>1. state[t] \in TaskState
      BY <2>2 DEF UserRead, Cancellable, Retryable, TaskState
    <3>2. cmd' \in Cmds
      BY <2>2, <3>1 DEF UserRead, Cmds, TypeOK, RowTypeOK
    <3>3. QED
      BY <2>2, <3>2, RowUnchanged DEF UserRead, threadVars, TypeOK
  <2>3. ASSUME NEW t \in Tasks, TimePasses(t)
        PROVE  TypeOK'
    BY <2>3, RowSteps DEF TimePasses, threadVars, TypeOK
  <2>4. CASE UserWrite
    <3>1. cmd.task \in Tasks /\ cmd.op \in {"cancel", "retry"}
      BY <2>4, CmdsType DEF UserWrite
    <3>2. RowTypeOK'
      BY <2>4, <3>1, RowSteps DEF UserWrite, TypeOK
    <3>3. QED
      BY <2>4, <3>1, <3>2 DEF UserWrite, threadVars, TypeOK
  <2>5. CASE UserStale
    BY <2>5, RowUnchanged DEF UserStale, threadVars, TypeOK
  <2>6. CASE RequestShutdown
    BY <2>6, RowUnchanged DEF RequestShutdown, TypeOK
  <2>7. CASE Crash
    <3>1. faults' \in 0..MaxFaults /\ slots' \in Int
      BY <2>7, SchedulerAssumption DEF Crash, TypeOK
    <3>2. worker' \in [Claims -> {"none", "live"} \cup Outcomes]
      BY <2>7 DEF Crash
    <3>3. QED
      BY <2>7, <3>1, <3>2, RowUnchanged DEF Crash, TypeOK
  <2>8. QED
    BY <1>23, <2>1, <2>2, <2>3, <2>4, <2>5, <2>6, <2>7 DEF Environment
<1>24. CASE UNCHANGED vars
  BY <1>24, RowUnchanged DEF vars, threadVars, TypeOK
<1>25. QED
  BY <1>1, <1>2, <1>3, <1>4, <1>5, <1>6, <1>7, <1>8, <1>9, <1>10, <1>11,
     <1>12, <1>13, <1>14, <1>15, <1>16, <1>17, <1>18, <1>19, <1>20, <1>21,
     <1>22, <1>23, <1>24
  DEF Next, Scheduler

\* Type correctness of the scheduler: TypeOK is inductive.
THEOREM TypeCorrect == Spec => []TypeOK
BY TypeInit, TypeStep, PTL DEF Spec

-----------------------------------------------------------------------------
(***************************************************************************)
(* Effects on the rows.  Every step but a claim is a lifecycle step that   *)
(* leaves the attempts alone.                                              *)
(***************************************************************************)
LifecycleStep(t) ==
  Lifecycle!Appear(t) \/ Lifecycle!Requeue(t) \/ Lifecycle!Transition(t)

RowsStep == (\E t \in Tasks : LifecycleStep(t)) \/ UNCHANGED <<state, attempt>>

ClaimStep == \E t \in Tasks : ClaimAndSpawn(t) \/ ClaimUnknown(t)

\* Each transaction on a row, except a claim, is a lifecycle step.
LEMMA RowOperations ==
  ASSUME TypeOK, NEW t \in Tasks
  PROVE  /\ \A a, from, to : transition(t, a, from, to) => LifecycleStep(t)
         /\ \A a : schedule_retry(t, a) => LifecycleStep(t)
         /\ \A a, from : retry_manually(t, a, from) => LifecycleStep(t)
         /\ \A a : activate(t, a) => LifecycleStep(t)
         /\ \A s : create(t, s) => LifecycleStep(t)
<1> USE DEF LifecycleStep, Lifecycle!Appear, Lifecycle!Requeue,
            Lifecycle!Transition, Lifecycle!TaskState,
            Lifecycle!can_transition_to
<1>1. ASSUME NEW a, NEW from, NEW to, transition(t, a, from, to)
      PROVE  LifecycleStep(t)
  <2>1. to \in TaskState \ {"running"}
    BY <1>1, TransitionNeverRuns DEF transition
  <2>2. QED
    BY <1>1, <2>1 DEF transition, TransitionOk, can_transition_to, TaskState
<1>2. ASSUME NEW a, schedule_retry(t, a)
      PROVE  LifecycleStep(t)
  BY <1>2 DEF schedule_retry, ScheduleRetryOk
<1>3. ASSUME NEW a, NEW from, retry_manually(t, a, from)
      PROVE  LifecycleStep(t)
  BY <1>3 DEF retry_manually, RetryManuallyOk, Retryable
<1>4. ASSUME NEW a, activate(t, a)
      PROVE  LifecycleStep(t)
  BY <1>4 DEF activate, ActivateOk
<1>5. ASSUME NEW s, create(t, s)
      PROVE  LifecycleStep(t)
  BY <1>5 DEF create
<1>6. QED
  BY <1>1, <1>2, <1>3, <1>4, <1>5

\* Steps of the workers, the user, the creators of tasks and the clock.
Outside ==
  \/ Worker
  \/ \E t \in Tasks :
       \/ \E schedule \in {"none", "later"} : Create(t, schedule)
       \/ \E op \in {"cancel", "retry"} : UserRead(op, t)
       \/ TimePasses(t)
  \/ UserWrite
  \/ UserStale

\* A step from outside is a lifecycle step of some row or leaves states alone.
LEMMA OutsideRows ==
  ASSUME TypeOK, Outside
  PROVE  RowsStep
<1> USE DEF RowsStep
<1>1. CASE Worker
  <2>1. PICK c \in Claims :
          \/ \E s \in {"none", "later"} : WorkerCheckpoint(c, s)
          \/ WorkerActivate(c)
          \/ \E o \in Outcomes : WorkerReturn(c, o)
    BY <1>1 DEF Worker
  <2>2. TaskOf(c) \in Tasks
    BY ClaimType
  <2>3. CASE WorkerActivate(c)
    BY <2>2, <2>3, RowOperations DEF WorkerActivate
  <2>4. QED
    BY <2>1, <2>3 DEF WorkerCheckpoint, checkpoint, WorkerReturn, rowVars
<1>2. CASE UserWrite
  <2>1. cmd.task \in Tasks
    BY <1>2, CmdsType DEF UserWrite
  <2>2. \/ request_running_cancellation(cmd.task, cmd.attempt)
        \/ retry_manually(cmd.task, cmd.attempt, cmd.from)
        \/ transition(cmd.task, cmd.attempt, cmd.from, "cancelled")
    BY <1>2 DEF UserWrite
  <2>3. QED
    BY <2>1, <2>2, RowOperations DEF request_running_cancellation
<1>3. ASSUME NEW t \in Tasks, NEW s, Create(t, s)
      PROVE  RowsStep
  BY <1>3, RowOperations DEF Create
<1>4. QED
  BY <1>1, <1>2, <1>3 DEF Outside, UserRead, TimePasses, ScheduleReached, UserStale, rowVars

\* Every step of the system is a lifecycle step of the rows or a claim.
LEMMA StepRows ==
  ASSUME TypeOK, [Next]_vars
  PROVE  RowsStep \/ ClaimStep
<1>1. CASE RecoverWrite
  <2>1. PICK m \in plan : transition(m.task, m.attempt, m.from, m.to)
    BY <1>1 DEF RecoverWrite
  <2>2. m.task \in Tasks
    BY MovesType DEF TypeOK
  <2>3. QED
    BY <2>1, <2>2, RowOperations DEF RowsStep
<1>2. CASE FinishWrite
  <2>1. PICK m \in plan : \/ schedule_retry(m.task, m.attempt)
                          \/ transition(m.task, m.attempt, m.from, m.to)
    BY <1>2 DEF FinishWrite
  <2>2. m.task \in Tasks
    BY MovesType DEF TypeOK
  <2>3. QED
    BY <2>1, <2>2, RowOperations DEF RowsStep
<1>3. CASE FencingWrite
  <2>1. PICK m \in plan : transition(m.task, m.attempt, m.from, m.to)
    BY <1>3 DEF FencingWrite
  <2>2. m.task \in Tasks
    BY MovesType DEF TypeOK
  <2>3. QED
    BY <2>1, <2>2, RowOperations DEF RowsStep
<1>4. CASE Outside
  BY <1>4, OutsideRows
<1>5. CASE RequestShutdown \/ Crash \/ UNCHANGED vars
  BY <1>5 DEF RequestShutdown, Crash, vars, rowVars, RowsStep
<1>6. QED
  BY <1>1, <1>2, <1>3, <1>4, <1>5
  DEF RowsStep, ClaimStep, Outside, Next, Scheduler, Environment, Start,
      RecoverListInterrupted, RecoverDone, RecoverStale, ThreadStops, BeginInterrupt,
      BeginTick, FinishRead, ReapDone, CancelRead, CancelDone, ClaimDone,
      InterruptRead, InterruptDone, InterruptStale, TickFails, StorageFault, rowVars

\* A claim is a lifecycle claim of its task.
LEMMA ClaimStepRows ==
  ASSUME TypeOK, ClaimStep
  PROVE  /\ pc = "claim"
         /\ \E t \in Tasks :
              /\ Lifecycle!Claim(t)
              /\ ~cancel_requested[t]
              /\ UNCHANGED cancel_requested
BY DEF ClaimStep, ClaimAndSpawn, ClaimUnknown, claim_next, Candidates, Claimable,
       Lifecycle!Claim

\* What a step that is not a claim leaves alone: no row starts running, none
\* starts waiting unless it ran, and completed rows stay as they are.
RowsQuiet ==
  /\ attempt' = attempt
  /\ \A t \in Tasks :
       /\ state'[t] = "running" => state[t] = "running"
       /\ state'[t] = "waiting_external" => state[t] \in {"running", "waiting_external"}
       /\ state[t] = "completed" => state'[t] = "completed"

\* A lifecycle step other than a claim is quiet.
LEMMA QuietStep ==
  ASSUME TypeOK, RowsStep
  PROVE  RowsQuiet
<1>1. CASE UNCHANGED <<state, attempt>>
  BY <1>1 DEF RowsQuiet
<1>2. ASSUME NEW u \in Tasks, LifecycleStep(u)
      PROVE  RowsQuiet
  BY <1>2
  DEF RowsQuiet, LifecycleStep, Lifecycle!Appear, Lifecycle!Requeue,
      Lifecycle!Transition, Lifecycle!can_transition_to, TypeOK, RowTypeOK
<1>3. QED
  BY <1>1, <1>2 DEF RowsStep

\* The scheduler, its workers, the user and the crashes together implement the
\* task lifecycle: whatever the interleaving, every change of the rows is a
\* step of the transition table, a claim or a requeue, of one task.
THEOREM RefinesLifecycle == Spec => ImplementsLifecycle
<1>1. Init => Lifecycle!LifecycleInit
  BY DEF Init, NoRows, Lifecycle!LifecycleInit
<1>2. ASSUME TypeOK, [Next]_vars
      PROVE  [Lifecycle!LifecycleNext]_(Lifecycle!lifecycleVars)
  <2>1. CASE RowsStep
    BY <2>1 DEF RowsStep, LifecycleStep, Lifecycle!LifecycleNext, Lifecycle!lifecycleVars
  <2>2. CASE ClaimStep
    BY <1>2, <2>2, ClaimStepRows DEF Lifecycle!LifecycleNext
  <2>3. QED
    BY <1>2, <2>1, <2>2, StepRows
<1>3. QED
  BY <1>1, <1>2, TypeCorrect, PTL DEF Spec, ImplementsLifecycle, Lifecycle!LifecycleSpec

\* A completed task keeps its state and its attempt for good.
THEOREM CompletedStays == Spec => CompletedIsFinal
<1>1. ASSUME TypeOK, [Next]_vars
      PROVE  \A t \in Tasks : state[t] = "completed" =>
               state'[t] = "completed" /\ attempt'[t] = attempt[t]
  <2>1. CASE RowsStep
    BY <1>1, <2>1, QuietStep DEF RowsQuiet
  <2>2. CASE ClaimStep
    BY <1>1, <2>2, ClaimStepRows DEF Lifecycle!Claim, TypeOK, RowTypeOK
  <2>3. QED
    BY <1>1, <2>1, <2>2, StepRows
<1>2. QED
  BY <1>1, TypeCorrect, PTL DEF Spec, CompletedIsFinal

-----------------------------------------------------------------------------
(***************************************************************************)
(* Ownership.  Steps from outside leave the scheduler thread alone and     *)
(* start no worker; only the worker that owns a running row can end it,    *)
(* and not once its cancellation has been asked for.                       *)
(***************************************************************************)
LEMMA OutsideStep ==
  ASSUME TypeOK, Outside
  PROVE  /\ UNCHANGED threadVars
         /\ RowsQuiet
         /\ \A c \in Claims : Live(c)' => Live(c)
         /\ \A t \in Tasks : state[t] = "running" =>
              /\ state'[t] # "running" => ~cancel_requested[t] /\ Live(<<t, attempt[t]>>)
              /\ cancel_requested[t] => cancel_requested'[t]
<1>1. RowsQuiet
  BY OutsideRows, QuietStep
<1>2. UNCHANGED threadVars
  BY DEF Outside, Worker, WorkerCheckpoint, WorkerActivate, WorkerReturn, Create,
         UserRead, TimePasses, UserWrite, UserStale
<1>3. \A c \in Claims : Live(c)' => Live(c)
  BY DEF Outside, Worker, WorkerCheckpoint, WorkerActivate, WorkerReturn, Create,
         UserRead, TimePasses, UserWrite, UserStale, Live, TypeOK, Outcomes
<1>4. ASSUME NEW t \in Tasks, state[t] = "running"
      PROVE  /\ state'[t] # "running" => ~cancel_requested[t] /\ Live(<<t, attempt[t]>>)
             /\ cancel_requested[t] => cancel_requested'[t]
  <2> USE <1>4 DEF TypeOK, RowTypeOK
  <2>1. CASE Worker
    <3>1. PICK c \in Claims :
            \/ \E s \in {"none", "later"} : WorkerCheckpoint(c, s)
            \/ WorkerActivate(c)
            \/ \E o \in Outcomes : WorkerReturn(c, o)
      BY <2>1 DEF Worker
    <3>2. CASE WorkerActivate(c)
      <4>1. c = <<TaskOf(c), AttemptOf(c)>>
        BY DEF Claims, TaskOf, AttemptOf
      <4>2. QED
        BY <3>2, <4>1, ClaimType DEF WorkerActivate, activate, ActivateOk
    <3>3. QED
      BY <3>1, <3>2 DEF WorkerCheckpoint, checkpoint, WorkerReturn, rowVars
  <2>2. CASE UserWrite
    <3>1. cmd.task \in Tasks
      BY <2>2, CmdsType DEF UserWrite
    <3>2. QED
      BY <2>2, <3>1
      DEF UserWrite, request_running_cancellation, retry_manually, RetryManuallyOk,
          Retryable, transition, TransitionOk
  <2>3. ASSUME NEW u \in Tasks, NEW s, Create(u, s)
        PROVE  state'[t] = "running" /\ cancel_requested'[t] = cancel_requested[t]
    BY <2>3 DEF Create, create
  <2>4. QED
    BY <2>1, <2>2, <2>3
    DEF Outside, UserRead, TimePasses, ScheduleReached, UserStale, rowVars
<1>5. QED
  BY <1>1, <1>2, <1>3, <1>4

\* The claims held by a thread, an entry or a loop.
Held(c) == Live(c) \/ c \in active \cup fenced \cup todo \cup finished

\* A step that is not a claim makes nobody hold a claim nobody held.
LEMMA HeldShrinks ==
  ASSUME TypeOK, [Next]_vars, ~ClaimStep
  PROVE  \A c \in Claims : Held(c)' => Held(c)
<1> USE DEF Held, Live
<1>1. CASE Outside
  BY <1>1, OutsideStep DEF threadVars
<1>2. CASE ThreadStops \/ BeginInterrupt \/ BeginTick \/ ReapDone \/ Crash
  BY <1>2 DEF ThreadStops, BeginInterrupt, BeginTick, ReapDone, Crash, Dropped,
              Answered, Outcomes, TypeOK
<1>3. CASE FinishRead \/ FinishWrite \/ CancelRead \/ InterruptRead \/ FencingWrite
  BY <1>3 DEF FinishRead, FinishWrite, CancelRead, InterruptRead, FencingWrite
<1>4. CASE UNCHANGED vars
  BY <1>4 DEF vars, threadVars
<1>5. QED
  BY <1>1, <1>2, <1>3, <1>4
  DEF ClaimStep, Outside, Next, Scheduler, Environment, Start, RecoverWrite,
      RecoverListInterrupted, RecoverDone, RecoverStale, CancelDone, ClaimDone,
      InterruptDone, InterruptStale, TickFails, StorageFault, RequestShutdown

\* Attempt numbers only grow, and a claim holds the number it was issued.
LEMMA TokensIssuedStep ==
  ASSUME TypeOK, TokensIssued, [Next]_vars
  PROVE  TokensIssued'
<1> USE DEF TokensIssued
<1>1. TokensIssued <=> \A c \in Claims : Held(c) => AttemptOf(c) <= attempt[TaskOf(c)]
  BY DEF Held
<1>2. TokensIssued' <=> \A c \in Claims : Held(c)' => AttemptOf(c) <= attempt'[TaskOf(c)]
  BY DEF Held, AttemptOf, TaskOf
<1>3. CASE ~ClaimStep
  BY <1>1, <1>2, <1>3, HeldShrinks, StepRows, QuietStep DEF RowsQuiet
<1>4. ASSUME NEW t \in Tasks, ClaimAndSpawn(t) \/ ClaimUnknown(t)
      PROVE  TokensIssued'
  <2>1. <<t, attempt[t] + 1>> \in Claims /\ attempt' = [attempt EXCEPT ![t] = @ + 1]
    BY <1>4, ClaimIsClaim DEF ClaimAndSpawn, ClaimUnknown, claim_next
  <2>2. \A c \in Claims : Held(c)' => Held(c) \/ c = <<t, attempt[t] + 1>>
    BY <1>4, <2>1 DEF ClaimAndSpawn, ClaimUnknown, Answered, Held, Live, TypeOK, Outcomes
  <2>3. ASSUME NEW c \in Claims, Held(c)'
        PROVE  AttemptOf(c) <= attempt'[TaskOf(c)]
    <3>1. /\ TaskOf(c) \in Tasks /\ AttemptOf(c) \in Nat
          /\ attempt[TaskOf(c)] \in Nat /\ attempt[t] \in Nat
      BY ClaimType, MaxClaimsAssumption DEF TypeOK, RowTypeOK, Attempts
    <3>2. CASE Held(c)
      BY <1>1, <2>1, <3>1, <3>2 DEF TypeOK, RowTypeOK
    <3>3. CASE c = <<t, attempt[t] + 1>>
      BY <2>1, <3>1, <3>3 DEF TaskOf, AttemptOf, TypeOK, RowTypeOK
    <3>4. QED
      BY <2>2, <2>3, <3>2, <3>3
  <2>4. QED
    BY <1>2, <2>3
<1>5. QED
  BY <1>3, <1>4 DEF ClaimStep

\* The number a claim issues was never held before.
LEMMA FreshClaim ==
  ASSUME TypeOK, TokensIssued, NEW t \in Tasks
  PROVE  /\ <<t, attempt[t] + 1>> \notin active \cup fenced \cup todo \cup finished
         /\ <<t, attempt[t] + 1>> \in Claims => ~Live(<<t, attempt[t] + 1>>)
<1>1. attempt[t] \in Nat
  BY MaxClaimsAssumption DEF TypeOK, RowTypeOK, Attempts
<1>2. <<t, attempt[t] + 1>> \in Claims => ~Held(<<t, attempt[t] + 1>>)
  BY <1>1 DEF TokensIssued, Held, TaskOf, AttemptOf
<1>3. QED
  BY <1>2 DEF Held, TypeOK

\* No row starts running while recover works through its first list.
LEMMA RecoveryCoversStep ==
  ASSUME TypeOK, RecoveryCovers, [Next]_vars
  PROVE  RecoveryCovers'
<1> USE DEF RecoveryCovers
<1>1. CASE Outside
  BY <1>1, OutsideStep DEF threadVars, RowsQuiet
<1>2. CASE Start
  <2>1. UNCHANGED <<state, attempt, cancel_requested>> /\ plan' = RecoverRunningPlan
    BY <1>2 DEF Start, rowVars
  <2>2. ASSUME NEW t \in Tasks, state[t] = "running"
        PROVE  \E m \in RecoverRunningPlan : m.task = t
    <3>1. Move(t, "running", IF cancel_requested[t] THEN "cancelled" ELSE "interrupted")
            \in RecoverRunningPlan
      BY <2>2 DEF RecoverRunningPlan
    <3>2. QED
      BY <3>1 DEF Move
  <2>3. QED
    BY <2>1, <2>2
<1>3. CASE RecoverWrite
  <2>1. PICK m \in plan : /\ transition(m.task, m.attempt, m.from, m.to)
                          /\ plan' = plan \ {m}
    BY <1>3 DEF RecoverWrite
  <2>2. m.task \in Tasks /\ m.to # "running"
    BY <2>1, MovesType, TransitionNeverRuns DEF transition, TypeOK
  <2>3. QED
    BY <1>3, <2>1, <2>2 DEF RecoverWrite, transition, TypeOK, RowTypeOK
<1>4. CASE UNCHANGED vars
  BY <1>4 DEF vars, threadVars, rowVars
<1>5. QED
  BY <1>1, <1>2, <1>3, <1>4
  DEF Outside, Next, Scheduler, Environment, RecoverListInterrupted, RecoverDone,
      RecoverStale, ThreadStops, BeginInterrupt, BeginTick, FinishRead, FinishWrite,
      ReapDone, CancelRead, FencingWrite, CancelDone, ClaimAndSpawn, ClaimUnknown,
      ClaimDone, InterruptRead, InterruptDone, InterruptStale, TickFails,
      StorageFault, RequestShutdown, Crash, ThreadUp

\* A write planned from a read moves its row out of running.
LEMMA PlannedWrite ==
  ASSUME TypeOK, NEW m \in plan,
         \/ schedule_retry(m.task, m.attempt)
         \/ transition(m.task, m.attempt, m.from, m.to)
  PROVE  /\ m.task \in Tasks
         /\ state'[m.task] # "running"
         /\ \A t \in Tasks \ {m.task} :
              /\ state'[t] = state[t]
              /\ cancel_requested'[t] = cancel_requested[t]
         /\ attempt' = attempt
<1>1. m.task \in Tasks
  BY MovesType DEF TypeOK
<1>2. QED
  BY <1>1, TransitionNeverRuns DEF schedule_retry, transition, TypeOK, RowTypeOK

\* Every step keeps the running rows owned.
LEMMA RunningIsOwnedStep ==
  ASSUME OwnershipInv, [Next]_vars
  PROVE  RunningIsOwned'
<1> USE DEF OwnershipInv, RunningIsOwned, ThreadUp
<1>1. CASE Outside
  BY <1>1, OutsideStep DEF threadVars, RowsQuiet
<1>2. CASE RecoverWrite
  BY <1>2, StepRows, QuietStep, PlannedWrite DEF RecoverWrite, Recovering, transition, RowsQuiet
<1>3. CASE RecoverListInterrupted
  BY <1>3 DEF RecoverListInterrupted, RecoveryCovers, rowVars
<1>4. CASE ThreadStops
  BY <1>4 DEF ThreadStops, rowVars
<1>5. CASE FinishWrite
  <2>1. PICK m \in plan : \/ schedule_retry(m.task, m.attempt)
                          \/ transition(m.task, m.attempt, m.from, m.to)
    BY <1>5 DEF FinishWrite
  <2>2. QED
    BY <1>5, <2>1, PlannedWrite DEF FinishWrite
<1>6. CASE ReapDone
  BY <1>6 DEF ReapDone, ReapCovers, Owns, TaskOf, AttemptOf, rowVars
<1>7. CASE CancelRead \/ InterruptRead
  <2>1. PICK c \in todo : fenced' = fenced \/ (~Owns(c) /\ fenced' = fenced \cup {c})
    BY <1>7 DEF CancelRead, InterruptRead
  <2>2. UNCHANGED <<rowVars, pc, active>>
    BY <1>7 DEF CancelRead, InterruptRead
  <2>3. QED
    BY <2>1, <2>2 DEF Owns, TaskOf, AttemptOf, rowVars
<1>8. CASE FencingWrite
  <2>1. PICK m \in plan : /\ transition(m.task, m.attempt, m.from, m.to)
                          /\ fenced' = fenced \cup {<<m.task, m.attempt>>}
    BY <1>8 DEF FencingWrite
  <2>2. QED
    BY <1>8, <2>1, PlannedWrite DEF FencingWrite
<1>9. ASSUME NEW t \in Tasks, ClaimAndSpawn(t) \/ ClaimUnknown(t)
      PROVE  RunningIsOwned'
  <2>1. /\ pc = "claim" /\ UNCHANGED fenced
        /\ active' = active \cup {<<t, attempt[t] + 1>>}
        /\ attempt' = [attempt EXCEPT ![t] = @ + 1]
        /\ state' = [state EXCEPT ![t] = "running"]
    BY <1>9 DEF ClaimAndSpawn, ClaimUnknown, claim_next
  <2>2. QED
    BY <2>1, FreshClaim DEF TypeOK, RowTypeOK
<1>10. CASE UNCHANGED vars
  BY <1>10 DEF vars, threadVars, rowVars
<1>11. QED
  BY <1>1, <1>2, <1>3, <1>4, <1>5, <1>6, <1>7, <1>8, <1>9, <1>10
  DEF Outside, Next, Scheduler, Environment, Start, RecoverDone, RecoverStale,
      BeginInterrupt, BeginTick, FinishRead, CancelDone, ClaimDone, InterruptDone,
      InterruptStale, TickFails, StorageFault, RequestShutdown, Crash, Ticking,
      Recovering, rowVars

\* A finished entry is never dropped with its row still running.
LEMMA ReapCoversStep ==
  ASSUME OwnershipInv, [Next]_vars
  PROVE  ReapCovers'
<1> USE DEF OwnershipInv, ReapCovers
<1>1. ASSUME RowsQuiet, NEW c \in Claims, ~Owns(c)
      PROVE  ~Owns(c)'
  BY <1>1, ClaimType DEF RowsQuiet, Owns, TaskOf, AttemptOf, TypeOK
<1>2. CASE Outside
  BY <1>1, <1>2, OutsideStep DEF threadVars, TypeOK
<1>3. CASE BeginTick
  BY <1>3 DEF BeginTick, Answered, Live
<1>4. CASE FinishRead
  BY <1>4 DEF FinishRead, Live, Owns, rowVars
<1>5. CASE FinishWrite
  <2>1. PICK m \in plan : /\ \/ schedule_retry(m.task, m.attempt)
                             \/ transition(m.task, m.attempt, m.from, m.to)
                          /\ todo' = todo \ {<<m.task, m.attempt>>}
    BY <1>5 DEF FinishWrite
  <2>2. ~Owns(<<m.task, m.attempt>>)'
    BY <2>1, PlannedWrite DEF Owns, TaskOf
  <2>3. RowsQuiet
    BY <2>1, PlannedWrite, RowOperations, QuietStep DEF RowsStep
  <2>4. QED
    BY <1>1, <1>5, <2>1, <2>2, <2>3 DEF FinishWrite, Live, TypeOK
<1>6. ASSUME NEW t \in Tasks, ClaimUnknown(t)
      PROVE  ReapCovers'
  <2> DEFINE new == <<t, attempt[t] + 1>>
  <2>1. new \in Claims
    BY <1>6, ClaimIsClaim DEF ClaimUnknown
  <2>2. /\ worker' = [worker EXCEPT ![new] = "permanent"]
        /\ finished' = Answered \cup {new}
        /\ todo' = (Answered \cup {new}) \ fenced
        /\ fenced' = fenced
    BY <1>6 DEF ClaimUnknown
  <2>3. QED
    BY <2>1, <2>2 DEF Answered, Live, TypeOK
<1>7. CASE UNCHANGED vars
  BY <1>7 DEF vars, threadVars, rowVars, Owns, Live
<1>8. CASE RequestShutdown
  BY <1>8 DEF RequestShutdown, rowVars, Owns, Live
<1>9. QED
  BY <1>2, <1>3, <1>4, <1>5, <1>6, <1>7, <1>8
  DEF Outside, Next, Scheduler, Environment, Start, RecoverWrite,
      RecoverListInterrupted, RecoverDone, RecoverStale, ThreadStops, BeginInterrupt,
      ReapDone, CancelRead, FencingWrite, CancelDone, ClaimAndSpawn, ClaimDone,
      InterruptRead, InterruptDone, InterruptStale, TickFails, StorageFault, Crash,
      Recovering

\* No worker or user can invalidate what finish or cancel_active decided.
LEMMA PlanStep ==
  ASSUME OwnershipInv, [Next]_vars
  PROVE  PlanSources' /\ PlannedWritesFresh'
<1> USE DEF OwnershipInv, PlanSources, PlannedWritesFresh
<1>1. CASE Outside
  <2>1. ASSUME pc = "reap", NEW m \in plan
        PROVE  state'[m.task] = "running" /\ attempt'[m.task] = m.attempt
    <3>1. m.task \in Tasks /\ <<m.task, m.attempt>> \in finished
      BY <2>1, MovesType DEF ReapCovers, TypeOK
    <3>2. ~Live(<<m.task, attempt[m.task]>>)
      BY <2>1, <3>1 DEF ReapCovers
    <3>3. QED
      BY <1>1, <2>1, <3>1, <3>2, OutsideStep DEF RowsQuiet
  <2>2. ASSUME pc = "cancel", NEW m \in plan
        PROVE  /\ state'[m.task] = "running" /\ attempt'[m.task] = m.attempt
               /\ cancel_requested'[m.task]
    <3>1. m.task \in Tasks
      BY MovesType DEF TypeOK
    <3>2. QED
      BY <1>1, <2>2, <3>1, OutsideStep DEF RowsQuiet
  <2>3. UNCHANGED threadVars
    BY <1>1, OutsideStep
  <2>4. QED
    BY <2>1, <2>2, <2>3 DEF threadVars
<1>2. CASE FinishRead
  <2>1. PICK c \in todo :
          \/ /\ Owns(c) /\ UNCHANGED todo
             /\ plan' = {Move(TaskOf(c), "running", FinishTarget(c))}
          \/ UNCHANGED plan
    BY <1>2 DEF FinishRead
  <2>2. c = <<TaskOf(c), AttemptOf(c)>>
    BY DEF TypeOK, Claims, TaskOf, AttemptOf
  <2>3. QED
    BY <1>2, <2>1, <2>2 DEF FinishRead, Move, Owns, rowVars
<1>3. CASE CancelRead
  <2>1. PICK c \in todo :
          \/ /\ Owns(c) /\ cancel_requested[TaskOf(c)]
             /\ plan' = {Move(TaskOf(c), "running", "cancelled")}
          \/ UNCHANGED plan
    BY <1>3 DEF CancelRead
  <2>2. QED
    BY <1>3, <2>1 DEF CancelRead, Move, Owns, rowVars
<1>4. CASE UNCHANGED vars \/ RequestShutdown
  BY <1>4 DEF vars, threadVars, rowVars, RequestShutdown
<1>5. QED
  BY <1>1, <1>2, <1>3, <1>4
  DEF Outside, Next, Scheduler, Environment, Start, RecoverWrite,
      RecoverListInterrupted, RecoverDone, RecoverStale, ThreadStops, BeginInterrupt,
      BeginTick, FinishWrite, ReapDone, FencingWrite, CancelDone, ClaimAndSpawn,
      ClaimUnknown, ClaimDone, InterruptRead, InterruptDone, InterruptStale,
      TickFails, StorageFault, Crash, Recovering, Ticking, ThreadUp

\* The inductive invariant behind ownership and fencing.
THEOREM OwnershipInvariant == Spec => []OwnershipInv
<1>1. Init => OwnershipInv
  <2> SUFFICES ASSUME Init PROVE OwnershipInv
    OBVIOUS
  <2>1. TypeOK
    BY TypeInit
  <2>2. TokensIssued
    BY DEF Init, TokensIssued, Live
  <2>3. QED
    BY <2>1, <2>2
    DEF Init, OwnershipInv, RecoveryCovers, ReapCovers, PlanSources,
        PlannedWritesFresh, RunningIsOwned, ThreadUp
<1>2. ASSUME OwnershipInv, [Next]_vars
      PROVE  OwnershipInv'
  <2>1. TypeOK'
    BY <1>2, TypeStep DEF OwnershipInv
  <2>2. TokensIssued'
    BY <1>2, TokensIssuedStep DEF OwnershipInv
  <2>3. RecoveryCovers'
    BY <1>2, RecoveryCoversStep DEF OwnershipInv
  <2>4. ReapCovers'
    BY <1>2, ReapCoversStep
  <2>5. PlanSources' /\ PlannedWritesFresh'
    BY <1>2, PlanStep
  <2>6. RunningIsOwned'
    BY <1>2, RunningIsOwnedStep
  <2>7. QED
    BY <2>1, <2>2, <2>3, <2>4, <2>5, <2>6 DEF OwnershipInv
<1>3. QED
  BY <1>1, <1>2, PTL DEF Spec

\* Every running row belongs to an unfenced entry of the active list while
\* the thread is up, and none is running once it has stopped.
THEOREM RunningOwned == Spec => []RunningIsOwned
<1>1. OwnershipInv => RunningIsOwned
  BY DEF OwnershipInv
<1>2. QED
  BY <1>1, OwnershipInvariant, PTL

\* The writes finish and cancel_active planned are still allowed when they are
\* made: no tick fails by losing a race.
THEOREM PlansStayFresh == Spec => []PlannedWritesFresh
<1>1. OwnershipInv => PlannedWritesFresh
  BY DEF OwnershipInv
<1>2. QED
  BY <1>1, OwnershipInvariant, PTL

\* A worker that lost its row never regains it: attempt is a fencing token.
THEOREM LostClaimsStayLost == Spec => LostClaimStaysLost
<1>1. ASSUME OwnershipInv, [Next]_vars, NEW c \in Claims,
             Live(c), Live(c)', ~CanWrite(c)
      PROVE  ~CanWrite(c)'
  <2> USE <1>1 DEF CanWrite, CheckpointOk
  <2>1. TaskOf(c) \in Tasks /\ AttemptOf(c) \in Nat
    BY ClaimType, MaxClaimsAssumption
  <2>2. CASE RowsStep
    BY <2>1, <2>2, QuietStep DEF RowsQuiet, OwnershipInv, TaskOf, AttemptOf
  <2>3. CASE ClaimStep
    <3>1. PICK t \in Tasks : Lifecycle!Claim(t)
      BY <2>3, ClaimStepRows DEF OwnershipInv
    <3>2. AttemptOf(c) <= attempt[TaskOf(c)]
      BY DEF OwnershipInv, TokensIssued
    <3>3. attempt[TaskOf(c)] \in Nat
      BY <2>1, MaxClaimsAssumption DEF OwnershipInv, TypeOK, RowTypeOK, Attempts
    <3>4. QED
      BY <2>1, <3>1, <3>2, <3>3
      DEF Lifecycle!Claim, OwnershipInv, TypeOK, RowTypeOK, TaskOf, AttemptOf
  <2>4. QED
    BY <2>2, <2>3, StepRows DEF OwnershipInv
<1>2. ASSUME OwnershipInv, [Next]_vars
      PROVE  \A c \in Claims : Live(c) /\ Live(c)' /\ ~CanWrite(c) => ~CanWrite(c)'
  BY <1>1, <1>2
<1>3. QED
  BY <1>2, OwnershipInvariant, PTL DEF Spec, LostClaimStaysLost

-----------------------------------------------------------------------------
(***************************************************************************)
(* Cancellation.                                                           *)
(***************************************************************************)

\* What a step from outside does to the cancellation flag: it never sets it on
\* an interrupted row nor makes a row interrupted, and a row whose recorded
\* cancellation disappears is one the user retried.
LEMMA OutsideCancels ==
  ASSUME TypeOK, CancelRecorded, Outside
  PROVE  /\ CancelRecorded'
         /\ \A t \in Tasks : state'[t] = "interrupted" =>
              state[t] = "interrupted" /\ cancel_requested'[t] = cancel_requested[t]
<1> USE DEF CancelRecorded, TypeOK, RowTypeOK
<1>1. CASE Worker
  <2>1. PICK c \in Claims :
          \/ \E s \in {"none", "later"} : WorkerCheckpoint(c, s)
          \/ WorkerActivate(c)
          \/ \E o \in Outcomes : WorkerReturn(c, o)
    BY <1>1 DEF Worker
  <2>2. CASE WorkerActivate(c)
    BY <2>2, ClaimType DEF WorkerActivate, activate, ActivateOk
  <2>3. QED
    BY <2>1, <2>2 DEF WorkerCheckpoint, checkpoint, WorkerReturn, rowVars
<1>2. CASE UserWrite
  <2>1. cmd.task \in Tasks
    BY <1>2, CmdsType DEF UserWrite
  <2>2. CASE cmd.op = "retry"
    BY <1>2, <2>1, <2>2 DEF UserWrite, retry_manually
  <2>3. CASE cmd.op = "cancel" /\ cmd.from = "running"
    BY <1>2, <2>1, <2>3 DEF UserWrite, request_running_cancellation, RunningCancellationOk
  <2>4. CASE cmd.op = "cancel" /\ cmd.from # "running"
    BY <1>2, <2>1, <2>4 DEF UserWrite, transition
  <2>5. QED
    BY <1>2, <2>2, <2>3, <2>4 DEF UserWrite
<1>3. ASSUME NEW t \in Tasks, NEW s, Create(t, s)
      PROVE  /\ CancelRecorded'
             /\ \A u \in Tasks : state'[u] = "interrupted" =>
                  state[u] = "interrupted" /\ cancel_requested'[u] = cancel_requested[u]
  BY <1>3 DEF Create, create
<1>4. QED
  BY <1>1, <1>2, <1>3 DEF Outside, UserRead, TimePasses, ScheduleReached, UserStale, rowVars

\* The flag is cleared only by a requeue, and a planned write requeues only an
\* interrupted row whose flag is not set.
LEMMA CancelRecordedStep ==
  ASSUME CancelInv, [Next]_vars
  PROVE  CancelRecorded'
<1> USE DEF CancelInv, OwnershipInv
<1>1. CASE Outside
  BY <1>1, OutsideCancels
<1>2. CASE RecoverWrite \/ FencingWrite
  <2>1. PICK m \in plan : transition(m.task, m.attempt, m.from, m.to)
    BY <1>2 DEF RecoverWrite, FencingWrite
  <2>2. /\ m.from \in {"running", "interrupted"}
        /\ m.to = "queued" => m.from = "interrupted" /\ ~cancel_requested[m.task]
    BY <1>2, <2>1
    DEF RecoverWrite, FencingWrite, Recovering, PlanTargets, transition, TransitionOk
  <2>3. UNCHANGED wanted
    BY <1>2 DEF RecoverWrite, FencingWrite
  <2>4. m.task \in Tasks
    BY MovesType DEF TypeOK
  <2>5. QED
    BY <2>1, <2>2, <2>3, <2>4
    DEF transition, TransitionOk, CancelRecorded, TypeOK, RowTypeOK
<1>3. CASE FinishWrite
  <2>1. PICK m \in plan :
          \/ schedule_retry(m.task, m.attempt)
          \/ m.to # "queued" /\ transition(m.task, m.attempt, m.from, m.to)
    BY <1>3 DEF FinishWrite
  <2>2. UNCHANGED wanted /\ state[m.task] = "running"
    BY <1>3 DEF FinishWrite, PlannedWritesFresh
  <2>3. m.task \in Tasks
    BY MovesType DEF TypeOK
  <2>4. QED
    BY <2>1, <2>2, <2>3
    DEF schedule_retry, transition, CancelRecorded, TypeOK, RowTypeOK
<1>4. CASE ClaimStep
  BY <1>4 DEF ClaimStep, ClaimAndSpawn, ClaimUnknown, claim_next, Candidates,
              Claimable, CancelRecorded, TypeOK, RowTypeOK
<1>5. CASE UNCHANGED vars
  BY <1>5 DEF vars, rowVars, CancelRecorded
<1>6. QED
  BY <1>1, <1>2, <1>3, <1>4, <1>5
  DEF CancelRecorded, Outside, Next, Scheduler, Environment, ClaimStep, Start,
      RecoverListInterrupted, RecoverDone, RecoverStale, ThreadStops, BeginInterrupt,
      BeginTick, FinishRead, ReapDone, CancelRead, CancelDone, ClaimDone,
      InterruptRead, InterruptDone, InterruptStale, TickFails, StorageFault,
      RequestShutdown, Crash, rowVars

\* The plans of recover_interrupted stay harmless while rows change under them.
LEMMA PlanTargetsStep ==
  ASSUME CancelInv, [Next]_vars
  PROVE  PlanTargets'
<1> USE DEF CancelInv, OwnershipInv, PlanTargets
<1>1. CASE Outside
  <2>1. ASSUME NEW m \in plan
        PROVE  m.task \in Tasks
    BY <2>1, MovesType DEF TypeOK
  <2>2. QED
    BY <1>1, <2>1, OutsideStep, OutsideCancels DEF threadVars
<1>2. CASE Start
  BY <1>2 DEF Start, RecoverRunningPlan, Move
<1>3. CASE RecoverListInterrupted
  <2>1. \A m \in RecoverInterruptedPlan :
          /\ m.from = "interrupted" /\ m.to \in {"queued", "cancelled"}
          /\ m.to = "queued" => ~cancel_requested[m.task]
    BY DEF RecoverInterruptedPlan, Move
  <2>2. QED
    BY <1>3, <2>1 DEF RecoverListInterrupted, rowVars
<1>4. CASE RecoverWrite
  <2>1. PICK m \in plan : /\ transition(m.task, m.attempt, m.from, m.to)
                          /\ plan' = plan \ {m}
    BY <1>4 DEF RecoverWrite
  <2>2. CASE pc = "recover_running"
    BY <1>4, <2>1, <2>2 DEF RecoverWrite
  <2>3. CASE pc = "recover_interrupted"
    <3>1. m.task \in Tasks /\ m.to # "interrupted"
      BY <2>3, MovesType DEF TypeOK
    <3>2. \A t \in Tasks : state'[t] = "interrupted" =>
            state[t] = "interrupted" /\ cancel_requested'[t] = cancel_requested[t]
      BY <2>1, <3>1 DEF transition, TypeOK, RowTypeOK
    <3>3. \A n \in plan : n.task \in Tasks
      BY MovesType DEF TypeOK
    <3>4. QED
      BY <1>4, <2>1, <2>3, <3>2, <3>3 DEF RecoverWrite
  <2>4. QED
    BY <1>4, <2>2, <2>3 DEF RecoverWrite, Recovering
<1>5. CASE CancelRead
  BY <1>5 DEF CancelRead, Move
<1>6. CASE InterruptRead
  BY <1>6 DEF InterruptRead, Move
<1>7. CASE UNCHANGED vars
  BY <1>7 DEF vars, threadVars, rowVars
<1>8. CASE FencingWrite \/ TickFails \/ StorageFault
  BY <1>8 DEF FencingWrite, TickFails, StorageFault, Recovering
<1>9. CASE ReapDone \/ BeginInterrupt
  BY <1>9 DEF ReapDone, BeginInterrupt, PlanSources
<1>10. QED
  BY <1>1, <1>2, <1>3, <1>4, <1>5, <1>6, <1>7, <1>8, <1>9
  DEF Outside, Next, Scheduler, Environment, RecoverDone, RecoverStale,
      ThreadStops, BeginTick, FinishRead, FinishWrite, CancelDone,
      ClaimAndSpawn, ClaimUnknown, ClaimDone, InterruptDone, InterruptStale,
      RequestShutdown, Crash, ThreadUp, rowVars

\* The inductive invariant behind cancellation.
THEOREM CancelInvariant == Spec => []CancelInv
<1>1. Init => PlanTargets /\ CancelRecorded
  BY DEF Init, PlanTargets, CancelRecorded
<1>2. ASSUME CancelInv, OwnershipInv', [Next]_vars
      PROVE  CancelInv'
  BY <1>2, PlanTargetsStep, CancelRecordedStep DEF CancelInv
<1>3. QED
  BY <1>1, <1>2, OwnershipInvariant, PTL DEF Spec, CancelInv

\* Once a cancellation has been accepted, no claim runs the task again until
\* the user retries it.
THEOREM CancelledNeverRerun == Spec => CancelNeverRerun
<1>1. ASSUME CancelInv, [Next]_vars
      PROVE  \A t \in Tasks : wanted[t] => attempt'[t] = attempt[t]
  <2>1. CASE RowsStep
    BY <1>1, <2>1, QuietStep DEF RowsQuiet, CancelInv, OwnershipInv
  <2>2. CASE ClaimStep
    BY <1>1, <2>2, ClaimStepRows
    DEF Lifecycle!Claim, CancelInv, OwnershipInv, CancelRecorded, TypeOK, RowTypeOK
  <2>3. QED
    BY <1>1, <2>1, <2>2, StepRows DEF CancelInv, OwnershipInv
<1>2. QED
  BY <1>1, CancelInvariant, PTL DEF Spec, CancelNeverRerun

-----------------------------------------------------------------------------
(***************************************************************************)
(* The worker limit.                                                       *)
(***************************************************************************)

\* Removing entries never lengthens the active list, adding one does by one.
LEMMA ActiveLength ==
  ASSUME TypeOK
  PROVE  /\ \A S : S \subseteq active => Cardinality(S) \in Nat /\ Cardinality(S) <= Cardinality(active)
         /\ \A c : Cardinality(active \cup {c}) <= Cardinality(active) + 1
         /\ Cardinality({}) = 0
<1>1. IsFiniteSet(active) /\ Cardinality(active) \in Nat
  BY ClaimsFinite DEF TypeOK
<1>2. ASSUME NEW S, S \subseteq active
      PROVE  Cardinality(S) \in Nat /\ Cardinality(S) <= Cardinality(active)
  BY <1>1, <1>2, FS_Subset, FS_CardinalityType
<1>3. ASSUME NEW c
      PROVE  Cardinality(active \cup {c}) <= Cardinality(active) + 1
  BY <1>1, FS_AddElement
<1>4. QED
  BY <1>2, <1>3, FS_EmptySet

\* The active list never outgrows max_workers, so the unsigned subtraction in
\* tick cannot wrap.
THEOREM WorkersLimited == Spec => []WorkerLimit
<1>1. Init => WorkerLimit
  BY FS_EmptySet, SchedulerAssumption DEF Init, WorkerLimit
<1>2. ASSUME TypeOK, TypeOK', WorkerLimit, [Next]_vars
      PROVE  WorkerLimit'
  <2> USE <1>2, SchedulerAssumption DEF WorkerLimit
  <2>1. Cardinality(active) \in Nat /\ Cardinality(active') \in Nat
    BY ClaimsFinite DEF TypeOK
  <2>2. slots \in Int
    BY DEF TypeOK
  <2>3. CASE ThreadStops \/ Crash
    BY <2>3, ActiveLength DEF ThreadStops, Crash
  <2>4. CASE ReapDone
    <3>1. Cardinality(active') <= Cardinality(active)
      BY <2>4, ActiveLength DEF ReapDone
    <3>2. QED
      BY <2>1, <2>2, <2>4, <3>1 DEF ReapDone
  <2>5. CASE CancelDone
    BY <2>1, <2>5 DEF CancelDone
  <2>6. ASSUME NEW t \in Tasks, ClaimAndSpawn(t) \/ ClaimUnknown(t)
        PROVE  WorkerLimit'
    <3>1. pc = "claim" /\ slots > 0 /\ slots' = slots - 1
      BY <2>6 DEF ClaimAndSpawn, ClaimUnknown
    <3>2. Cardinality(active') <= Cardinality(active) + 1
      BY <2>6, ActiveLength DEF ClaimAndSpawn, ClaimUnknown
    <3>3. QED
      BY <2>1, <2>2, <3>1, <3>2
  <2>7. CASE Outside
    BY <2>7, OutsideStep DEF threadVars
  <2>8. CASE UNCHANGED vars
    BY <2>8 DEF vars, threadVars
  <2>9. QED
    BY <2>3, <2>4, <2>5, <2>6, <2>7, <2>8
    DEF Outside, Next, Scheduler, Environment, Start, RecoverWrite,
        RecoverListInterrupted, RecoverDone, RecoverStale, BeginInterrupt, BeginTick,
        FinishRead, FinishWrite, CancelRead, FencingWrite, ClaimDone, InterruptRead,
        InterruptDone, InterruptStale, TickFails, StorageFault, RequestShutdown,
        Recovering, ThreadUp
<1>3. QED
  BY <1>1, <1>2, TypeCorrect, PTL DEF Spec

=============================================================================
