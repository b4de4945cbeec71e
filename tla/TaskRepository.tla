--------------------------- MODULE TaskRepository ---------------------------
(***************************************************************************)
(* The background_tasks table of one workspace and the operations of       *)
(* src-tauri/src/tasks/repository.rs on it, plus the one statement of      *)
(* storage/repositories/knowledge/activation.rs that completes a task.     *)
(*                                                                         *)
(* Every operation is one SQLite transaction, hence one atomic action, and *)
(* names its precondition (the WHERE clause or the checks made inside the  *)
(* transaction) as an operator ending in Ok.  When the precondition fails  *)
(* the code returns stale_claim, illegal_transition or claim_required and  *)
(* leaves the row alone.                                                   *)
(*                                                                         *)
(* Left out: payload, checkpoint contents, progress, error code and time   *)
(* stamps.  A schedule is abstracted to whether it is absent ("none"),     *)
(* still ahead ("later") or reached ("due").                               *)
(***************************************************************************)
EXTENDS Integers

CONSTANTS
  Tasks,       \* task identifiers of the workspace
  MaxClaims    \* bound on the claims of one task (attempt is a u32 in the code)

ASSUME MaxClaimsAssumption == MaxClaims \in Nat \ {0}

VARIABLES
  state,             \* background_tasks.state; "absent" before the INSERT
  attempt,           \* background_tasks.attempt, the fencing token of a claim
  cancel_requested,  \* background_tasks.cancel_requested
  next_run_at        \* background_tasks.next_run_at

rowVars == <<state, attempt, cancel_requested, next_run_at>>

TaskState ==
  {"queued", "running", "waiting_external", "paused",
   "completed", "failed", "cancelled", "interrupted"}

Schedule == {"none", "later", "due"}

Attempts == 0..MaxClaims

RowTypeOK ==
  /\ state \in [Tasks -> TaskState \cup {"absent"}]
  /\ attempt \in [Tasks -> Attempts]
  /\ cancel_requested \in [Tasks -> BOOLEAN]
  /\ next_run_at \in [Tasks -> Schedule]

NoRows ==
  /\ state = [t \in Tasks |-> "absent"]
  /\ attempt = [t \in Tasks |-> 0]
  /\ cancel_requested = [t \in Tasks |-> FALSE]
  /\ next_run_at = [t \in Tasks |-> "none"]

(***************************************************************************)
(* The transition table of TaskState::can_transition_to.                   *)
(***************************************************************************)
can_transition_to(from, to) ==
  \/ from = "queued" /\ to \in {"running", "paused", "cancelled"}
  \/ from = "running" /\ to \in {"waiting_external", "paused", "completed",
                                 "failed", "cancelled", "interrupted"}
  \/ from = "waiting_external" /\ to \in {"running", "paused", "completed",
                                          "failed", "cancelled", "interrupted"}
  \/ from \in {"paused", "interrupted"} /\ to \in {"queued", "cancelled"}
  \/ from \in {"failed", "cancelled"} /\ to = "queued"

-----------------------------------------------------------------------------
create(t, schedule) ==
  /\ state[t] = "absent"
  /\ state' = [state EXCEPT ![t] = "queued"]
  /\ next_run_at' = [next_run_at EXCEPT ![t] = schedule]
  /\ UNCHANGED <<attempt, cancel_requested>>

CheckpointOk(t, a) ==
  /\ attempt[t] = a
  /\ state[t] \in {"running", "waiting_external"}

checkpoint(t, a, schedule) ==
  /\ CheckpointOk(t, a)
  /\ next_run_at' = [next_run_at EXCEPT ![t] = schedule]
  /\ UNCHANGED <<state, attempt, cancel_requested>>

ScheduleRetryOk(t, a) ==
  /\ attempt[t] = a
  /\ state[t] = "running"

\* One UPDATE: a cancellation already committed wins over the retry.
schedule_retry(t, a) ==
  /\ ScheduleRetryOk(t, a)
  /\ state' = [state EXCEPT ![t] =
                 IF cancel_requested[t] THEN "cancelled" ELSE "queued"]
  /\ next_run_at' = [next_run_at EXCEPT ![t] = "later"]
  /\ UNCHANGED <<attempt, cancel_requested>>

TransitionOk(t, a, from, to) ==
  /\ attempt[t] = a
  /\ state[t] = from
  /\ ~(from \in {"queued", "waiting_external"} /\ to = "running")
  /\ can_transition_to(from, to)

transition(t, a, from, to) ==
  /\ TransitionOk(t, a, from, to)
  /\ state' = [state EXCEPT ![t] = to]
  /\ next_run_at' = [next_run_at EXCEPT ![t] =
                       IF to = "completed" THEN "none" ELSE @]
  /\ cancel_requested' = [cancel_requested EXCEPT ![t] = @ /\ to # "queued"]
  /\ UNCHANGED attempt

RunningCancellationOk(t, a) ==
  /\ attempt[t] = a
  /\ state[t] = "running"

request_running_cancellation(t, a) ==
  /\ RunningCancellationOk(t, a)
  /\ cancel_requested' = [cancel_requested EXCEPT ![t] = TRUE]
  /\ UNCHANGED <<state, attempt, next_run_at>>

Retryable == {"failed", "cancelled", "interrupted", "paused"}

RetryManuallyOk(t, a, from) ==
  /\ from \in Retryable
  /\ attempt[t] = a
  /\ state[t] = from

\* Mutant: a manual retry starts counting attempts from zero.
RetryResetsAttempt(t, a, from) ==
  /\ RetryManuallyOk(t, a, from)
  /\ state' = [state EXCEPT ![t] = "queued"]
  /\ attempt' = [attempt EXCEPT ![t] = 0]
  /\ next_run_at' = [next_run_at EXCEPT ![t] = "none"]
  /\ cancel_requested' = [cancel_requested EXCEPT ![t] = FALSE]

\* The attempt is kept: a manual retry continues the same attempt count.
retry_manually(t, a, from) ==
  /\ RetryManuallyOk(t, a, from)
  /\ state' = [state EXCEPT ![t] = "queued"]
  /\ next_run_at' = [next_run_at EXCEPT ![t] = "none"]
  /\ cancel_requested' = [cancel_requested EXCEPT ![t] = FALSE]
  /\ UNCHANGED attempt

\* Mutant: a poll of a waiting row ignores the cancellation flag.
ClaimableUnchecked(t) ==
  /\ state[t] \in {"queued", "waiting_external"}
  /\ next_run_at[t] # "later"
  /\ attempt[t] < MaxClaims

\* Rows claim_next selects from; attempt < MaxClaims is the model's bound.
Claimable(t) ==
  /\ state[t] \in {"queued", "waiting_external"}
  /\ ~cancel_requested[t]
  /\ next_run_at[t] # "later"
  /\ attempt[t] < MaxClaims

\* ORDER BY next_run_at IS NOT NULL: unscheduled rows come first.  The order
\* among rows of one class (due time, creation time, id) is left open.
Candidates ==
  LET unscheduled == {t \in Tasks : Claimable(t) /\ next_run_at[t] = "none"}
  IN  IF unscheduled # {} THEN unscheduled ELSE {t \in Tasks : Claimable(t)}

\* Mutant: a poll keeps the attempt, only a claim from queued counts.
ClaimKeepsAttempt(t) ==
  /\ t \in Candidates
  /\ state' = [state EXCEPT ![t] = "running"]
  /\ attempt' = [attempt EXCEPT ![t] = IF state[t] = "queued" THEN @ + 1 ELSE @]
  /\ UNCHANGED <<cancel_requested, next_run_at>>

claim_next(t) ==
  /\ t \in Candidates
  /\ state' = [state EXCEPT ![t] = "running"]
  /\ attempt' = [attempt EXCEPT ![t] = @ + 1]
  /\ UNCHANGED <<cancel_requested, next_run_at>>

\* Mutant: activation does not look at the cancellation flag.
ActivateUnchecked(t, a) ==
  /\ state[t] = "running"
  /\ attempt[t] = a

ActivateOk(t, a) ==
  /\ state[t] = "running"
  /\ attempt[t] = a
  /\ ~cancel_requested[t]

\* The task part of activate(): in the transaction that switches the active
\* document version, the claim holder completes its own row.
activate(t, a) ==
  /\ ActivateOk(t, a)
  /\ state' = [state EXCEPT ![t] = "completed"]
  /\ next_run_at' = [next_run_at EXCEPT ![t] = "none"]
  /\ cancel_requested' = [cancel_requested EXCEPT ![t] = FALSE]
  /\ UNCHANGED attempt

\* The clock reaches a row's next_run_at.
ScheduleReached(t) ==
  /\ next_run_at[t] = "later"
  /\ next_run_at' = [next_run_at EXCEPT ![t] = "due"]
  /\ UNCHANGED <<state, attempt, cancel_requested>>
=============================================================================
