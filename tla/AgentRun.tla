------------------------------- MODULE AgentRun -----------------------------
(***************************************************************************)
(* One Agent run: the loop of src-tauri/src/agent/loop_run.rs with its     *)
(* persisted state machine, checkpoints, tool calls, permissions and       *)
(* background results, and its recovery after a restart or at the user's   *)
(* request (agent/runtime/recovery.rs, app/desktop_agent_runtime.rs).      *)
(*                                                                         *)
(* Every step between two steps of a loop is one transaction or one change *)
(* of the memory shared with the commands.  Texts are left out: a message  *)
(* list is the set of tool calls and background results it shows.  The     *)
(* context budget is assumed to keep them.                                 *)
(***************************************************************************)
EXTENDS Naturals

CONSTANTS
  AgentTools,       \* tools offered to the model
  Automatic,        \* tools that run without permission
  Idempotent,       \* tools that may run again
  ParallelRead,     \* tools whose neighbours run together
  Detached,         \* tools that start a background task
  ArMaxCalls,       \* tool calls of the run
  MaxModelCalls,    \* limits.max_model_calls
  MaxRecoveries,    \* limits.max_recovery_attempts
  ArMaxCrashes,     \* crashes of the process
  MaxResults,       \* states the background task goes through
  ArMaxCommands     \* cancellations, deadlines, recoveries by the user, steering messages

ASSUME AgentToolsAssumption ==
  /\ Automatic \cup Idempotent \cup ParallelRead \cup Detached \subseteq AgentTools
  /\ "none" \notin AgentTools  \* it marks a call that was not made yet

VARIABLES
  run_state,  \* agent_runs.state
  context,    \* the context checkpoint
  call,       \* tool call -> its events
  effects,    \* tool call -> how often it was executed
  answered,   \* MessageCompleted is recorded
  lease,      \* the loop whose RecoveryStarted event is open
  bgTask,     \* the background task and its delivery row
  loop,       \* loop instance -> its local state
  host,       \* memory of the process
  arUsed      \* crashes and commands so far

arVars == <<run_state, context, call, effects, answered, lease, bgTask, loop, host, arUsed>>
stored == <<context, call, effects, answered, bgTask>>

Loops == {1, 2}
Calls == 1..ArMaxCalls
RunTerminal == {"completed", "cancelled", "failed", "interrupted"}
BgTerminal == {"completed", "paused"}

NoLease == 0
Orphaned == 3  \* the process or command that took the lease is gone
NoWait == [c |-> 0, decision |-> "none"]
NoLoop == [at |-> "none", machine |-> "created", resumed |-> FALSE, natural |-> FALSE,
           attempt |-> 0, asks |-> 0, known |-> {}, heard |-> {}, todo |-> {},
           replayed |-> FALSE, said |-> NoWait, allow |-> {}, deny |-> {}, ran |-> {}]
Unasked == [tool |-> "none", asked |-> FALSE, done |-> FALSE, permission |-> "none"]

ArInit ==
  /\ run_state = "created"
  /\ context = [reason |-> "none", known |-> {}, heard |-> {}, attempt |-> 0, asks |-> 0]
  /\ call = [c \in Calls |-> Unasked]
  /\ effects = [c \in Calls |-> 0]
  /\ answered = FALSE
  /\ lease = NoLease
  /\ bgTask = [state |-> "none", version |-> 0, delivered |-> 0]
  /\ loop = [l \in Loops |-> IF l = 1 THEN [NoLoop EXCEPT !.at = "begin"] ELSE NoLoop]
  /\ host = [up |-> TRUE, active |-> 0, stop |-> "none", queue |-> FALSE,
             wait |-> NoWait, remembered |-> {}]
  /\ arUsed = [crashes |-> 0, commands |-> 0]

ArCommand == /\ arUsed.commands < ArMaxCommands
             /\ arUsed' = [arUsed EXCEPT !.commands = @ + 1]

LoopAt(l, step) == loop[l].at = step
GoTo(l, step) == loop' = [loop EXCEPT ![l].at = step]
Stopping == host.stop # "none"

(***************************************************************************)
(* Transitions: memory first, then a compare-and-set on the row            *)
(***************************************************************************)

legal_edge(from, to) ==
  \/ <<from, to>> \in {<<"created", "preparing">>, <<"preparing", "generating">>,
                       <<"generating", "awaiting_permission">>,
                       <<"generating", "executing_tools">>, <<"generating", "verifying">>,
                       <<"awaiting_permission", "generating">>,
                       <<"awaiting_permission", "executing_tools">>,
                       <<"executing_tools", "generating">>, <<"executing_tools", "verifying">>,
                       <<"verifying", "generating">>, <<"verifying", "completing">>,
                       <<"completing", "completed">>}
  \/ from \notin RunTerminal /\ to \in RunTerminal \ {"completed"}

\* change_state, transition and finish: an illegal edge or another state in the row
\* is an error that leaves the loop without writing anything.
change_state(l, to, step) ==
  IF legal_edge(loop[l].machine, to) /\ run_state = loop[l].machine
  THEN /\ run_state' = to
       /\ loop' = [loop EXCEPT ![l].at = step, ![l].machine = to]
  ELSE UNCHANGED run_state /\ GoTo(l, "failing")

fail(l) ==
  /\ run_state' = IF run_state = loop[l].machine THEN "failed" ELSE run_state
  /\ GoTo(l, "failing")

cancel_or_timeout(l) ==
  IF host.stop = "deadline" THEN fail(l) ELSE change_state(l, "cancelled", "done")

(***************************************************************************)
(* Checkpoints and background results                                      *)
(***************************************************************************)

\* Mutant: every finished task is acknowledged, whether or not it was read.
ReceivedAll(heard) ==
  IF bgTask.state \in BgTerminal /\ run_state \notin RunTerminal THEN {bgTask.version} ELSE {}

\* The results a checkpoint acknowledges: those whose present text it holds.
received(heard) ==
  {v \in heard : v = bgTask.version /\ bgTask.state \in BgTerminal
                 /\ run_state \notin RunTerminal}

\* checkpoint: the context and the acknowledgement in one transaction.
checkpoint(l, reason, asks, heard) ==
  /\ context' = [reason |-> reason, known |-> loop[l].known, heard |-> heard,
                 attempt |-> loop[l].attempt, asks |-> asks]
  /\ bgTask' = IF received(heard) = {} THEN bgTask ELSE [bgTask EXCEPT !.delivered = bgTask.version]

\* pending_for_run: undelivered tasks of a run that has not ended.
PendingResults == bgTask.state # "none" /\ bgTask.delivered = 0 /\ run_state \notin RunTerminal
ReadyResults == PendingResults /\ bgTask.state \in BgTerminal

\* await_background_results, without the sleeps: blocked while it waits.
await_background_results(l, wait, found, none) ==
  \/ /\ Stopping /\ cancel_or_timeout(l)
  \/ /\ ~Stopping /\ ReadyResults /\ UNCHANGED run_state
     /\ loop' = [loop EXCEPT ![l].at = found, ![l].heard = @ \cup {bgTask.version}]
  \/ /\ ~Stopping /\ ~ReadyResults /\ (~PendingResults \/ ~wait) /\ UNCHANGED run_state
     /\ GoTo(l, none)

\* Where a round goes: a resumed natural stop, resumed tools, or the model.
RoundStart(l, natural) ==
  IF natural THEN IF answered THEN "verify" ELSE "answer"
  ELSE IF loop[l].todo # {} THEN "deciding" ELSE "before_model"

LoopTop(l) ==
  /\ LoopAt(l, "top")
  /\ await_background_results(l, loop[l].natural, "save_found",
                              RoundStart(l, loop[l].natural))
  /\ UNCHANGED <<stored, lease, host, arUsed>>

\* The model wants no more tools: its background tasks come first.
NaturalStop(l) ==
  /\ LoopAt(l, "no_tools")
  /\ await_background_results(l, TRUE, "save_late", "save_result")
  /\ UNCHANGED <<stored, lease, host, arUsed>>

\* The code also takes a run from Verifying back to Generating here; no result can
\* be new in that state, the natural stop before it has waited for all of them.
SaveResults(l) ==
  /\ loop[l].at \in {"save_found", "save_late"}
  /\ checkpoint(l, "model_call", loop[l].asks, loop[l].heard)
  /\ loop' = [loop EXCEPT ![l].natural = FALSE,
                ![l].at = IF @ = "save_late" THEN "top" ELSE RoundStart(l, FALSE)]
  /\ UNCHANGED <<run_state, call, effects, answered, lease, host, arUsed>>

(***************************************************************************)
(* Start and resumption                                                    *)
(***************************************************************************)

\* A turn is registered once; the second one fails, and so does its run.
begin_turn(l) ==
  /\ LoopAt(l, "begin")
  /\ IF host.active # 0
     THEN GoTo(l, "marking") /\ UNCHANGED host
     ELSE /\ host' = [host EXCEPT !.active = l]
          /\ GoTo(l, IF loop[l].resumed THEN "resume" ELSE "prepare")
  /\ UNCHANGED <<run_state, stored, lease, arUsed>>

Prepare(l) ==
  /\ LoopAt(l, "prepare") /\ change_state(l, "preparing", "start")
  /\ UNCHANGED <<stored, lease, host, arUsed>>

StartGenerating(l) ==
  /\ LoopAt(l, "start")
  /\ IF Stopping /\ ~loop[l].resumed THEN cancel_or_timeout(l)
     ELSE change_state(l, "generating", "top")
  /\ UNCHANGED <<stored, lease, host, arUsed>>

\* The checkpoint is taken over and counts as one more attempt.
ResumeLoop(l) ==
  /\ LoopAt(l, "resume")
  /\ IF loop[l].attempt > MaxRecoveries
     THEN GoTo(l, "failing")
     ELSE GoTo(l, IF loop[l].machine = "preparing" THEN "start" ELSE "top")
  /\ UNCHANGED <<run_state, stored, lease, host, arUsed>>

(***************************************************************************)
(* The model                                                               *)
(***************************************************************************)

BeforeModel(l) ==
  /\ LoopAt(l, "before_model")
  /\ \/ Stopping /\ cancel_or_timeout(l) /\ UNCHANGED <<context, bgTask>>
     \/ ~Stopping /\ loop[l].asks >= MaxModelCalls /\ fail(l) /\ UNCHANGED <<context, bgTask>>
     \/ /\ ~Stopping /\ loop[l].asks < MaxModelCalls
        /\ checkpoint(l, "model_call", loop[l].asks + 1, loop[l].heard)
        /\ loop' = [loop EXCEPT ![l].at = "calling", ![l].asks = @ + 1]
        /\ UNCHANGED run_state
  /\ UNCHANGED <<call, effects, answered, lease, host, arUsed>>

Fresh == {c \in Calls : call[c].tool = "none"}
Batches == {{c} : c \in Fresh} \cup {{c, c + 1} : c \in {d \in Fresh : d + 1 \in Fresh}}

\* The answer: text, tool calls, or an error after the retries.  The ids of the
\* calls are drawn when the model's answer has been repaired.
generate(l) ==
  /\ LoopAt(l, "calling")
  /\ \/ GoTo(l, "error") /\ UNCHANGED call
     \/ ~Stopping /\ GoTo(l, "no_tools") /\ UNCHANGED call
     \/ /\ ~Stopping
        /\ \E batch \in {b \in Batches : \A c \in Fresh : \E d \in b : d <= c} :
           \E tools \in [batch -> AgentTools] :
             /\ call' = [c \in Calls |-> IF c \in batch THEN [call[c] EXCEPT !.tool = tools[c]]
                                        ELSE call[c]]
             /\ loop' = [loop EXCEPT ![l].at = "requesting", ![l].todo = batch]
  /\ UNCHANGED <<run_state, context, effects, answered, bgTask, lease, host, arUsed>>

SaveError(l) ==
  /\ LoopAt(l, "error")
  /\ checkpoint(l, "assistant_error", loop[l].asks, loop[l].heard)
  /\ GoTo(l, "errored")
  /\ UNCHANGED <<run_state, call, effects, answered, lease, host, arUsed>>

GenerationFailed(l) ==
  /\ LoopAt(l, "errored")
  /\ IF Stopping THEN cancel_or_timeout(l) ELSE fail(l)
  /\ UNCHANGED <<stored, lease, host, arUsed>>

SaveResult(l) ==
  /\ LoopAt(l, "save_result")
  /\ checkpoint(l, "assistant_result", loop[l].asks, loop[l].heard)
  /\ GoTo(l, "answer")
  /\ UNCHANGED <<run_state, call, effects, answered, lease, host, arUsed>>

RecordAnswer(l) ==
  /\ LoopAt(l, "answer") /\ answered' = TRUE /\ GoTo(l, "verify")
  /\ UNCHANGED <<run_state, context, call, effects, bgTask, lease, host, arUsed>>

Verify(l) ==
  /\ LoopAt(l, "verify")
  /\ IF loop[l].machine = "verifying" THEN UNCHANGED run_state /\ GoTo(l, "cited")
     ELSE change_state(l, "verifying", "cited")
  /\ UNCHANGED <<stored, lease, host, arUsed>>

\* The citations are checked, then queued input keeps the run going.
AfterVerify(l) ==
  /\ LoopAt(l, "cited")
  /\ \/ fail(l) /\ UNCHANGED host
     \/ ~host.queue /\ change_state(l, "completing", "finishing") /\ UNCHANGED host
     \/ /\ host.queue /\ host' = [host EXCEPT !.queue = FALSE]
        /\ IF run_state = "verifying"
           THEN /\ run_state' = "generating"
                /\ loop' = [loop EXCEPT ![l].at = "top", ![l].machine = "generating",
                                        ![l].natural = FALSE]
           ELSE UNCHANGED run_state /\ GoTo(l, "failing")
  /\ UNCHANGED <<stored, lease, arUsed>>

FinishRun(l) ==
  /\ LoopAt(l, "finishing") /\ change_state(l, "completed", "done")
  /\ UNCHANGED <<stored, lease, host, arUsed>>

(***************************************************************************)
(* Tool calls and permissions                                              *)
(***************************************************************************)

\* The calls of a batch are handled in the order of their requests, hence of their
\* numbers.
IsFirst(c, S) == c \in S /\ \A d \in S : c <= d

\* One ToolRequested event per call, then the permission state if it is needed.
RecordRequest(l) ==
  LET left == {c \in loop[l].todo : ~call[c].asked} IN
  /\ LoopAt(l, "requesting")
  /\ \/ \E c \in left : IsFirst(c, left) /\ call' = [call EXCEPT ![c].asked = TRUE]
        /\ UNCHANGED <<run_state, loop>>
     \/ /\ left = {} /\ UNCHANGED call
        /\ IF \A c \in loop[l].todo : call[c].tool \in Automatic
           THEN UNCHANGED run_state /\ GoTo(l, "deciding")
           ELSE change_state(l, "awaiting_permission", "deciding")
  /\ UNCHANGED <<context, effects, answered, bgTask, lease, host, arUsed>>

Undecided(l) == loop[l].todo \ (loop[l].allow \cup loop[l].deny)
Deciding(l, c) == LoopAt(l, "deciding") /\ IsFirst(c, Undecided(l))
Settle(l, c, allowed) ==
  loop' = [loop EXCEPT ![l].allow = IF allowed THEN @ \cup {c} ELSE @,
                       ![l].deny = IF allowed THEN @ ELSE @ \cup {c}]

\* A hook blocks the call, or the tool is automatic.
DecideAlone(l, c) ==
  /\ Deciding(l, c) /\ call[c].permission = "none"
  /\ \E allowed \in BOOLEAN :
       (allowed => call[c].tool \in Automatic) /\ Settle(l, c, allowed)
  /\ UNCHANGED <<run_state, stored, lease, host, arUsed>>

\* PermissionRequested; the answer may be known: the tool is allowed for the
\* session, or dangerous tools are refused.
AskPermission(l, c) ==
  /\ Deciding(l, c) /\ ~loop[l].replayed
  /\ call[c].tool \notin Automatic /\ call[c].permission = "none"
  /\ call' = [call EXCEPT ![c].permission = "asked"]
  /\ \E answer \in {"open", "deny"} \cup {a \in {"allow"} : call[c].tool \in host.remembered} :
       host' = [host EXCEPT !.wait = [c |-> c, decision |-> answer]]
  /\ UNCHANGED <<run_state, context, effects, answered, bgTask, lease, loop, arUsed>>

\* PermissionResolved: the user's answer, or a refusal because the run is stopped.
ReceiveDecision(l, c) ==
  /\ Deciding(l, c) /\ ~loop[l].replayed /\ host.wait.c = c
  /\ \/ host.wait.decision # "open" /\ Settle(l, c, host.wait.decision # "deny")
     \/ Stopping /\ host.wait.decision = "open" /\ Settle(l, c, FALSE)
  /\ call' = [call EXCEPT ![c].permission = "resolved"]
  /\ host' = [host EXCEPT !.wait = NoWait,
       !.remembered = IF host.wait.decision = "allow_session" THEN @ \cup {call[c].tool} ELSE @]
  /\ UNCHANGED <<run_state, context, effects, answered, bgTask, lease, arUsed>>

\* A resumed call takes the decision found for it; without one the run fails.
ResumeDecision(l, c) ==
  /\ Deciding(l, c) /\ loop[l].replayed /\ call[c].tool \notin Automatic
  /\ IF loop[l].said.c = c
     THEN /\ call' = [call EXCEPT ![c].permission = "resolved"]
          /\ Settle(l, c, loop[l].said.decision # "deny")
          /\ UNCHANGED run_state
     ELSE fail(l) /\ UNCHANGED call
  /\ UNCHANGED <<context, effects, answered, bgTask, lease, host, arUsed>>

\* All calls are decided: the denied ones are completed one by one.
RecordDenied(l) ==
  LET left == {c \in loop[l].deny : ~call[c].done} IN
  /\ LoopAt(l, "deciding") /\ Undecided(l) = {}
  /\ \/ Stopping /\ cancel_or_timeout(l) /\ UNCHANGED call
     \/ /\ ~Stopping
        /\ \E c \in left : IsFirst(c, left) /\ call' = [call EXCEPT ![c].done = TRUE]
        /\ UNCHANGED <<run_state, loop>>
     \/ ~Stopping /\ left = {} /\ GoTo(l, "settled") /\ UNCHANGED <<run_state, call>>
  /\ UNCHANGED <<context, effects, answered, bgTask, lease, host, arUsed>>

EnterTools(l) ==
  /\ LoopAt(l, "settled")
  /\ CASE loop[l].allow = {} /\ loop[l].machine = "awaiting_permission" ->
            change_state(l, "generating", "observe")
       [] loop[l].allow = {} /\ loop[l].machine # "awaiting_permission" ->
            GoTo(l, "observe") /\ UNCHANGED run_state
       [] loop[l].allow # {} /\ loop[l].machine = "executing_tools" ->
            GoTo(l, "executing") /\ UNCHANGED run_state
       [] OTHER -> change_state(l, "executing_tools", "executing")
  /\ UNCHANGED <<stored, lease, host, arUsed>>

(***************************************************************************)
(* Execution                                                               *)
(***************************************************************************)

\* The next call, with its neighbours when they are parallel reads.
NextGroup(left) ==
  {c \in left : IsFirst(c, left) \/ \A d \in left : d <= c => call[d].tool \in ParallelRead}

\* execute_tool_batch: the effect of a call, and the task it starts, come before
\* its event.
execute_tool_batch(l) ==
  LET left == {c \in loop[l].allow : ~call[c].done} IN
  /\ LoopAt(l, "executing") /\ loop[l].ran = {}
  /\ \/ Stopping /\ cancel_or_timeout(l) /\ UNCHANGED <<effects, bgTask>>
     \/ /\ ~Stopping /\ left = {}
        /\ change_state(l, "generating", "observe") /\ UNCHANGED <<effects, bgTask>>
     \/ /\ ~Stopping /\ left # {}
        /\ LET group == NextGroup(left) IN
           /\ effects' = [c \in Calls |-> IF c \in group THEN effects[c] + 1 ELSE effects[c]]
           /\ bgTask' = IF bgTask.state = "none" /\ \E c \in group : call[c].tool \in Detached
                        THEN [bgTask EXCEPT !.state = "running"] ELSE bgTask
           /\ loop' = [loop EXCEPT ![l].ran = group]
        /\ UNCHANGED run_state
  /\ UNCHANGED <<context, call, answered, lease, host, arUsed>>

record_tool_result(l) ==
  /\ LoopAt(l, "executing") /\ loop[l].ran # {}
  /\ \E c \in loop[l].ran :
     /\ IsFirst(c, loop[l].ran)
     /\ call' = [call EXCEPT ![c].done = TRUE]
     /\ loop' = [loop EXCEPT ![l].ran = @ \ {c}]
  /\ UNCHANGED <<run_state, context, effects, answered, bgTask, lease, host, arUsed>>

\* The observations and the steering messages join the context in memory.
Observe(l) ==
  /\ LoopAt(l, "observe")
  /\ loop' = [loop EXCEPT ![l].at = "top", ![l].known = @ \cup loop[l].todo, ![l].todo = {},
                          ![l].replayed = FALSE, ![l].said = NoWait,
                          ![l].allow = {}, ![l].deny = {}]
  /\ host' = [host EXCEPT !.queue = FALSE]
  /\ UNCHANGED <<run_state, stored, lease, arUsed>>

(***************************************************************************)
(* The end of a loop                                                       *)
(***************************************************************************)

Released == [host EXCEPT !.active = 0, !.stop = "none", !.queue = FALSE]
LeaseEnds(l) == IF lease = l THEN NoLease ELSE lease

\* finish_turn, and RecoveryCompleted when the loop was a resumption.
finish_turn(l) ==
  /\ LoopAt(l, "done")
  /\ host' = Released /\ lease' = LeaseEnds(l)
  /\ loop' = [loop EXCEPT ![l] = NoLoop]
  /\ UNCHANGED <<run_state, stored, arUsed>>

finish_failed_turn(l) ==
  /\ LoopAt(l, "failing")
  /\ host' = Released /\ GoTo(l, "marking")
  /\ UNCHANGED <<run_state, stored, lease, arUsed>>

\* mark_agent_run_failed fails a run that has not ended, whoever works on it.
mark_agent_run_failed(l) ==
  /\ LoopAt(l, "marking")
  /\ run_state' = IF run_state \in RunTerminal THEN run_state ELSE "failed"
  /\ lease' = LeaseEnds(l)
  /\ loop' = [loop EXCEPT ![l] = NoLoop]
  /\ UNCHANGED <<stored, host, arUsed>>

(***************************************************************************)
(* Recovery                                                                *)
(***************************************************************************)

pending_tools == {c \in Calls : call[c].asked /\ ~call[c].done}
pending_permissions == {c \in Calls : call[c].permission = "asked"}

\* Mutant: the pending tools are resumed whatever they do.
ResumesAnything ==
  CASE run_state = "awaiting_permission" ->
         IF pending_permissions = {} THEN "regenerate" ELSE "await_permissions"
    [] run_state = "executing_tools" ->
         IF pending_tools # {} THEN "resume_tools" ELSE "regenerate"
    [] run_state \in {"generating", "preparing", "verifying"} ->
         IF context.reason \in {"model_call", "assistant_result"} /\ context.attempt < 2
         THEN "resume_from_checkpoint" ELSE "regenerate"
    [] OTHER -> "regenerate"

recovery_action ==
  CASE run_state = "awaiting_permission" ->
         IF pending_permissions = {} THEN "regenerate" ELSE "await_permissions"
    [] run_state = "executing_tools" ->
         IF pending_tools # {} /\ \A c \in pending_tools : call[c].tool \in Idempotent
         THEN "resume_tools" ELSE "regenerate"
    [] run_state \in {"generating", "preparing", "verifying"} ->
         IF context.reason \in {"model_call", "assistant_result"} /\ context.attempt < 2
         THEN "resume_from_checkpoint" ELSE "regenerate"
    [] OTHER -> "regenerate"

\* A spawned resumption: the context, the state and the attempt it starts from.
Resumption(action) ==
  [NoLoop EXCEPT !.at = IF action = "await_permissions" THEN "perm_wait" ELSE "load",
     !.machine = run_state, !.resumed = TRUE, !.attempt = context.attempt + 1,
     !.asks = context.asks, !.known = context.known, !.heard = context.heard,
     !.natural = (context.reason = "assistant_result")]

Interrupts == /\ run_state' = "interrupted" /\ lease' = NoLease
              /\ UNCHANGED loop

\* The resumption is spawned; a pending permission is put back into memory.
Spawn(l) ==
  /\ LoopAt(l, "none")
  /\ loop' = [loop EXCEPT ![l] = Resumption(recovery_action)]
  /\ host' = [host EXCEPT !.up = TRUE,
       !.wait = IF recovery_action = "await_permissions"
                THEN [c |-> CHOOSE c \in pending_permissions : TRUE, decision |-> "open"]
                ELSE @]
  /\ UNCHANGED run_state

\* initialize_database: the runs left behind are recovered before anything else; a
\* fresh lease of the dead process does not matter, nobody works on the run.
Startup ==
  /\ ~host.up
  /\ \/ /\ run_state \in RunTerminal
        /\ UNCHANGED <<run_state, lease, loop>> /\ host' = [host EXCEPT !.up = TRUE]
     \/ /\ run_state \notin RunTerminal /\ recovery_action = "regenerate"
        /\ Interrupts /\ host' = [host EXCEPT !.up = TRUE]
     \/ /\ run_state \notin RunTerminal /\ recovery_action # "regenerate"
        /\ Spawn(1) /\ lease' \in {1, lease} \ {NoLease}
  /\ UNCHANGED <<stored, arUsed>>

\* recover_agent_runs from the chat page: a run that cannot be resumed is
\* interrupted.  Otherwise a lease younger than ten minutes leaves it alone; an
\* older one is replaced, and a loop starts unless the host has a turn of the run
\* or its permission is already waiting.  A resumption that loads or begins holds a
\* fresh lease: these two steps are assumed to take less than ten minutes.
recover_agent_runs ==
  /\ host.up /\ ArCommand /\ run_state \notin RunTerminal
  /\ \/ recovery_action = "regenerate" /\ Interrupts /\ UNCHANGED host
     \/ /\ recovery_action # "regenerate" /\ host.active = 0
        /\ recovery_action = "await_permissions" => host.wait = NoWait
        /\ \A k \in Loops : loop[k].resumed => loop[k].at \notin {"load", "begin"}
        /\ \E l \in Loops : Spawn(l) /\ lease' = l
     \/ /\ recovery_action # "regenerate"
        /\ host.active # 0 \/ (recovery_action = "await_permissions" /\ host.wait # NoWait)
        /\ lease' = Orphaned /\ UNCHANGED <<run_state, loop, host>>
  /\ UNCHANGED stored

\* The restored permission is answered, or the run is cancelled meanwhile: then the
\* resumption just ends.
AwaitRestored(l) ==
  /\ LoopAt(l, "perm_wait")
  /\ \/ /\ host.wait.decision \in {"allow", "allow_session", "deny"} /\ ~Stopping
        /\ loop' = [loop EXCEPT ![l].at = "load", ![l].said = host.wait]
     \/ Stopping /\ loop' = [loop EXCEPT ![l] = NoLoop]
  /\ host' = [host EXCEPT !.wait = NoWait]
  /\ UNCHANGED <<run_state, stored, lease, arUsed>>

\* The pending tools are read from the events before the turn begins.
LoadRecovered(l) ==
  /\ LoopAt(l, "load")
  /\ IF Stopping THEN loop' = [loop EXCEPT ![l] = NoLoop]
     ELSE loop' = [loop EXCEPT ![l].at = "begin",
            ![l].replayed = loop[l].machine \in {"awaiting_permission", "executing_tools"},
            ![l].todo = IF loop[l].machine \in {"awaiting_permission", "executing_tools"}
                        THEN pending_tools ELSE {}]
  /\ UNCHANGED <<run_state, stored, lease, host, arUsed>>

(***************************************************************************)
(* The user, the background task and the process                           *)
(***************************************************************************)

\* An active loop ends the run itself; otherwise the command does.
cancel_agent_run ==
  /\ host.up /\ ArCommand /\ run_state \notin RunTerminal
  /\ host' = [host EXCEPT !.stop = "user"]
  /\ run_state' = IF host.active = 0 THEN "cancelled" ELSE run_state
  /\ UNCHANGED <<stored, lease, loop>>

DeadlinePasses ==
  /\ host.active # 0 /\ host.stop = "none" /\ ArCommand
  /\ host' = [host EXCEPT !.stop = "deadline"]
  /\ UNCHANGED <<run_state, stored, lease, loop>>

steer_agent_run ==
  /\ host.active # 0 /\ ~host.queue /\ ArCommand /\ host' = [host EXCEPT !.queue = TRUE]
  /\ UNCHANGED <<run_state, stored, lease, loop>>

resolve_agent_permission ==
  /\ host.wait.decision = "open"
  /\ \E d \in {"allow", "allow_session", "deny"} :
        host' = [host EXCEPT !.wait.decision = d]
  /\ UNCHANGED <<run_state, stored, lease, loop, arUsed>>

\* The task ends, pauses, or is retried; every change is a new message.
BgTaskMoves ==
  /\ bgTask.state # "none" /\ bgTask.version < MaxResults
  /\ \E s \in {"running", "completed", "paused"} :
       /\ IF s = "running" THEN bgTask.state = "paused" ELSE bgTask.state = "running"
       /\ bgTask' = [bgTask EXCEPT !.state = s, !.version = @ + 1]
  /\ UNCHANGED <<run_state, context, call, effects, answered, lease, loop, host, arUsed>>

ArCrash ==
  /\ host.up /\ arUsed.crashes < ArMaxCrashes
  /\ arUsed' = [arUsed EXCEPT !.crashes = @ + 1]
  /\ loop' = [l \in Loops |-> NoLoop]
  /\ host' = [up |-> FALSE, active |-> 0, stop |-> "none", queue |-> FALSE,
              wait |-> NoWait, remembered |-> {}]
  /\ lease' = IF lease = NoLease THEN NoLease ELSE Orphaned
  /\ UNCHANGED <<run_state, stored>>

LoopStep(l) ==
  \/ begin_turn(l) \/ Prepare(l) \/ StartGenerating(l) \/ ResumeLoop(l)
  \/ LoopTop(l) \/ SaveResults(l)
  \/ BeforeModel(l) \/ generate(l) \/ SaveError(l) \/ GenerationFailed(l)
  \/ NaturalStop(l) \/ SaveResult(l) \/ RecordAnswer(l) \/ Verify(l) \/ AfterVerify(l)
  \/ FinishRun(l) \/ RecordRequest(l) \/ RecordDenied(l) \/ EnterTools(l)
  \/ \E c \in Calls : \/ DecideAlone(l, c) \/ AskPermission(l, c)
                      \/ ReceiveDecision(l, c) \/ ResumeDecision(l, c)
  \/ execute_tool_batch(l) \/ record_tool_result(l) \/ Observe(l)
  \/ finish_turn(l) \/ finish_failed_turn(l) \/ mark_agent_run_failed(l)
  \/ AwaitRestored(l) \/ LoadRecovered(l)

ArNext ==
  \/ \E l \in Loops : LoopStep(l)
  \/ Startup \/ recover_agent_runs
  \/ cancel_agent_run \/ DeadlinePasses \/ steer_agent_run \/ resolve_agent_permission
  \/ BgTaskMoves \/ ArCrash

ArSpec == ArInit /\ [][ArNext]_arVars

(***************************************************************************)
(* Properties                                                              *)
(***************************************************************************)

\* A tool call whose tool is not idempotent is executed at most once, whatever
\* crashes, resumptions and repeated recoveries come between its request, its
\* execution and its ToolCompleted event.
ToolCallRunsOnce == \A c \in Calls : call[c].tool \notin Idempotent => effects[c] <= 1

\* A background result is acknowledged only together with a context that holds it,
\* so a resumed loop always starts from a context with every acknowledged result;
\* and a completed run leaves none of its results undelivered.
ResultsReachTheModel ==
  /\ run_state \notin RunTerminal /\ bgTask.delivered # 0 =>
       bgTask.delivered \in context.heard
  /\ run_state = "completed" /\ bgTask.state # "none" => bgTask.delivered # 0

=============================================================================
