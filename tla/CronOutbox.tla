----------------------------- MODULE CronOutbox ------------------------------
(***************************************************************************)
(* Scheduled Agent runs: the cron_jobs and cron_outbox tables              *)
(* (tasks/cron_repository.rs), the pump that turns due slots into Agent    *)
(* runs (app/agent_automation.rs), and what it shares with everybody else: *)
(* prepare_chat, the active turns of RuntimeHost, run recovery, and the    *)
(* user who chats, edits schedules and cancels runs.                       *)
(*                                                                         *)
(* An outbox row is identified by its job and slot (the UNIQUE constraint  *)
(* of the table); the run reserved for it has the row's id, so one         *)
(* identifier stands for both.  A run row is abstracted to "active" until  *)
(* it reaches one of the four terminal states.                             *)
(*                                                                         *)
(* Each executor of a run is a pair <<run, kind>>: the "chat" that created *)
(* it (a user's message or a dispatched event) or a "resume" begun by      *)
(* recovery.  exec says how far it got.                                    *)
(***************************************************************************)
EXTENDS Integers

CONSTANTS
  Jobs,           \* schedule identifiers
  Recurring,      \* schedules saved as recurring, the others fire once
  UserRuns,       \* runs the user's own messages may create
  Conversations,
  Archivable,     \* conversations the user may archive
  ConvOf,         \* the conversation of each schedule and of each user run
  MaxTime,        \* last minute of the model; the schedules match every minute
  AllowRecovery,  \* the agent preference allow_recovery
  MaxCrashes,     \* bound on process crashes
  MaxFaults       \* bound on storage faults

ASSUME CronAssumption ==
  /\ Recurring \subseteq Jobs
  /\ ConvOf \in [Jobs \cup UserRuns -> Conversations]
  /\ Archivable \subseteq Conversations
  /\ MaxTime \in Nat \ {0}
  /\ AllowRecovery \in BOOLEAN
  /\ MaxCrashes \in Nat
  /\ MaxFaults \in Nat

Slots == 1..MaxTime
Events == Jobs \X Slots
Runs == Events \cup UserRuns
Kinds == {"chat", "resume"}
Executors == Runs \X Kinds

ASSUME UserRunsAssumption == UserRuns \cap Events = {}

VARIABLES
  job,       \* cron_jobs: saved, enabled, next (next_run_at_utc)
  outbox,    \* cron_outbox: whether and how a row was acknowledged
  reserved,  \* cron_outbox rows whose run_id is set
  run,       \* agent_runs.state
  started,   \* runs that began a turn, so that recovery may find a checkpoint
  archived,  \* archived conversations
  exec,      \* how far each executor of a run got
  turn,      \* RuntimeHost.active
  pump,      \* where db_init and the pump loop stand
  todo,      \* runs db_init, or events the pump, has still to visit
  busy,      \* pump's busy_sessions
  picked,    \* the event the pump found free to start, not yet reserved
  crashes,
  faults

tables == <<job, outbox, reserved, run, started, archived>>
pumpVars == <<pump, todo, busy, picked>>
vars == <<tables, exec, turn, pumpVars, crashes, faults>>

Terminal == {"completed", "cancelled", "failed", "interrupted"}
RunStates == {"none", "active"} \cup Terminal
OutboxStates == {"absent", "pending", "delivered", "error", "withdrawn"}

\* spawned: before prepare_chat; created: the run row exists, no turn yet;
\* turn: in AgentLoop::run; finished: terminal state written, turn still held;
\* error: to be marked failed; ok, err: what desktop_agent_chat returned;
\* record: dispatch_event failed; drop: DispatchGuard about to go.
ExecStates ==
  {"idle", "spawned", "created", "turn", "finished", "error",
   "ok", "err", "record", "drop"}

\* The pump holds the in_flight lock from ticked to reserve.
PumpStates == {"off", "recover", "idle", "ticked", "listed", "loop", "reserve"}
Up == pump \notin {"off", "recover"}
Locked == pump \in {"ticked", "listed", "loop", "reserve"}

Conv(r) == IF r \in UserRuns THEN ConvOf[r] ELSE ConvOf[r[1]]
Chat(r) == <<r, "chat">>
Resume(r) == <<r, "resume">>
RunOf(x) == x[1]
InFlight == {e \in Events : exec[Chat(e)] # "idle"}
Attended(r) == \E k \in Kinds : exec[<<r, k>>] # "idle"

NoJob == [saved |-> "no", enabled |-> FALSE, next |-> 0]
JobRows ==
  [saved : {"no", "yes", "deleted"}, enabled : BOOLEAN, next : 0..(MaxTime + 1)]

TypeOK ==
  /\ job \in [Jobs -> JobRows]
  /\ outbox \in [Events -> OutboxStates]
  /\ reserved \in SUBSET Events
  /\ run \in [Runs -> RunStates]
  /\ started \in SUBSET Runs
  /\ archived \in SUBSET Conversations
  /\ exec \in [Executors -> ExecStates]
  /\ turn \in SUBSET Runs
  /\ pump \in PumpStates
  /\ todo \in SUBSET Runs
  /\ busy \in SUBSET Conversations
  /\ picked \in SUBSET Events
  /\ crashes \in 0..MaxCrashes
  /\ faults \in 0..MaxFaults

Init ==
  /\ job = [j \in Jobs |-> NoJob]
  /\ outbox = [e \in Events |-> "absent"]
  /\ reserved = {}
  /\ run = [r \in Runs |-> "none"]
  /\ started = {}
  /\ archived = {}
  /\ exec = [x \in Executors |-> "idle"]
  /\ turn = {}
  /\ pump = "off"
  /\ todo = {}
  /\ busy = {}
  /\ picked = {}
  /\ crashes = 0
  /\ faults = 0

Fault == faults < MaxFaults /\ faults' = faults + 1

-----------------------------------------------------------------------------
(***************************************************************************)
(* Schedules.  Every command is one transaction under the DbState mutex.   *)
(***************************************************************************)
\* Utc::now() in minutes, read afresh by each operation.  It need not grow:
\* the system clock may be set back.
Readings == 0..MaxTime

next_after(now) == now + 1

\* A disabled schedule's next_run_at is recomputed when it is enabled again,
\* so it is not kept.
Schedule(enabled, now) ==
  [saved |-> "yes", enabled |-> enabled,
   next |-> IF enabled THEN next_after(now) ELSE 0]

cancel_unstarted(j) ==
  [e \in Events |->
     IF /\ e[1] = j
        /\ outbox[e] = "pending"
        /\ e \notin reserved \/ run[e] = "none"
     THEN "withdrawn" ELSE outbox[e]]

save(j, enabled, now) ==
  /\ Up
  /\ job[j].saved # "deleted"
  /\ ConvOf[j] \notin archived
  /\ job' = [job EXCEPT ![j] = Schedule(enabled, now)]
  /\ outbox' = cancel_unstarted(j)
  /\ UNCHANGED <<reserved, run, started, archived, exec, turn, pumpVars,
                 crashes, faults>>

delete(j) ==
  /\ Up
  /\ job[j].saved = "yes"
  /\ job' = [job EXCEPT ![j] = [saved |-> "deleted", enabled |-> FALSE, next |-> 0]]
  /\ outbox' = cancel_unstarted(j)
  /\ UNCHANGED <<reserved, run, started, archived, exec, turn, pumpVars,
                 crashes, faults>>

set_enabled(j, enabled, now) ==
  /\ Up
  /\ job[j].saved = "yes"
  /\ enabled => ConvOf[j] \notin archived
  /\ job' = [job EXCEPT ![j] = Schedule(enabled, now)]
  /\ outbox' = IF enabled THEN outbox ELSE cancel_unstarted(j)
  /\ UNCHANGED <<reserved, run, started, archived, exec, turn, pumpVars,
                 crashes, faults>>

-----------------------------------------------------------------------------
(***************************************************************************)
(* The pump: one pass over the pending rows each second.                   *)
(***************************************************************************)
Due(j, now) == job[j].saved = "yes" /\ job[j].enabled /\ job[j].next <= now

\* One event for the oldest missed slot; a one-shot schedule disables itself.
tick(now) ==
  /\ pump = "idle"
  /\ outbox' = [e \in Events |->
       IF Due(e[1], now) /\ e[2] = job[e[1]].next /\ outbox[e] = "absent"
       THEN "pending" ELSE outbox[e]]
  /\ job' = [j \in Jobs |->
       IF Due(j, now) THEN Schedule(j \in Recurring, now) ELSE job[j]]
  /\ pump' = "ticked"
  /\ UNCHANGED <<reserved, run, started, archived, exec, turn, todo, busy,
                 picked, crashes, faults>>

pending ==
  /\ pump = "ticked"
  /\ todo' = {e \in Events : outbox[e] = "pending"}
  /\ pump' = "listed"
  /\ UNCHANGED <<tables, exec, turn, busy, picked, crashes, faults>>

\* Mutant: only turns that have begun make their conversation busy.
BusyIgnoresLaunching ==
  /\ pump = "listed"
  /\ busy' = {Conv(r) : r \in turn}
  /\ todo' = todo \ InFlight
  /\ pump' = "loop"
  /\ UNCHANGED <<tables, exec, turn, picked, crashes, faults>>

\* busy_sessions: turns in progress, and events launched but not begun.
PumpBusy ==
  /\ pump = "listed"
  /\ busy' = {Conv(r) : r \in turn} \cup {Conv(e) : e \in todo \cap InFlight}
  /\ todo' = todo \ InFlight
  /\ pump' = "loop"
  /\ UNCHANGED <<tables, exec, turn, picked, crashes, faults>>

conversation_busy(c) == \E r \in Runs : run[r] = "active" /\ Conv(r) = c

NextPending(e) ==
  /\ pump = "loop"
  /\ e \in todo
  /\ \A f \in todo : e[2] <= f[2]

Acknowledge(e, how) ==
  outbox' = [outbox EXCEPT ![e] = IF @ = "pending" THEN how ELSE @]

\* A recorded run is never started again: its event waits for it to end.
PumpRecorded(e) ==
  /\ NextPending(e)
  /\ run[e] # "none"
  /\ IF run[e] = "active" THEN UNCHANGED outbox
     ELSE Acknowledge(e, IF run[e] = "completed" THEN "delivered" ELSE "error")
  /\ todo' = todo \ {e}
  /\ UNCHANGED <<job, reserved, run, started, archived, exec, turn, pump,
                 busy, picked, crashes, faults>>

PumpSkip(e) ==
  /\ NextPending(e)
  /\ run[e] = "none"
  /\ \/ (conversation_busy(Conv(e)) \/ Conv(e) \in busy) /\ UNCHANGED outbox
     \/ /\ ~conversation_busy(Conv(e)) /\ Conv(e) \notin busy
        /\ Conv(e) \in archived
        /\ Acknowledge(e, "error")
  /\ todo' = todo \ {e}
  /\ UNCHANGED <<job, reserved, run, started, archived, exec, turn, pump,
                 busy, picked, crashes, faults>>

PumpPick(e) ==
  /\ NextPending(e)
  /\ run[e] = "none"
  /\ ~conversation_busy(Conv(e))
  /\ Conv(e) \notin busy \cup archived
  /\ picked' = {e}
  /\ todo' = todo \ {e}
  /\ pump' = "reserve"
  /\ UNCHANGED <<tables, exec, turn, busy, crashes, faults>>

\* reserve_run, then the dispatch task is spawned with its DispatchGuard.
reserve_run(e) ==
  /\ pump = "reserve"
  /\ e \in picked
  /\ outbox[e] = "pending"
  /\ reserved' = reserved \cup {e}
  /\ exec' = [exec EXCEPT ![Chat(e)] = "spawned"]
  /\ busy' = busy \cup {Conv(e)}
  /\ picked' = {}
  /\ pump' = "loop"
  /\ UNCHANGED <<job, outbox, run, started, archived, turn, todo, crashes,
                 faults>>

EndPass ==
  /\ pump' = "idle"
  /\ todo' = {}
  /\ busy' = {}
  /\ picked' = {}
  /\ UNCHANGED <<tables, exec, turn, crashes>>

PumpDone ==
  /\ pump = "loop"
  /\ todo = {}
  /\ UNCHANGED faults
  /\ EndPass

\* The row was withdrawn since it was listed: the error ends the whole pass.
ReserveRefused ==
  /\ pump = "reserve"
  /\ \E e \in picked : outbox[e] # "pending"
  /\ UNCHANGED faults
  /\ EndPass

PumpFault == Locked /\ Fault /\ EndPass

-----------------------------------------------------------------------------
(***************************************************************************)
(* Chats: desktop_agent_chat, called by the user or by dispatch_event.     *)
(***************************************************************************)
SetExec(x, s) == exec' = [exec EXCEPT ![x] = s]

UserSends(r) ==
  /\ Up
  /\ run[r] = "none"
  /\ exec[Chat(r)] = "idle"
  /\ SetExec(Chat(r), "spawned")
  /\ UNCHANGED <<tables, turn, pumpVars, crashes, faults>>

\* Mutant: the cancellation of a slot is not looked at again.
PrepareUnchecked(r) == Up /\ run[r] = "none"

\* prepare_chat refuses a withdrawn slot; the INSERT refuses a second run.
PrepareOk(r) ==
  /\ Up
  /\ run[r] = "none"
  /\ ~(r \in reserved /\ outbox[r] # "pending")

prepare_chat(r) ==
  /\ exec[Chat(r)] = "spawned"
  /\ PrepareOk(r)
  /\ run' = [run EXCEPT ![r] = "active"]
  /\ SetExec(Chat(r), "created")
  /\ UNCHANGED <<job, outbox, reserved, started, archived, turn, pumpVars,
                 crashes, faults>>

\* The slot was withdrawn, or a profile, model or credential check failed.
PrepareFails(r) ==
  /\ exec[Chat(r)] = "spawned"
  /\ SetExec(Chat(r), "err")
  /\ UNCHANGED <<tables, turn, pumpVars, crashes, faults>>

begin_turn(x) ==
  /\ exec[x] = "created"
  /\ RunOf(x) \notin turn
  /\ \A r \in turn : Conv(r) # Conv(RunOf(x))
  /\ turn' = turn \cup {RunOf(x)}
  /\ started' = started \cup {RunOf(x)}
  /\ SetExec(x, "turn")
  /\ UNCHANGED <<job, outbox, reserved, run, archived, pumpVars, crashes,
                 faults>>

\* The session already has a turn, or anything before begin_turn failed.
BeginFails(x) ==
  /\ exec[x] = "created"
  /\ SetExec(x, "error")
  /\ UNCHANGED <<tables, turn, pumpVars, crashes, faults>>

\* AgentLoop writes the terminal state; it owns it only while still active.
LoopEnds(x, outcome) ==
  /\ exec[x] = "turn"
  /\ run[RunOf(x)] = "active"
  /\ run' = [run EXCEPT ![RunOf(x)] = outcome]
  /\ SetExec(x, "finished")
  /\ UNCHANGED <<job, outbox, reserved, started, archived, turn, pumpVars,
                 crashes, faults>>

finish_turn(x, result) ==
  /\ exec[x] = "finished" \/ (exec[x] = "turn" /\ result = "error")
  /\ turn' = turn \ {RunOf(x)}
  /\ SetExec(x, result)
  /\ UNCHANGED <<tables, pumpVars, crashes, faults>>

\* Reading the run's age or opening the artifact store fails: run_standard_
\* agent_inner returns between begin_turn and the loop without finish_turn.
TurnLeaks(x) ==
  /\ exec[x] = "turn"
  /\ Fault
  /\ SetExec(x, "error")
  /\ UNCHANGED <<tables, turn, pumpVars, crashes>>

\* Mutant: the run is overwritten without looking at its state.
FailedAlways(r) == [run EXCEPT ![r] = "failed"]

\* AgentRecoveryService::fail: a terminal run is left alone, and the write
\* loses to a resumption that changes the state in between.
Failed(r) == [run EXCEPT ![r] = IF @ = "active" THEN "failed" ELSE @]

fail(r) ==
  \/ run' = Failed(r) /\ UNCHANGED faults
  \/ exec[Resume(r)] = "turn" /\ UNCHANGED <<run, faults>>
  \/ Fault /\ UNCHANGED run

\* Mutant: the error is returned without ending the run.
MarkForgets(x) ==
  /\ exec[x] = "error"
  /\ SetExec(x, "err")
  /\ UNCHANGED <<tables, turn, pumpVars, crashes, faults>>

mark_agent_run_failed(x) ==
  /\ exec[x] = "error"
  /\ fail(RunOf(x))
  /\ SetExec(x, "err")
  /\ UNCHANGED <<job, outbox, reserved, started, archived, turn, pumpVars,
                 crashes>>

\* resume_recovered_agent makes the same write a second time.
ResumeFails(r) ==
  /\ exec[Resume(r)] = "err"
  /\ fail(r)
  /\ SetExec(Resume(r), "idle")
  /\ UNCHANGED <<job, outbox, reserved, started, archived, turn, pumpVars, crashes>>

\* A user's chat or a resumption has returned.
Returns(x) ==
  /\ \/ RunOf(x) \in UserRuns /\ x[2] = "chat" /\ exec[x] \in {"ok", "err"}
     \/ x[2] = "resume" /\ exec[x] = "ok"
  /\ SetExec(x, "idle")
  /\ UNCHANGED <<tables, turn, pumpVars, crashes, faults>>

\* Mutant: an Ok from the chat is taken for a completed run.
DeliveredUnchecked(e) == exec[Chat(e)] = "ok"

Delivered(e) == exec[Chat(e)] = "ok" /\ run[e] = "completed"

\* Mutant: a failed dispatch trusts the chat to have ended its run.
DispatchTrustsChat(e) ==
  /\ exec[Chat(e)] \in {"ok", "err"}
  /\ IF Delivered(e)
     THEN Acknowledge(e, "delivered") /\ SetExec(Chat(e), "drop")
     ELSE UNCHANGED outbox /\ SetExec(Chat(e), "record")
  /\ UNCHANGED <<job, reserved, run, started, archived, turn, pumpVars, crashes, faults>>

\* dispatch_event after the chat: acknowledge a completed run, or make sure
\* that a recorded run has ended.
dispatch_event(e) ==
  /\ exec[Chat(e)] \in {"ok", "err"}
  /\ IF Delivered(e)
     THEN /\ Acknowledge(e, "delivered")
          /\ SetExec(Chat(e), "drop")
          /\ UNCHANGED <<run, faults>>
     ELSE /\ fail(e)
          /\ SetExec(Chat(e), "record")
          /\ UNCHANGED outbox
  /\ UNCHANGED <<job, reserved, started, archived, turn, pumpVars, crashes>>

\* The database could not be opened, or the acknowledgement failed.
DispatchFault(e) ==
  /\ exec[Chat(e)] \in {"ok", "err"}
  /\ Fault
  /\ SetExec(Chat(e), "record")
  /\ UNCHANGED <<tables, turn, pumpVars, crashes>>

record_error(e) ==
  /\ exec[Chat(e)] = "record"
  /\ \/ Acknowledge(e, "error") /\ UNCHANGED faults
     \/ Fault /\ UNCHANGED outbox
  /\ SetExec(Chat(e), "drop")
  /\ UNCHANGED <<job, reserved, run, started, archived, turn, pumpVars,
                 crashes>>

\* DispatchGuard::drop takes the in_flight lock the pump holds.
DispatchGuardDrops(e) ==
  /\ exec[Chat(e)] = "drop"
  /\ ~Locked
  /\ SetExec(Chat(e), "idle")
  /\ UNCHANGED <<tables, turn, pumpVars, crashes, faults>>

-----------------------------------------------------------------------------
(***************************************************************************)
(* Recovery of active runs, at start-up and by recover_agent_runs.         *)
(***************************************************************************)
\* Regenerate: the run is interrupted, whoever is executing it.
RecoverInterrupts(r) ==
  /\ run[r] = "active"
  /\ run' = [run EXCEPT ![r] = "interrupted"]
  /\ UNCHANGED exec

\* A checkpoint, pending tools or permissions let the run be resumed, unless
\* its turn is in progress.
RecoverResumes(r) ==
  /\ run[r] = "active"
  /\ r \in started
  /\ exec' = [exec EXCEPT ![Resume(r)] =
                IF r \in turn \/ @ # "idle" THEN @ ELSE "created"]
  /\ UNCHANGED run

\* resume_recovered_agent returns before it has a turn: no snapshot, no
\* provider, or the preference was switched off.  The run stays active.
ResumeGivesUp(r) ==
  /\ exec[Resume(r)] = "created"
  /\ SetExec(Resume(r), "idle")
  /\ UNCHANGED <<tables, turn, pumpVars, crashes, faults>>

recover_agent_runs(r) ==
  /\ Up
  /\ AllowRecovery
  /\ RecoverInterrupts(r) \/ RecoverResumes(r)
  /\ UNCHANGED <<job, outbox, reserved, started, archived, turn, pumpVars,
                 crashes, faults>>

db_init ==
  /\ pump = "off"
  /\ pump' = "recover"
  /\ todo' = IF AllowRecovery THEN {r \in Runs : run[r] = "active"} ELSE {}
  /\ UNCHANGED <<tables, exec, turn, busy, picked, crashes, faults>>

InitRecovers(r) ==
  /\ pump = "recover"
  /\ r \in todo
  /\ RecoverInterrupts(r) \/ RecoverResumes(r)
  /\ todo' = todo \ {r}
  /\ UNCHANGED <<job, outbox, reserved, started, archived, turn, pump, busy,
                 picked, crashes, faults>>

\* A listed run ended in the meantime: db_init reports the conflict and the
\* pump is not started.
InitConflicts ==
  /\ pump = "recover"
  /\ \E r \in todo : run[r] # "active"
  /\ pump' = "off"
  /\ todo' = {}
  /\ UNCHANGED <<tables, exec, turn, busy, picked, crashes, faults>>

\* The end of db_init: AgentAutomationState::start.
start ==
  /\ pump = "recover"
  /\ todo = {}
  /\ pump' = "idle"
  /\ UNCHANGED <<tables, exec, turn, todo, busy, picked, crashes, faults>>

\* A restore stops the pump when nothing runs, and ends in db_init again.
pause_for_restore ==
  /\ pump = "idle"
  /\ turn = {}
  /\ InFlight = {}
  /\ pump' = "off"
  /\ UNCHANGED <<tables, exec, turn, todo, busy, picked, crashes, faults>>

-----------------------------------------------------------------------------
\* cancel_agent_run of a run that is not in a turn when looked at.
cancel_agent_run(r) ==
  /\ Up
  /\ run[r] = "active"
  /\ run' = [run EXCEPT ![r] = "cancelled"]
  /\ UNCHANGED <<job, outbox, reserved, started, archived, exec, turn,
                 pumpVars, crashes, faults>>

ArchiveConversation(c) ==
  /\ Up
  /\ c \in Archivable \ archived
  /\ archived' = archived \cup {c}
  /\ UNCHANGED <<job, outbox, reserved, run, started, exec, turn, pumpVars,
                 crashes, faults>>

RestoreConversation(c) ==
  /\ Up
  /\ c \in archived
  /\ archived' = archived \ {c}
  /\ UNCHANGED <<job, outbox, reserved, run, started, exec, turn, pumpVars,
                 crashes, faults>>

Crash ==
  /\ crashes < MaxCrashes
  /\ crashes' = crashes + 1
  /\ exec' = [x \in Executors |-> "idle"]
  /\ turn' = {}
  /\ pump' = "off"
  /\ todo' = {}
  /\ busy' = {}
  /\ picked' = {}
  /\ UNCHANGED <<tables, faults>>

-----------------------------------------------------------------------------
Pump ==
  \/ (\E now \in Readings : tick(now)) \/ pending \/ PumpBusy \/ PumpDone \/ ReserveRefused
  \/ \E e \in Events : PumpRecorded(e) \/ PumpSkip(e) \/ PumpPick(e) \/ reserve_run(e)

Startup == db_init \/ InitConflicts \/ start \/ (\E r \in Runs : InitRecovers(r))

ExecutorStep(x) ==
  \/ begin_turn(x) \/ BeginFails(x)
  \/ \E outcome \in {"completed", "cancelled", "failed"} : LoopEnds(x, outcome)
  \/ \E result \in {"ok", "error"} : finish_turn(x, result)
  \/ mark_agent_run_failed(x) \/ Returns(x)
  \/ x = Resume(RunOf(x)) /\ ResumeFails(RunOf(x))

DispatchStep(e) == dispatch_event(e) \/ record_error(e) \/ DispatchGuardDrops(e)

ChatStep(r) == prepare_chat(r) \/ PrepareFails(r)

User ==
  \/ \E j \in Jobs :
       \/ \E enabled \in BOOLEAN, now \in Readings :
            save(j, enabled, now) \/ set_enabled(j, enabled, now)
       \/ delete(j)
  \/ \E r \in UserRuns : UserSends(r)
  \/ \E r \in Runs : cancel_agent_run(r) \/ recover_agent_runs(r)
  \/ \E c \in Conversations : ArchiveConversation(c) \/ RestoreConversation(c)
  \/ pause_for_restore

Environment ==
  \/ \E x \in Executors : TurnLeaks(x)
  \/ \E r \in Runs : ResumeGivesUp(r)
  \/ \E e \in Events : DispatchFault(e)
  \/ PumpFault
  \/ Crash

Next ==
  \/ Pump \/ Startup
  \/ \E x \in Executors : ExecutorStep(x)
  \/ \E e \in Events : DispatchStep(e)
  \/ \E r \in Runs : ChatStep(r)
  \/ User \/ Environment

Spec == Init /\ [][Next]_vars

\* The pump comes round every second and sleeps in between without the lock,
\* so that a restore cannot keep it from ever running nor the pump keep a
\* DispatchGuard from ever dropping; an app that is down is started again;
\* every chat ends (requests, tools and whole runs have deadlines).
FairSpec ==
  /\ Spec
  /\ SF_vars(Pump)
  /\ WF_vars(Startup)
  /\ \A r \in Runs : WF_vars(ChatStep(r))
  /\ \A x \in Executors : WF_vars(ExecutorStep(x))
  /\ \A e \in Events : SF_vars(DispatchStep(e))

-----------------------------------------------------------------------------
(***************************************************************************)
(* Properties.                                                             *)
(***************************************************************************)

\* A slot the user withdrew (by editing, disabling or deleting its schedule)
\* never becomes a run, even when the pump had already reserved and launched
\* it; and no withdrawal hits a slot whose run exists.
WithdrawnNeverRuns == \A e \in Events : outbox[e] = "withdrawn" => run[e] = "none"

\* The pump never has two scheduled runs of one conversation under way,
\* across launches, withdrawals, crashes and recoveries.
OneScheduledRun ==
  \A e, f \in Events :
    run[e] = "active" /\ run[f] = "active" /\ Conv(e) = Conv(f) => e = f

\* A slot is acknowledged without an error only when its run completed.
DeliveredIsCompleted ==
  \A e \in Events : outbox[e] = "delivered" => run[e] = "completed"

\* Without a crash, and with at most one storage fault, a scheduled run that
\* is still active has an executor: dispatch_event repeats the write that
\* mark_agent_run_failed may have missed, so the run does not block its
\* conversation.
ScheduledRunAttended ==
  crashes = 0 /\ faults <= 1 =>
    \A e \in Events : run[e] = "active" => Attended(e)

\* A terminal run never changes again, and an acknowledged slot stays as it
\* was acknowledged, whoever still holds a stale view of them.
EndsAreFinal ==
  [][/\ \A r \in Runs : run[r] \in Terminal => run'[r] = run[r]
     /\ \A e \in Events : outbox[e] \notin {"absent", "pending"} => outbox'[e] = outbox[e]
    ]_vars

\* An event launched by the pump that will still create its run.
Starting(e) == exec[Chat(e)] = "spawned" /\ outbox[e] = "pending"
Claiming(e) == run[e] = "active" \/ Starting(e)

\* A run id is reserved before it is dispatched, and only for an event.
ReservedFirst ==
  \A e \in Events :
    /\ exec[Chat(e)] # "idle" \/ run[e] # "none" => e \in reserved
    /\ e \in reserved => outbox[e] # "absent"

\* busy_sessions covers every launched event that will still create a run,
\* from the moment the pending rows are listed; a picked event found its
\* conversation free and it still is.
PumpCovers ==
  /\ pump = "listed" => \A e \in Events : Starting(e) => e \in todo
  /\ pump \in {"loop", "reserve"} => \A e \in Events : Starting(e) => Conv(e) \in busy
  /\ \A e \in picked :
       /\ Conv(e) \notin busy
       /\ \A f \in Events : Conv(f) = Conv(e) => run[f] # "active"
  /\ picked # {} => pump = "reserve"

OneClaim ==
  \A e, f \in Events : Claiming(e) /\ Claiming(f) /\ Conv(e) = Conv(f) => e = f

\* What makes WithdrawnNeverRuns, DeliveredIsCompleted and OneScheduledRun
\* inductive.
CronInv ==
  /\ TypeOK
  /\ ReservedFirst
  /\ PumpCovers
  /\ OneClaim
  /\ WithdrawnNeverRuns
  /\ DeliveredIsCompleted

\* Every slot that came due is acknowledged in the end: it ran, failed or was
\* withdrawn, and does not wait for ever behind its conversation.
EventSettles == \A e \in Events : outbox[e] = "pending" ~> outbox[e] # "pending"

=============================================================================
