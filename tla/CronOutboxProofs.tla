-------------------------- MODULE CronOutboxProofs ---------------------------
(***************************************************************************)
(* Proofs about CronOutbox, for any number of schedules, slots, user runs  *)
(* and conversations: a withdrawn slot never runs, a delivered slot was    *)
(* completed, one conversation has one scheduled run, ends are final, and  *)
(* an active run has an executor that will end it.                         *)
(*                                                                         *)
(* Most actions are quiet for the invariant CronInv: they acknowledge      *)
(* rows, end runs or move executors on, but create nothing.  QuietStep     *)
(* treats them together; the six that create something (tick, pending,     *)
(* PumpBusy, PumpPick, reserve_run, prepare_chat) have a lemma each.       *)
(***************************************************************************)
EXTENDS CronOutbox, TLAPS

\* Events and user runs are different runs, and each has a conversation.
LEMMA RunFacts ==
  /\ Events \subseteq Runs
  /\ UserRuns \subseteq Runs
  /\ \A r \in Runs : Chat(r) \in Executors /\ Resume(r) \in Executors
  /\ \A e \in Events : e \notin UserRuns /\ e[1] \in Jobs /\ e[2] \in Slots
  /\ \A r \in Runs : Conv(r) \in Conversations
  /\ \A x \in Executors : RunOf(x) \in Runs
BY CronAssumption, UserRunsAssumption
   DEF Runs, Events, Executors, Kinds, Chat, Resume, Conv, RunOf, Slots

LEMMA TypeInit == Init => TypeOK
BY CronAssumption
   DEF Init, TypeOK, OutboxStates, RunStates, Terminal, ExecStates, PumpStates,
       NoJob, JobRows

\* save, delete and set_enabled keep the types.
LEMMA ScheduleTypes ==
  ASSUME TypeOK, NEW j \in Jobs, NEW enabled \in BOOLEAN, NEW now \in Readings,
         save(j, enabled, now) \/ set_enabled(j, enabled, now) \/ delete(j)
  PROVE  TypeOK'
<1>1. Schedule(enabled, now) \in JobRows
  BY CronAssumption DEF Schedule, JobRows, Readings, next_after
<1>3. [saved |-> "deleted", enabled |-> FALSE, next |-> 0] \in JobRows
  BY CronAssumption DEF JobRows
<1>2. cancel_unstarted(j) \in [Events -> OutboxStates]
  BY DEF TypeOK, cancel_unstarted, OutboxStates
<1> QED
  BY <1>1, <1>2, <1>3 DEF TypeOK, save, set_enabled, delete, pumpVars

LEMMA PumpTypes ==
  ASSUME TypeOK, Pump PROVE TypeOK'
<1>1. CASE \E now \in Readings : tick(now)
  <2>1. PICK now \in Readings : tick(now)
    BY <1>1
  <2>3. job' \in [Jobs -> JobRows]
    <3>1. \A j \in Jobs : Schedule(j \in Recurring, now) \in JobRows
      BY CronAssumption DEF Schedule, JobRows, Readings, next_after
    <3> QED
      BY <2>1, <3>1 DEF tick, TypeOK
  <2>4. outbox' \in [Events -> OutboxStates]
    <3>1. \A e \in Events : outbox'[e] = "pending" \/ outbox'[e] = outbox[e]
      BY <2>1 DEF tick
    <3> QED
      BY <2>1, <3>1 DEF tick, TypeOK, OutboxStates
  <2> QED
    BY <2>1, <2>3, <2>4 DEF tick, TypeOK, PumpStates
<1>2. CASE pending
  BY <1>2, RunFacts DEF pending, TypeOK, PumpStates, tables
<1>3. CASE PumpBusy
  BY <1>3, RunFacts DEF PumpBusy, TypeOK, PumpStates, tables
<1>4. CASE PumpDone \/ ReserveRefused
  BY <1>4 DEF PumpDone, ReserveRefused, EndPass, TypeOK, PumpStates, tables
<1>5. CASE \E e \in Events : PumpRecorded(e) \/ PumpSkip(e)
  BY <1>5 DEF PumpRecorded, PumpSkip, Acknowledge, TypeOK, OutboxStates
<1>6. CASE \E e \in Events : PumpPick(e) \/ reserve_run(e)
  BY <1>6, RunFacts DEF PumpPick, reserve_run, TypeOK, PumpStates, ExecStates, tables
<1> QED
  BY <1>1, <1>2, <1>3, <1>4, <1>5, <1>6 DEF Pump

\* AgentRecoveryService::fail keeps the types.
LEMMA FailTypes ==
  ASSUME TypeOK, NEW r \in Runs, fail(r)
  PROVE  run' \in [Runs -> RunStates] /\ faults' \in 0..MaxFaults
BY CronAssumption DEF fail, Failed, Fault, TypeOK, RunStates, Terminal

LEMMA ExecutorTypes ==
  ASSUME TypeOK, NEW x \in Executors, ExecutorStep(x) \/ TurnLeaks(x)
  PROVE  TypeOK'
<1>0. RunOf(x) \in Runs
  BY RunFacts
<1>1. CASE begin_turn(x) \/ BeginFails(x)
  BY <1>0, <1>1 DEF begin_turn, BeginFails, SetExec, TypeOK, ExecStates, tables, pumpVars
<1>2. CASE \E outcome \in {"completed", "cancelled", "failed"} : LoopEnds(x, outcome)
  BY <1>0, <1>2 DEF LoopEnds, SetExec, TypeOK, ExecStates, RunStates, Terminal, pumpVars
<1>3. CASE \E result \in {"ok", "error"} : finish_turn(x, result)
  BY <1>3 DEF finish_turn, SetExec, TypeOK, ExecStates, tables, pumpVars
<1>4. CASE mark_agent_run_failed(x)
  BY <1>0, <1>4, FailTypes DEF mark_agent_run_failed, SetExec, TypeOK, ExecStates, pumpVars
<1>5. CASE Returns(x)
  BY <1>5 DEF Returns, SetExec, TypeOK, ExecStates, tables, pumpVars
<1>6. CASE x = Resume(RunOf(x)) /\ ResumeFails(RunOf(x))
  BY <1>0, <1>6, FailTypes DEF ResumeFails, SetExec, TypeOK, ExecStates, pumpVars
<1>7. CASE TurnLeaks(x)
  BY <1>7, CronAssumption DEF TurnLeaks, Fault, SetExec, TypeOK, ExecStates, tables, pumpVars
<1> QED
  BY <1>1, <1>2, <1>3, <1>4, <1>5, <1>6, <1>7 DEF ExecutorStep

LEMMA DispatchTypes ==
  ASSUME TypeOK, NEW e \in Events, DispatchStep(e) \/ DispatchFault(e)
  PROVE  TypeOK'
<1>0. e \in Runs /\ Chat(e) \in Executors
  BY RunFacts
<1>1. CASE dispatch_event(e)
  <2>1. CASE Delivered(e)
    BY <1>0, <1>1, <2>1
       DEF dispatch_event, Acknowledge, SetExec, TypeOK, ExecStates, OutboxStates, pumpVars
  <2>2. CASE ~Delivered(e)
    BY <1>0, <1>1, <2>2, FailTypes
       DEF dispatch_event, SetExec, TypeOK, ExecStates, pumpVars
  <2> QED
    BY <2>1, <2>2
<1>2. CASE record_error(e)
  BY <1>0, <1>2, CronAssumption
     DEF record_error, Fault, Acknowledge, SetExec, TypeOK, ExecStates, OutboxStates, pumpVars
<1>3. CASE DispatchGuardDrops(e)
  BY <1>0, <1>3 DEF DispatchGuardDrops, SetExec, TypeOK, ExecStates, tables, pumpVars
<1>4. CASE DispatchFault(e)
  BY <1>0, <1>4, CronAssumption
     DEF DispatchFault, Fault, SetExec, TypeOK, ExecStates, tables, pumpVars
<1> QED
  BY <1>1, <1>2, <1>3, <1>4 DEF DispatchStep

LEMMA RunTypes ==
  ASSUME TypeOK, NEW r \in Runs,
         \/ ChatStep(r) \/ UserSends(r) \/ ResumeGivesUp(r) \/ cancel_agent_run(r)
         \/ recover_agent_runs(r) \/ InitRecovers(r)
  PROVE  TypeOK'
<1>0. Chat(r) \in Executors /\ Resume(r) \in Executors
  BY RunFacts
<1>1. CASE ChatStep(r) \/ UserSends(r) \/ ResumeGivesUp(r)
  BY <1>0, <1>1
     DEF ChatStep, prepare_chat, PrepareFails, UserSends, ResumeGivesUp, SetExec, TypeOK,
         ExecStates, RunStates, tables, pumpVars
<1>2. CASE cancel_agent_run(r)
  BY <1>2 DEF cancel_agent_run, TypeOK, RunStates, Terminal, pumpVars
<1>3. CASE recover_agent_runs(r) \/ InitRecovers(r)
  BY <1>0, <1>3
     DEF recover_agent_runs, InitRecovers, RecoverInterrupts, RecoverResumes, TypeOK,
         ExecStates, RunStates, Terminal, pumpVars
<1> QED
  BY <1>1, <1>2, <1>3

\* Start-up, restore, archiving, pump faults and crashes keep the types.
LEMMA OtherTypes ==
  ASSUME TypeOK,
         \/ db_init \/ InitConflicts \/ start \/ pause_for_restore \/ PumpFault \/ Crash
         \/ \E c \in Conversations : ArchiveConversation(c) \/ RestoreConversation(c)
  PROVE  TypeOK'
<1>1. CASE db_init \/ InitConflicts \/ start \/ pause_for_restore
  BY <1>1 DEF db_init, InitConflicts, start, pause_for_restore, TypeOK, PumpStates, tables
<1>2. CASE PumpFault
  BY <1>2, CronAssumption DEF PumpFault, Fault, EndPass, TypeOK, PumpStates, tables
<1>3. CASE Crash
  BY <1>3, CronAssumption DEF Crash, TypeOK, PumpStates, ExecStates, tables
<1>4. CASE \E c \in Conversations : ArchiveConversation(c) \/ RestoreConversation(c)
  BY <1>4 DEF ArchiveConversation, RestoreConversation, TypeOK, pumpVars
<1> QED
  BY <1>1, <1>2, <1>3, <1>4

LEMMA TypeStep == TypeOK /\ [Next]_vars => TypeOK'
<1> SUFFICES ASSUME TypeOK, [Next]_vars PROVE TypeOK'
  OBVIOUS
<1>1. CASE Pump
  BY <1>1, PumpTypes
<1>2. CASE Startup
  BY <1>2, RunTypes, OtherTypes DEF Startup
<1>3. CASE \E x \in Executors : ExecutorStep(x)
  BY <1>3, ExecutorTypes
<1>4. CASE \E e \in Events : DispatchStep(e)
  BY <1>4, DispatchTypes
<1>5. CASE \E r \in Runs : ChatStep(r)
  BY <1>5, RunTypes
<1>6. CASE User
  <2>1. ASSUME NEW j \in Jobs, delete(j) PROVE TypeOK'
    BY <2>1, ScheduleTypes, CronAssumption, TRUE \in BOOLEAN, 0 \in Readings DEF Readings
  <2> QED
    BY <1>6, <2>1, RunFacts, RunTypes, OtherTypes, ScheduleTypes DEF User
<1>7. CASE Environment
  BY <1>7, RunTypes, OtherTypes, DispatchTypes, ExecutorTypes DEF Environment
<1>8. CASE UNCHANGED vars
  BY <1>8 DEF vars, tables, pumpVars, TypeOK
<1> QED
  BY <1>1, <1>2, <1>3, <1>4, <1>5, <1>6, <1>7, <1>8 DEF Next

\* Every variable keeps its type in every reachable state.
THEOREM CronTypeCorrect == Spec => []TypeOK
BY TypeInit, TypeStep, PTL DEF Spec

-----------------------------------------------------------------------------
(***************************************************************************)
(* What a quiet step may do to the rows, runs and executors of events.     *)
(***************************************************************************)
QuietOutbox(e) ==
  \/ outbox'[e] = outbox[e]
  \/ /\ outbox[e] = "pending"
     /\ \/ outbox'[e] = "error"
        \/ outbox'[e] = "delivered" /\ run'[e] = "completed"
        \/ outbox'[e] = "withdrawn" /\ run[e] = "none"

QuietRun(e) == run'[e] = run[e] \/ (run[e] = "active" /\ run'[e] \in Terminal)

QuietExec(e) ==
  \/ exec'[Chat(e)] = exec[Chat(e)]
  \/ /\ exec'[Chat(e)] # "spawned"
     /\ exec'[Chat(e)] = "idle" \/ exec[Chat(e)] # "idle"

QuietPump ==
  \/ /\ pump' = pump /\ busy' = busy /\ picked' = picked
     /\ todo' = todo \/ pump # "listed"
  \/ picked' = {} /\ pump' \notin {"listed", "loop", "reserve"}

Quiet ==
  /\ reserved' = reserved
  /\ \A e \in Events : QuietOutbox(e) /\ QuietRun(e) /\ QuietExec(e)
  /\ QuietPump

\* A quiet step preserves the invariant.
LEMMA QuietStep == CronInv /\ TypeOK' /\ Quiet => CronInv'
<1> SUFFICES ASSUME CronInv, TypeOK', Quiet PROVE CronInv'
  OBVIOUS
<1>1. \A e \in Events : /\ QuietOutbox(e) /\ QuietRun(e) /\ QuietExec(e)
  BY DEF Quiet
<1>2. \A e \in Events : Starting(e)' => Starting(e)
  BY <1>1 DEF QuietOutbox, QuietExec, Starting
<1>3. \A e \in Events : (run[e] = "active")' => run[e] = "active"
  BY <1>1 DEF QuietRun, Terminal
<1>4. ReservedFirst'
  BY <1>1 DEF CronInv, ReservedFirst, Quiet, QuietOutbox, QuietRun, QuietExec
<1>5. PumpCovers'
  BY <1>2, <1>3 DEF CronInv, PumpCovers, Quiet, QuietPump
<1>6. OneClaim'
  BY <1>2, <1>3 DEF CronInv, OneClaim, Claiming
<1>7. WithdrawnNeverRuns' /\ DeliveredIsCompleted'
  BY <1>1 DEF CronInv, WithdrawnNeverRuns, DeliveredIsCompleted, QuietOutbox, QuietRun,
              Terminal
<1> QED
  BY <1>4, <1>5, <1>6, <1>7 DEF CronInv

\* The chats of different runs are different executors, and no resumption.
LEMMA ChatFacts ==
  /\ \A r, s \in Runs : (Chat(r) = Chat(s) => r = s) /\ Chat(r) # Resume(s)
  /\ \A x \in Executors : x = Chat(RunOf(x)) \/ x = Resume(RunOf(x))
BY DEF Chat, Resume, RunOf, Executors, Kinds

\* Moving one executor on, unless it is launched, is quiet.
LEMMA ExecMoves ==
  ASSUME TypeOK, NEW x \in Executors, NEW s, SetExec(x, s), s # "spawned",
         s = "idle" \/ exec[x] # "idle"
  PROVE  \A e \in Events : QuietExec(e)
BY RunFacts DEF SetExec, QuietExec, TypeOK

\* AgentRecoveryService::fail is quiet.
LEMMA FailQuiet ==
  ASSUME TypeOK, NEW r \in Runs, fail(r)
  PROVE  \A e \in Events : QuietRun(e)
BY RunFacts DEF fail, Failed, QuietRun, TypeOK, Terminal

\* Acknowledging an event with an error, or as delivered once its run has
\* completed, is quiet.
LEMMA AcknowledgeQuiet ==
  ASSUME TypeOK, NEW e \in Events, NEW how, Acknowledge(e, how),
         how = "error" \/ (how = "delivered" /\ run'[e] = "completed")
  PROVE  \A f \in Events : QuietOutbox(f)
BY DEF Acknowledge, QuietOutbox, TypeOK

-----------------------------------------------------------------------------
(***************************************************************************)
(* The quiet actions.                                                      *)
(***************************************************************************)
\* Steps of executors.
LEMMA ExecutorQuiet ==
  ASSUME CronInv, NEW x \in Executors, ExecutorStep(x) \/ TurnLeaks(x)
  PROVE  Quiet
<1> USE DEF CronInv
<1>0. RunOf(x) \in Runs
  BY RunFacts
<1>1. CASE begin_turn(x) \/ BeginFails(x) \/ TurnLeaks(x)
  <2>1. \A e \in Events : QuietExec(e)
    BY <1>1, ExecMoves DEF begin_turn, BeginFails, TurnLeaks
  <2> QED
    BY <1>1, <2>1 DEF begin_turn, BeginFails, TurnLeaks, Quiet, QuietOutbox, QuietRun,
                      QuietPump, tables, pumpVars
<1>2. CASE \E outcome \in {"completed", "cancelled", "failed"} : LoopEnds(x, outcome)
  <2>1. \A e \in Events : QuietExec(e)
    BY <1>2, ExecMoves DEF LoopEnds
  <2>2. \A e \in Events : QuietRun(e)
    BY <1>0, <1>2, RunFacts DEF LoopEnds, QuietRun, TypeOK, Terminal
  <2> QED
    BY <1>2, <2>1, <2>2 DEF LoopEnds, Quiet, QuietOutbox, QuietPump, pumpVars
<1>3. CASE \E result \in {"ok", "error"} : finish_turn(x, result)
  <2>1. \A e \in Events : QuietExec(e)
    BY <1>3, ExecMoves DEF finish_turn
  <2> QED
    BY <1>3, <2>1 DEF finish_turn, Quiet, QuietOutbox, QuietRun, QuietPump, tables, pumpVars
<1>4. CASE mark_agent_run_failed(x)
  <2>1. \A e \in Events : QuietExec(e) /\ QuietRun(e)
    BY <1>0, <1>4, ExecMoves, FailQuiet DEF mark_agent_run_failed
  <2> QED
    BY <1>4, <2>1 DEF mark_agent_run_failed, Quiet, QuietOutbox, QuietPump, pumpVars
<1>5. CASE Returns(x)
  <2>1. \A e \in Events : QuietExec(e)
    BY <1>5, ExecMoves DEF Returns
  <2> QED
    BY <1>5, <2>1 DEF Returns, Quiet, QuietOutbox, QuietRun, QuietPump, tables, pumpVars
<1>6. CASE x = Resume(RunOf(x)) /\ ResumeFails(RunOf(x))
  <2>1. \A e \in Events : QuietExec(e) /\ QuietRun(e)
    BY <1>0, <1>6, ExecMoves, FailQuiet DEF ResumeFails
  <2> QED
    BY <1>6, <2>1 DEF ResumeFails, Quiet, QuietOutbox, QuietPump, pumpVars
<1> QED
  BY <1>1, <1>2, <1>3, <1>4, <1>5, <1>6 DEF ExecutorStep

\* Steps of a dispatch task.
LEMMA DispatchQuiet ==
  ASSUME CronInv, NEW e \in Events, DispatchStep(e) \/ DispatchFault(e)
  PROVE  Quiet
<1> USE DEF CronInv
<1>0. e \in Runs /\ Chat(e) \in Executors
  BY RunFacts
<1>1. CASE dispatch_event(e)
  <2>1. \A f \in Events : QuietExec(f)
    BY <1>0, <1>1, ExecMoves DEF dispatch_event
  <2>2. CASE Delivered(e)
    <3>1. \A f \in Events : QuietOutbox(f)
      BY <1>1, <2>2, AcknowledgeQuiet DEF dispatch_event, Delivered
    <3> QED
      BY <1>1, <2>1, <2>2, <3>1 DEF dispatch_event, Quiet, QuietRun, QuietPump, pumpVars
  <2>3. CASE ~Delivered(e)
    <3>1. \A f \in Events : QuietRun(f)
      BY <1>0, <1>1, <2>3, FailQuiet DEF dispatch_event
    <3> QED
      BY <1>1, <2>1, <2>3, <3>1 DEF dispatch_event, Quiet, QuietOutbox, QuietPump, pumpVars
  <2> QED
    BY <2>2, <2>3
<1>2. CASE record_error(e)
  <2>1. \A f \in Events : QuietExec(f)
    BY <1>0, <1>2, ExecMoves DEF record_error
  <2>2. \A f \in Events : QuietOutbox(f)
    BY <1>2, AcknowledgeQuiet DEF record_error, QuietOutbox
  <2> QED
    BY <1>2, <2>1, <2>2 DEF record_error, Quiet, QuietRun, QuietPump, pumpVars
<1>3. CASE DispatchGuardDrops(e) \/ DispatchFault(e)
  <2>1. \A f \in Events : QuietExec(f)
    BY <1>0, <1>3, ExecMoves DEF DispatchGuardDrops, DispatchFault
  <2> QED
    BY <1>3, <2>1 DEF DispatchGuardDrops, DispatchFault, Quiet, QuietOutbox, QuietRun,
                      QuietPump, tables, pumpVars
<1> QED
  BY <1>1, <1>2, <1>3 DEF DispatchStep

\* A withdrawal only hits rows without a run: a row that is not reserved has
\* none (ReservedFirst).
LEMMA ScheduleQuiet ==
  ASSUME CronInv, NEW j \in Jobs, NEW enabled \in BOOLEAN, NEW now \in Readings,
         save(j, enabled, now) \/ set_enabled(j, enabled, now) \/ delete(j)
  PROVE  Quiet
<1>1. outbox' = cancel_unstarted(j) \/ outbox' = outbox
  BY DEF save, set_enabled, delete
<1>2. \A e \in Events : QuietOutbox(e)
  BY <1>1 DEF cancel_unstarted, QuietOutbox, CronInv, ReservedFirst
<1> QED
  BY <1>2 DEF save, set_enabled, delete, Quiet, QuietRun, QuietExec, QuietPump, pumpVars

\* What the pump does to rows it does not start.
LEMMA PumpQuiet ==
  ASSUME CronInv,
         \/ PumpDone \/ ReserveRefused \/ PumpFault
         \/ \E e \in Events : PumpRecorded(e) \/ PumpSkip(e)
  PROVE  Quiet
<1>1. CASE PumpDone \/ ReserveRefused \/ PumpFault
  BY <1>1 DEF PumpDone, ReserveRefused, PumpFault, EndPass, Quiet, QuietOutbox, QuietRun,
              QuietExec, QuietPump, tables
<1>2. CASE \E e \in Events : PumpRecorded(e) \/ PumpSkip(e)
  <2>1. PICK e \in Events : PumpRecorded(e) \/ PumpSkip(e)
    BY <1>2
  <2>2. \A f \in Events : QuietOutbox(f)
    BY <2>1, AcknowledgeQuiet DEF PumpRecorded, PumpSkip, QuietOutbox, CronInv
  <2> QED
    BY <2>1, <2>2 DEF PumpRecorded, PumpSkip, NextPending, Quiet, QuietRun, QuietExec,
                      QuietPump
<1> QED
  BY <1>1, <1>2

\* Recovery, cancellation, and the chats and resumptions that come to nothing.
LEMMA RunQuiet ==
  ASSUME CronInv, NEW r \in Runs,
         \/ PrepareFails(r) \/ ResumeGivesUp(r) \/ cancel_agent_run(r)
         \/ recover_agent_runs(r) \/ InitRecovers(r)
         \/ r \in UserRuns /\ (UserSends(r) \/ prepare_chat(r))
  PROVE  Quiet
<1> USE DEF CronInv
<1>0. Chat(r) \in Executors /\ Resume(r) \in Executors
  BY RunFacts
<1>1. CASE PrepareFails(r) \/ ResumeGivesUp(r)
  <2>1. \A e \in Events : QuietExec(e)
    BY <1>0, <1>1, ExecMoves DEF PrepareFails, ResumeGivesUp
  <2> QED
    BY <1>1, <2>1 DEF PrepareFails, ResumeGivesUp, Quiet, QuietOutbox, QuietRun, QuietPump,
                      tables, pumpVars
<1>2. CASE cancel_agent_run(r)
  BY <1>2, RunFacts DEF cancel_agent_run, TypeOK, Quiet, QuietOutbox, QuietRun, QuietExec,
                        QuietPump, Terminal, pumpVars
<1>3. CASE recover_agent_runs(r) \/ InitRecovers(r)
  <2>1. \A e \in Events : QuietExec(e) /\ QuietRun(e)
    BY <1>0, <1>3, RunFacts, ChatFacts
       DEF recover_agent_runs, InitRecovers, RecoverInterrupts, RecoverResumes, QuietExec,
           QuietRun, TypeOK, Terminal
  <2> QED
    BY <1>3, <2>1 DEF recover_agent_runs, InitRecovers, Quiet, QuietOutbox, QuietPump, pumpVars
<1>4. CASE r \in UserRuns /\ (UserSends(r) \/ prepare_chat(r))
  <2>1. \A e \in Events : exec'[Chat(e)] = exec[Chat(e)] /\ run'[e] = run[e]
    BY <1>0, <1>4, RunFacts, ChatFacts DEF UserSends, prepare_chat, SetExec, TypeOK, tables
  <2> QED
    BY <1>4, <2>1 DEF UserSends, prepare_chat, Quiet, QuietOutbox, QuietRun, QuietExec,
                      QuietPump, tables, pumpVars
<1> QED
  BY <1>1, <1>2, <1>3, <1>4

\* Start-up, restore, archiving and crashes; no event is picked outside
\* "reserve".
LEMMA OtherQuiet ==
  ASSUME CronInv,
         \/ db_init \/ InitConflicts \/ start \/ pause_for_restore \/ Crash
         \/ \E c \in Conversations : ArchiveConversation(c) \/ RestoreConversation(c)
         \/ UNCHANGED vars
  PROVE  Quiet
<1>1. CASE db_init \/ InitConflicts \/ start \/ pause_for_restore
  BY <1>1 DEF db_init, InitConflicts, start, pause_for_restore, CronInv, PumpCovers, Quiet,
              QuietOutbox, QuietRun, QuietExec, QuietPump, tables
<1>2. CASE Crash
  BY <1>2, RunFacts DEF Crash, Quiet, QuietOutbox, QuietRun, QuietExec, QuietPump, tables
<1>3. CASE \/ \E c \in Conversations : ArchiveConversation(c) \/ RestoreConversation(c)
           \/ UNCHANGED vars
  BY <1>3 DEF ArchiveConversation, RestoreConversation, Quiet, QuietOutbox, QuietRun,
              QuietExec, QuietPump, vars, tables, pumpVars
<1> QED
  BY <1>1, <1>2, <1>3

-----------------------------------------------------------------------------
(***************************************************************************)
(* The actions that create something.                                      *)
(***************************************************************************)
\* A row that becomes pending was never reserved, so no executor waits for it.
LEMMA TickStep ==
  ASSUME CronInv, TypeOK', NEW now \in Readings, tick(now)
  PROVE  CronInv'
<1>1. \A e \in Events : outbox'[e] = outbox[e]
                        \/ (outbox[e] = "absent" /\ outbox'[e] = "pending")
  BY DEF tick
<1>2. \A e \in Events : Starting(e)' => Starting(e)
  BY <1>1 DEF tick, Starting, CronInv, ReservedFirst
<1>3. ReservedFirst'
  BY <1>1 DEF tick, CronInv, ReservedFirst
<1>4. PumpCovers'
  BY DEF tick, CronInv, PumpCovers
<1>5. OneClaim'
  BY <1>2 DEF tick, CronInv, OneClaim, Claiming
<1>6. WithdrawnNeverRuns' /\ DeliveredIsCompleted'
  BY <1>1 DEF tick, CronInv, WithdrawnNeverRuns, DeliveredIsCompleted
<1> QED
  BY <1>3, <1>4, <1>5, <1>6 DEF CronInv

\* The listing covers what was launched, busy_sessions covers the listing, and
\* a picked event found its conversation free.
LEMMA ListStep ==
  ASSUME CronInv, TypeOK', pending \/ PumpBusy \/ (\E e \in Events : PumpPick(e))
  PROVE  CronInv'
<1>1. UNCHANGED <<outbox, reserved, run, exec>>
  BY DEF pending, PumpBusy, PumpPick, tables
<1>2. \A e \in Events : Starting(e)' = Starting(e)
  BY <1>1 DEF Starting
<1>3. PumpCovers'
  <2>1. CASE pending
    BY <1>1, <2>1 DEF pending, CronInv, PumpCovers, Starting
  <2>2. CASE PumpBusy
    <3>1. \A e \in Events : Starting(e) => e \in todo \cap InFlight
      BY <2>2 DEF PumpBusy, CronInv, PumpCovers, Starting, InFlight
    <3> QED
      BY <1>2, <2>2, <3>1 DEF PumpBusy, CronInv, PumpCovers
  <2>3. CASE \E e \in Events : PumpPick(e)
    <3>1. PICK e \in Events : PumpPick(e)
      BY <2>3
    <3>2. \A f \in Events : Conv(f) = Conv(e) => run'[f] # "active"
      BY <1>1, <3>1, RunFacts DEF PumpPick, conversation_busy
    <3> QED
      BY <1>2, <3>1, <3>2 DEF PumpPick, NextPending, CronInv, PumpCovers
  <2> QED
    BY <2>1, <2>2, <2>3
<1>4. ReservedFirst' /\ OneClaim' /\ WithdrawnNeverRuns' /\ DeliveredIsCompleted'
  BY <1>1, <1>2 DEF CronInv, ReservedFirst, OneClaim, Claiming, WithdrawnNeverRuns,
                    DeliveredIsCompleted
<1> QED
  BY <1>3, <1>4 DEF CronInv

\* The launched event joins busy_sessions; its conversation had no claim.
LEMMA ReserveStep ==
  ASSUME CronInv, TypeOK', NEW e \in Events, reserve_run(e)
  PROVE  CronInv'
<1>1. \A f \in Events : f # e => exec'[Chat(f)] = exec[Chat(f)]
  BY RunFacts, ChatFacts DEF reserve_run, CronInv, TypeOK
<1>2. \A f \in Events : f # e => Starting(f)' = Starting(f)
  BY <1>1 DEF reserve_run, Starting
<1>3. \A f \in Events : Conv(f) = Conv(e) => ~Claiming(f)
  BY DEF reserve_run, CronInv, PumpCovers, Claiming
<1>4. ReservedFirst'
  BY <1>1 DEF reserve_run, CronInv, ReservedFirst
<1>5. PumpCovers'
  BY <1>2 DEF reserve_run, CronInv, PumpCovers
<1>6. OneClaim'
  BY <1>2, <1>3 DEF reserve_run, CronInv, OneClaim, Claiming
<1>7. WithdrawnNeverRuns' /\ DeliveredIsCompleted'
  BY DEF reserve_run, CronInv, WithdrawnNeverRuns, DeliveredIsCompleted
<1> QED
  BY <1>4, <1>5, <1>6, <1>7 DEF CronInv

\* A launched event is reserved, so prepare_chat has seen that its row is still
\* pending: the run is created for an event that claimed the conversation.
LEMMA PrepareStep ==
  ASSUME CronInv, TypeOK', NEW e \in Events, prepare_chat(e)
  PROVE  CronInv'
<1>1. \A f \in Events : f # e => exec'[Chat(f)] = exec[Chat(f)] /\ run'[f] = run[f]
  BY RunFacts, ChatFacts DEF prepare_chat, SetExec, CronInv, TypeOK
<1>2. exec'[Chat(e)] = "created" /\ run'[e] = "active"
  BY RunFacts DEF prepare_chat, SetExec, CronInv, TypeOK
<1>3. e \in reserved /\ outbox[e] = "pending" /\ Starting(e)
  BY DEF prepare_chat, PrepareOk, CronInv, ReservedFirst, Starting
<1>4. \A f \in Events : Starting(f)' => Starting(f)
  BY <1>1, <1>2 DEF prepare_chat, Starting
<1>5. \A f \in Events : Claiming(f)' => Claiming(f)
  BY <1>1, <1>3, <1>4 DEF prepare_chat, Claiming
<1>6. ReservedFirst'
  BY <1>1, <1>3 DEF prepare_chat, CronInv, ReservedFirst
<1>7. PumpCovers'
  <2>1. \A f \in picked : Conv(f) # Conv(e)
    BY <1>3 DEF CronInv, PumpCovers
  <2> QED
    BY <1>1, <1>4, <2>1 DEF prepare_chat, pumpVars, CronInv, PumpCovers
<1>8. OneClaim'
  BY <1>5 DEF CronInv, OneClaim
<1>9. WithdrawnNeverRuns' /\ DeliveredIsCompleted'
  BY <1>1, <1>3 DEF prepare_chat, CronInv, WithdrawnNeverRuns, DeliveredIsCompleted
<1> QED
  BY <1>6, <1>7, <1>8, <1>9 DEF CronInv

LEMMA CronInit == Init => CronInv
<1> SUFFICES ASSUME Init PROVE CronInv
  OBVIOUS
<1>1. \A e \in Events : /\ exec[Chat(e)] = "idle" /\ run[e] = "none"
                        /\ outbox[e] = "absent"
  BY RunFacts DEF Init
<1> QED
  BY <1>1, TypeInit DEF Init, CronInv, ReservedFirst, PumpCovers, OneClaim, Claiming,
     Starting, WithdrawnNeverRuns, DeliveredIsCompleted

\* A step is quiet or one of the six that create something.
LEMMA StepKinds ==
  ASSUME CronInv, [Next]_vars
  PROVE  \/ Quiet
         \/ \E now \in Readings : tick(now)
         \/ pending \/ PumpBusy
         \/ \E e \in Events : PumpPick(e) \/ reserve_run(e) \/ prepare_chat(e)
<1>1. CASE Pump
  BY <1>1, PumpQuiet DEF Pump
<1>2. CASE Startup
  BY <1>2, RunQuiet, OtherQuiet DEF Startup
<1>3. CASE \E x \in Executors : ExecutorStep(x)
  BY <1>3, ExecutorQuiet
<1>4. CASE \E e \in Events : DispatchStep(e)
  BY <1>4, DispatchQuiet
<1>5. CASE \E r \in Runs : ChatStep(r)
  BY <1>5, RunQuiet DEF ChatStep, Runs
<1>6. CASE User
  <2>1. ASSUME NEW j \in Jobs, delete(j) PROVE Quiet
    BY <2>1, ScheduleQuiet, CronAssumption, TRUE \in BOOLEAN, 0 \in Readings DEF Readings
  <2> QED
    BY <1>6, <2>1, RunFacts, RunQuiet, OtherQuiet, ScheduleQuiet DEF User
<1>7. CASE Environment
  BY <1>7, RunQuiet, OtherQuiet, PumpQuiet, DispatchQuiet, ExecutorQuiet DEF Environment
<1>8. CASE UNCHANGED vars
  BY <1>8, OtherQuiet
<1> QED
  BY <1>1, <1>2, <1>3, <1>4, <1>5, <1>6, <1>7, <1>8 DEF Next

LEMMA CronStep == CronInv /\ [Next]_vars => CronInv'
<1> SUFFICES ASSUME CronInv, [Next]_vars PROVE CronInv'
  OBVIOUS
<1>1. TypeOK'
  BY TypeStep DEF CronInv
<1> QED
  BY <1>1, StepKinds, QuietStep, TickStep, ListStep, ReserveStep, PrepareStep

\* CronInv holds in every reachable state.
THEOREM CronInvariant == Spec => []CronInv
BY CronInit, CronStep, PTL DEF Spec

\* A slot withdrawn by an edit, a disable or a delete of its schedule never
\* becomes a run, at whatever point of its launch the withdrawal arrives.
THEOREM WithdrawnSlotsNeverRun == Spec => []WithdrawnNeverRuns
<1>1. CronInv => WithdrawnNeverRuns
  BY DEF CronInv
<1> QED
  BY <1>1, CronInvariant, PTL

\* An acknowledgement without an error stands for a completed run.
THEOREM DeliveredRunsCompleted == Spec => []DeliveredIsCompleted
<1>1. CronInv => DeliveredIsCompleted
  BY DEF CronInv
<1> QED
  BY <1>1, CronInvariant, PTL

\* Two scheduled runs of one conversation are never active together.
THEOREM OneScheduledRunAtATime == Spec => []OneScheduledRun
<1>1. CronInv => OneScheduledRun
  BY DEF CronInv, OneClaim, Claiming, OneScheduledRun
<1> QED
  BY <1>1, CronInvariant, PTL

\* Nobody writes a run that is terminal.
LEMMA RunsFinal ==
  ASSUME TypeOK, [Next]_vars, NEW r \in Runs, run[r] \in Terminal
  PROVE  run'[r] = run[r]
<1> USE DEF Terminal
<1>0. ASSUME NEW s \in Runs, fail(s) PROVE run'[r] = run[r]
  BY <1>0 DEF fail, Failed, TypeOK
<1>1. CASE Pump
  BY <1>1 DEF Pump, tick, pending, PumpBusy, PumpDone, ReserveRefused, EndPass, PumpRecorded,
              PumpSkip, PumpPick, reserve_run, tables
<1>2. CASE Startup
  BY <1>2 DEF Startup, db_init, InitConflicts, start, InitRecovers, RecoverInterrupts,
              RecoverResumes, TypeOK, tables
<1>3. CASE \E x \in Executors : ExecutorStep(x)
  <2>1. PICK x \in Executors : ExecutorStep(x)
    BY <1>3
  <2>2. RunOf(x) \in Runs
    BY RunFacts
  <2>3. CASE mark_agent_run_failed(x) \/ ResumeFails(RunOf(x))
    BY <1>0, <2>2, <2>3 DEF mark_agent_run_failed, ResumeFails
  <2>4. CASE \E outcome \in {"completed", "cancelled", "failed"} : LoopEnds(x, outcome)
    BY <2>2, <2>4 DEF LoopEnds, TypeOK
  <2> QED
    BY <2>1, <2>3, <2>4 DEF ExecutorStep, begin_turn, BeginFails, finish_turn, Returns, tables
<1>4. CASE \E e \in Events : DispatchStep(e)
  <2>1. PICK e \in Events : DispatchStep(e)
    BY <1>4
  <2>2. CASE dispatch_event(e)
    BY <1>0, <2>2, RunFacts DEF dispatch_event
  <2> QED
    BY <2>1, <2>2 DEF DispatchStep, record_error, DispatchGuardDrops, tables
<1>5. CASE \E s \in Runs : ChatStep(s)
  BY <1>5 DEF ChatStep, prepare_chat, PrepareOk, PrepareFails, TypeOK, tables
<1>6. CASE User
  BY <1>6 DEF User, save, set_enabled, delete, UserSends, cancel_agent_run,
              recover_agent_runs, RecoverInterrupts, RecoverResumes, ArchiveConversation,
              RestoreConversation, pause_for_restore, TypeOK, tables
<1>7. CASE Environment
  BY <1>7 DEF Environment, TurnLeaks, ResumeGivesUp, DispatchFault, PumpFault, EndPass, Crash,
              tables
<1>8. CASE UNCHANGED vars
  BY <1>8 DEF vars, tables
<1> QED
  BY <1>1, <1>2, <1>3, <1>4, <1>5, <1>6, <1>7, <1>8 DEF Next

\* Terminal runs and acknowledged slots never change again.
THEOREM EndsStayFinal == Spec => EndsAreFinal
<1>1. ASSUME CronInv, [Next]_vars
      PROVE  [/\ \A r \in Runs : run[r] \in Terminal => run'[r] = run[r]
              /\ \A e \in Events :
                   outbox[e] \notin {"absent", "pending"} => outbox'[e] = outbox[e]]_vars
  <2>1. \A r \in Runs : run[r] \in Terminal => run'[r] = run[r]
    BY <1>1, RunsFinal DEF CronInv
  <2>2. \A e \in Events : outbox[e] \notin {"absent", "pending"} => outbox'[e] = outbox[e]
    <3>1. CASE Quiet
      BY <3>1 DEF Quiet, QuietOutbox
    <3>2. CASE ~Quiet
      BY <1>1, <3>2, StepKinds
         DEF tick, pending, PumpBusy, PumpPick, reserve_run, prepare_chat, tables
    <3> QED
      BY <3>1, <3>2
  <2> QED
    BY <2>1, <2>2
<1> QED
  BY <1>1, CronInvariant, PTL DEF Spec, EndsAreFinal

-----------------------------------------------------------------------------
(***************************************************************************)
(* ScheduledRunAttended.  An executor is not enough to carry it through a  *)
(* step: a chat that has returned an error makes one more attempt to end   *)
(* its run, and only together with a fault already spent does that attempt *)
(* succeed.  Tended says which executor still answers for an active run,   *)
(* and how many attempts it has left against how many faults.              *)
(***************************************************************************)
Tended(e) ==
  \/ exec[Chat(e)] \in {"created", "turn", "error"}
  \/ exec[Resume(e)] \in {"turn", "error"}
  \/ faults = 1 /\ (exec[Chat(e)] = "err" \/ exec[Resume(e)] = "err")

\* A run that has not begun is not resumed, and an executor that has finished
\* a run has ended it.
Orderly(e) ==
  /\ run[e] = "none" => exec[Resume(e)] = "idle"
  /\ run[e] = "active" => /\ exec[Chat(e)] \notin {"spawned", "finished", "ok"}
                          /\ exec[Resume(e)] \notin {"finished", "ok"}

EventInv(e) ==
  /\ Orderly(e)
  /\ crashes = 0 /\ faults <= 1 /\ run[e] = "active" => Tended(e)

AttendInv == CronInv /\ \A e \in Events : EventInv(e)

\* A step that leaves a run and its executors alone.
LEMMA CalmEvent ==
  ASSUME TypeOK, NEW e \in Events, EventInv(e), run'[e] = run[e],
         exec'[Chat(e)] = exec[Chat(e)], exec'[Resume(e)] = exec[Resume(e)],
         faults' \in Nat, faults <= faults', crashes' \in Nat, crashes <= crashes'
  PROVE  EventInv(e)'
<1>1. faults \in Nat /\ crashes \in Nat
  BY CronAssumption DEF TypeOK
<1>2. Orderly(e)'
  BY DEF EventInv, Orderly
<1>3. ASSUME crashes' = 0, faults' <= 1, run'[e] = "active" PROVE Tended(e)'
  <2>1. Tended(e)
    BY <1>1, <1>3 DEF EventInv
  <2>2. faults = 1 => faults' = 1
    BY <1>1, <1>3
  <2> QED
    BY <2>1, <2>2 DEF Tended
<1> QED
  BY <1>2, <1>3 DEF EventInv

\* A run that has ended asks nothing.
LEMMA EndedEvent == ASSUME NEW e, run'[e] \in Terminal PROVE EventInv(e)'
BY DEF EventInv, Orderly, Terminal

\* Which executor of a run a step moves.
LEMMA MovedExecutor ==
  ASSUME TypeOK, NEW e \in Events, NEW x \in Executors, NEW s, SetExec(x, s)
  PROVE  \/ /\ x = Chat(e) /\ RunOf(x) = e
            /\ exec'[Chat(e)] = s /\ exec'[Resume(e)] = exec[Resume(e)]
         \/ /\ x = Resume(e) /\ RunOf(x) = e
            /\ exec'[Resume(e)] = s /\ exec'[Chat(e)] = exec[Chat(e)]
         \/ /\ RunOf(x) # e
            /\ exec'[Chat(e)] = exec[Chat(e)] /\ exec'[Resume(e)] = exec[Resume(e)]
<1>1. Chat(e) \in Executors /\ Resume(e) \in Executors /\ Chat(e) # Resume(e)
  BY RunFacts, ChatFacts
<1>2. x = Chat(RunOf(x)) \/ x = Resume(RunOf(x))
  BY ChatFacts
<1>3. RunOf(Chat(e)) = e /\ RunOf(Resume(e)) = e
  BY DEF RunOf, Chat, Resume
<1>4. exec' = [exec EXCEPT ![x] = s] /\ exec \in [Executors -> ExecStates]
  BY DEF SetExec, TypeOK
<1> QED
  BY <1>1, <1>2, <1>3, <1>4

\* AgentRecoveryService::fail ends the run it is about, unless a fault or a
\* resumption in its turn keeps it from that.
LEMMA FailFacts ==
  ASSUME TypeOK, NEW e \in Events, NEW r \in Runs, fail(r)
  PROVE  /\ faults' \in Nat /\ faults <= faults'
         /\ run'[e] = run[e] \/ run'[e] \in Terminal
         /\ r = e /\ run'[e] = "active" => exec[Resume(e)] = "turn" \/ faults' = faults + 1
<1>1. e \in Runs /\ run \in [Runs -> RunStates] /\ faults \in Nat
  BY RunFacts, CronAssumption DEF TypeOK
<1>2. CASE run' = Failed(r) /\ UNCHANGED faults
  BY <1>1, <1>2 DEF Failed, Terminal
<1>3. CASE exec[Resume(r)] = "turn" /\ UNCHANGED <<run, faults>>
  BY <1>1, <1>3
<1>4. CASE Fault /\ UNCHANGED run
  BY <1>1, <1>4 DEF Fault
<1> QED
  BY <1>2, <1>3, <1>4 DEF fail

\* The steps of executors.
LEMMA ExecutorTends ==
  ASSUME CronInv, NEW e \in Events, EventInv(e), NEW x \in Executors,
         ExecutorStep(x) \/ TurnLeaks(x)
  PROVE  EventInv(e)'
<1>0. /\ TypeOK /\ RunOf(x) \in Runs /\ e \in Runs /\ e \notin UserRuns
      /\ faults \in Nat /\ crashes \in Nat /\ run \in [Runs -> RunStates]
  BY RunFacts, CronAssumption DEF CronInv, TypeOK
<1>1. ASSUME NEW s, SetExec(x, s), UNCHANGED <<run, faults, crashes>>,
             \/ s = "turn" /\ exec[x] = "created"
             \/ s = "error" /\ exec[x] \in {"created", "turn", "finished"}
      PROVE  EventInv(e)'
  <2>1. CASE RunOf(x) # e
    BY <1>0, <1>1, <2>1, MovedExecutor, CalmEvent
  <2>2. CASE x = Chat(e) /\ RunOf(x) = e
    BY <1>0, <1>1, <2>2, MovedExecutor, ChatFacts DEF EventInv, Orderly, Tended
  <2>3. CASE x = Resume(e) /\ RunOf(x) = e
    BY <1>0, <1>1, <2>3, MovedExecutor, ChatFacts DEF EventInv, Orderly, Tended
  <2> QED
    BY <1>0, <1>1, <2>1, <2>2, <2>3, MovedExecutor
<1>2. CASE begin_turn(x) \/ BeginFails(x)
  BY <1>1, <1>2 DEF begin_turn, BeginFails, tables
<1>3. CASE \E outcome \in {"completed", "cancelled", "failed"} : LoopEnds(x, outcome)
  <2>1. PICK outcome \in {"completed", "cancelled", "failed"} : LoopEnds(x, outcome)
    BY <1>3
  <2>2. /\ SetExec(x, "finished") /\ UNCHANGED <<faults, crashes>>
        /\ run' = [run EXCEPT ![RunOf(x)] = outcome]
    BY <2>1 DEF LoopEnds
  <2>3. CASE RunOf(x) # e
    <3>1. run'[e] = run[e]
      BY <1>0, <2>2, <2>3
    <3> QED
      BY <1>0, <2>2, <2>3, <3>1, MovedExecutor, CalmEvent
  <2>4. CASE RunOf(x) = e
    <3>1. run'[e] \in Terminal
      BY <1>0, <2>2, <2>4 DEF Terminal
    <3> QED
      BY <3>1, EndedEvent
  <2> QED
    BY <2>3, <2>4
<1>4. CASE \E result \in {"ok", "error"} : finish_turn(x, result)
  <2>1. PICK result \in {"ok", "error"} : finish_turn(x, result)
    BY <1>4
  <2>2. SetExec(x, result) /\ UNCHANGED <<run, faults, crashes>>
    BY <2>1 DEF finish_turn, tables
  <2>3. CASE result = "error"
    BY <1>1, <2>1, <2>2, <2>3 DEF finish_turn
  <2>4. CASE result = "ok"
    <3>1. exec[x] = "finished"
      BY <2>1, <2>4 DEF finish_turn
    <3>2. CASE RunOf(x) # e
      BY <1>0, <2>2, <3>2, MovedExecutor, CalmEvent
    <3>3. CASE x = Chat(e) \/ x = Resume(e)
      <4>1. (run[e] # "active" /\ run[e] # "none") \/ (run[e] = "none" /\ x = Chat(e))
        BY <3>1, <3>3 DEF EventInv, Orderly
      <4>2. x = Chat(e) => exec'[Resume(e)] = exec[Resume(e)]
        BY <1>0, <2>2, MovedExecutor, ChatFacts
      <4> QED
        BY <2>2, <4>1, <4>2 DEF EventInv, Orderly
    <3> QED
      BY <1>0, <2>2, <3>2, <3>3, MovedExecutor
  <2> QED
    BY <2>3, <2>4
<1>5. CASE mark_agent_run_failed(x)
  <2>1. SetExec(x, "err") /\ fail(RunOf(x)) /\ UNCHANGED crashes /\ exec[x] = "error"
    BY <1>5 DEF mark_agent_run_failed
  <2>2. /\ faults' \in Nat /\ faults <= faults'
        /\ run'[e] = run[e] \/ run'[e] \in Terminal
        /\ RunOf(x) = e /\ run'[e] = "active" => exec[Resume(e)] = "turn" \/ faults' = faults + 1
    BY <1>0, <2>1, FailFacts
  <2>3. CASE run'[e] \in Terminal
    BY <2>3, EndedEvent
  <2>4. CASE run'[e] = run[e] /\ RunOf(x) # e
    BY <1>0, <2>1, <2>2, <2>4, MovedExecutor, CalmEvent
  <2>5. CASE run'[e] = run[e] /\ x = Chat(e) /\ RunOf(x) = e
    <3>1. exec'[Chat(e)] = "err" /\ exec'[Resume(e)] = exec[Resume(e)]
      BY <1>0, <2>1, <2>5, MovedExecutor, ChatFacts
    <3>2. Orderly(e)'
      BY <2>5, <3>1 DEF EventInv, Orderly
    <3>3. faults' <= 1 /\ run'[e] = "active" => Tended(e)'
      BY <1>0, <2>2, <2>5, <3>1 DEF Tended
    <3> QED
      BY <3>2, <3>3 DEF EventInv
  <2>6. CASE run'[e] = run[e] /\ x = Resume(e) /\ RunOf(x) = e
    <3>1. exec'[Resume(e)] = "err" /\ exec'[Chat(e)] = exec[Chat(e)]
      BY <1>0, <2>1, <2>6, MovedExecutor, ChatFacts
    <3>2. Orderly(e)'
      BY <2>1, <2>6, <3>1 DEF EventInv, Orderly
    <3>3. faults' <= 1 /\ run'[e] = "active" => Tended(e)'
      BY <1>0, <2>1, <2>2, <2>6, <3>1 DEF Tended
    <3> QED
      BY <3>2, <3>3 DEF EventInv
  <2> QED
    BY <1>0, <2>1, <2>2, <2>3, <2>4, <2>5, <2>6, MovedExecutor
<1>6. CASE Returns(x)
  <2>1. SetExec(x, "idle") /\ UNCHANGED <<run, faults, crashes>>
        /\ (RunOf(x) \in UserRuns \/ (x[2] = "resume" /\ exec[x] = "ok"))
    BY <1>6 DEF Returns, tables
  <2>2. CASE RunOf(x) # e
    BY <1>0, <2>1, <2>2, MovedExecutor, CalmEvent
  <2>3. CASE RunOf(x) = e
    <3>1. x = Resume(e) /\ exec[x] = "ok"
      BY <1>0, <2>1, <2>3, ChatFacts DEF Chat, Resume
    <3>2. exec'[Resume(e)] = "idle" /\ exec'[Chat(e)] = exec[Chat(e)]
      BY <1>0, <2>1, <2>3, <3>1, MovedExecutor, ChatFacts
    <3>3. run[e] # "active"
      BY <3>1 DEF EventInv, Orderly
    <3> QED
      BY <2>1, <3>2, <3>3 DEF EventInv, Orderly
  <2> QED
    BY <2>2, <2>3
<1>7. CASE x = Resume(RunOf(x)) /\ ResumeFails(RunOf(x))
  <2>1. SetExec(x, "idle") /\ fail(RunOf(x)) /\ UNCHANGED crashes /\ exec[x] = "err"
        /\ x = Resume(RunOf(x))
    BY <1>7 DEF ResumeFails
  <2>2. /\ faults' \in Nat /\ faults <= faults'
        /\ run'[e] = run[e] \/ run'[e] \in Terminal
        /\ RunOf(x) = e /\ run'[e] = "active" => exec[Resume(e)] = "turn" \/ faults' = faults + 1
    BY <1>0, <2>1, FailFacts
  <2>3. CASE run'[e] \in Terminal
    BY <2>3, EndedEvent
  <2>4. CASE run'[e] = run[e] /\ RunOf(x) # e
    BY <1>0, <2>1, <2>2, <2>4, MovedExecutor, CalmEvent
  <2>5. CASE run'[e] = run[e] /\ RunOf(x) = e
    <3>1. x = Resume(e) /\ exec'[Resume(e)] = "idle" /\ exec'[Chat(e)] = exec[Chat(e)]
      BY <1>0, <2>1, <2>5, MovedExecutor, ChatFacts
    <3>2. Orderly(e)'
      BY <2>1, <2>5, <3>1 DEF EventInv, Orderly
    <3>3. ASSUME crashes' = 0, faults' <= 1, run'[e] = "active" PROVE Tended(e)'
      <4>1. faults' = faults + 1
        BY <2>1, <2>2, <2>5, <3>1, <3>3
      <4>2. faults = 0
        BY <1>0, <3>3, <4>1
      <4>3. Tended(e)
        BY <1>0, <2>1, <2>5, <3>3, <4>2 DEF EventInv
      <4> QED
        BY <2>1, <3>1, <4>2, <4>3 DEF Tended
    <3> QED
      BY <3>2, <3>3 DEF EventInv
  <2> QED
    BY <2>2, <2>3, <2>4, <2>5
<1>8. CASE TurnLeaks(x)
  <2>1. /\ SetExec(x, "error") /\ UNCHANGED <<run, crashes>> /\ exec[x] = "turn"
        /\ faults' = faults + 1
    BY <1>8 DEF TurnLeaks, Fault, tables
  <2>2. CASE RunOf(x) # e
    BY <1>0, <2>1, <2>2, MovedExecutor, CalmEvent
  <2>3. CASE x = Chat(e) /\ RunOf(x) = e
    BY <1>0, <2>1, <2>3, MovedExecutor, ChatFacts DEF EventInv, Orderly, Tended
  <2>4. CASE x = Resume(e) /\ RunOf(x) = e
    BY <1>0, <2>1, <2>4, MovedExecutor, ChatFacts DEF EventInv, Orderly, Tended
  <2> QED
    BY <1>0, <2>1, <2>2, <2>3, <2>4, MovedExecutor
<1> QED
  BY <1>2, <1>3, <1>4, <1>5, <1>6, <1>7, <1>8 DEF ExecutorStep

\* The steps of a dispatch task: it leaves a run active only to a resumption,
\* or when the one fault it may meet has been met.
LEMMA DispatchTends ==
  ASSUME CronInv, NEW e \in Events, EventInv(e), NEW f \in Events,
         DispatchStep(f) \/ DispatchFault(f)
  PROVE  EventInv(e)'
<1>0. /\ TypeOK /\ e \in Runs /\ f \in Runs /\ Chat(f) \in Executors /\ RunOf(Chat(f)) = f
      /\ Chat(e) # Resume(e) /\ Chat(f) # Resume(e)
      /\ faults \in Nat /\ crashes \in Nat
  BY RunFacts, ChatFacts, CronAssumption DEF CronInv, TypeOK, RunOf, Chat
<1>1. ASSUME f # e, NEW s, SetExec(Chat(f), s), UNCHANGED crashes,
             \/ fail(f)
             \/ faults' \in Nat /\ faults <= faults' /\ UNCHANGED run
      PROVE  EventInv(e)'
  <2>1. exec'[Chat(e)] = exec[Chat(e)] /\ exec'[Resume(e)] = exec[Resume(e)]
    BY <1>0, <1>1, MovedExecutor
  <2>2. faults' \in Nat /\ faults <= faults' /\ (run'[e] = run[e] \/ run'[e] \in Terminal)
    BY <1>0, <1>1, FailFacts
  <2> QED
    BY <1>0, <1>1, <2>1, <2>2, CalmEvent, EndedEvent
<1>2. ASSUME f = e, NEW s, SetExec(Chat(f), s)
      PROVE  exec'[Chat(e)] = s /\ exec'[Resume(e)] = exec[Resume(e)]
  BY <1>0, <1>2, MovedExecutor
<1>3. CASE dispatch_event(f)
  <2>1. /\ exec[Chat(f)] \in {"ok", "err"} /\ UNCHANGED crashes
        /\ \/ /\ Delivered(f) /\ SetExec(Chat(f), "drop") /\ UNCHANGED <<run, faults>>
           \/ /\ ~Delivered(f) /\ SetExec(Chat(f), "record") /\ fail(f)
    BY <1>3 DEF dispatch_event
  <2>2. CASE f # e
    BY <1>0, <1>1, <2>1, <2>2
  <2>3. CASE f = e /\ Delivered(f)
    <3>1. run'[e] \in Terminal
      BY <2>1, <2>3 DEF Delivered, Terminal
    <3> QED
      BY <3>1, EndedEvent
  <2>4. CASE f = e /\ ~Delivered(f)
    <3>1. exec'[Chat(e)] = "record" /\ exec'[Resume(e)] = exec[Resume(e)] /\ fail(e)
      BY <1>2, <2>1, <2>4
    <3>2. /\ faults' \in Nat /\ faults <= faults'
          /\ run'[e] = run[e] \/ run'[e] \in Terminal
          /\ run'[e] = "active" => exec[Resume(e)] = "turn" \/ faults' = faults + 1
      BY <1>0, <3>1, FailFacts
    <3>3. CASE run'[e] \in Terminal
      BY <3>3, EndedEvent
    <3>4. CASE run'[e] = run[e]
      <4>1. Orderly(e)'
        BY <3>1, <3>4 DEF EventInv, Orderly
      <4>2. ASSUME crashes' = 0, faults' <= 1, run'[e] = "active" PROVE Tended(e)'
        <5>1. CASE exec[Resume(e)] = "turn"
          BY <3>1, <5>1 DEF Tended
        <5>2. CASE faults' = faults + 1
          <6>1. faults = 0
            BY <1>0, <4>2, <5>2
          <6>2. Tended(e)
            BY <2>1, <3>4, <4>2, <6>1 DEF EventInv
          <6>3. exec[Resume(e)] \in {"turn", "error"}
            BY <2>1, <2>4, <6>1, <6>2 DEF Tended
          <6> QED
            BY <3>1, <6>3 DEF Tended
        <5> QED
          BY <3>2, <4>2, <5>1, <5>2
      <4> QED
        BY <4>1, <4>2 DEF EventInv
    <3> QED
      BY <3>2, <3>3, <3>4
  <2> QED
    BY <2>2, <2>3, <2>4
<1>4. CASE DispatchFault(f)
  <2>1. /\ exec[Chat(f)] \in {"ok", "err"} /\ UNCHANGED <<run, crashes>> /\ faults' = faults + 1
        /\ SetExec(Chat(f), "record")
    BY <1>4 DEF DispatchFault, Fault, tables
  <2>2. CASE f # e
    BY <1>0, <1>1, <2>1, <2>2
  <2>3. CASE f = e
    <3>1. exec'[Chat(e)] = "record" /\ exec'[Resume(e)] = exec[Resume(e)]
      BY <1>2, <2>1, <2>3
    <3>2. Orderly(e)'
      BY <2>1, <3>1 DEF EventInv, Orderly
    <3>3. ASSUME crashes' = 0, faults' <= 1, run'[e] = "active" PROVE Tended(e)'
      <4>1. faults = 0
        BY <1>0, <2>1, <3>3
      <4>2. Tended(e)
        BY <2>1, <3>3, <4>1 DEF EventInv
      <4> QED
        BY <2>1, <2>3, <3>1, <4>1, <4>2 DEF Tended
    <3> QED
      BY <3>2, <3>3 DEF EventInv
  <2> QED
    BY <2>2, <2>3
<1>5. CASE record_error(f) \/ DispatchGuardDrops(f)
  <2>1. PICK s \in {"drop", "idle"} :
          /\ exec[Chat(f)] \in {"record", "drop"} /\ SetExec(Chat(f), s)
          /\ UNCHANGED <<run, crashes>> /\ faults' \in Nat /\ faults <= faults'
    BY <1>0, <1>5 DEF record_error, DispatchGuardDrops, Fault, tables
  <2>2. CASE f # e
    BY <1>0, <1>1, <2>1, <2>2
  <2>3. CASE f = e
    <3>1. exec'[Chat(e)] = s /\ exec'[Resume(e)] = exec[Resume(e)]
      BY <1>2, <2>1, <2>3
    <3>2. Orderly(e)'
      BY <2>1, <3>1 DEF EventInv, Orderly
    <3>3. ASSUME crashes' = 0, faults' <= 1, run'[e] = "active" PROVE Tended(e)'
      <4>1. Tended(e) /\ (faults = 1 => faults' = 1)
        BY <1>0, <2>1, <3>3 DEF EventInv
      <4> QED
        BY <2>1, <2>3, <3>1, <4>1 DEF Tended
    <3> QED
      BY <3>2, <3>3 DEF EventInv
  <2> QED
    BY <2>2, <2>3
<1> QED
  BY <1>3, <1>4, <1>5 DEF DispatchStep

\* Chats, cancellations and recovery of a run.
LEMMA RunTends ==
  ASSUME CronInv, NEW e \in Events, EventInv(e), NEW r \in Runs,
         \/ ChatStep(r) \/ ResumeGivesUp(r) \/ cancel_agent_run(r)
         \/ recover_agent_runs(r) \/ InitRecovers(r)
         \/ r \in UserRuns /\ UserSends(r)
  PROVE  EventInv(e)'
<1>0. /\ TypeOK /\ e \in Runs /\ e \notin UserRuns
      /\ Chat(r) \in Executors /\ RunOf(Chat(r)) = r
      /\ Resume(r) \in Executors /\ RunOf(Resume(r)) = r
      /\ Chat(r) # Resume(e) /\ Chat(e) # Resume(r)
      /\ faults \in Nat /\ crashes \in Nat /\ run \in [Runs -> RunStates]
      /\ exec \in [Executors -> ExecStates] /\ Chat(e) \in Executors /\ Resume(e) \in Executors
  BY RunFacts, ChatFacts, CronAssumption DEF CronInv, TypeOK, RunOf, Chat, Resume
<1>1. ASSUME r # e, NEW x \in {Chat(r), Resume(r)}, NEW s, SetExec(x, s),
             run'[e] = run[e], UNCHANGED <<faults, crashes>>
      PROVE  EventInv(e)'
  BY <1>0, <1>1, MovedExecutor, CalmEvent
<1>2. CASE prepare_chat(r)
  <2>1. /\ exec[Chat(r)] = "spawned" /\ run[r] = "none" /\ run' = [run EXCEPT ![r] = "active"]
        /\ SetExec(Chat(r), "created") /\ UNCHANGED <<faults, crashes>>
    BY <1>2 DEF prepare_chat, PrepareOk
  <2>2. CASE r # e
    BY <1>0, <1>1, <2>1, <2>2
  <2>3. CASE r = e
    <3>1. exec'[Chat(e)] = "created" /\ exec'[Resume(e)] = exec[Resume(e)]
      BY <1>0, <2>1, <2>3, MovedExecutor
    <3>2. exec[Resume(e)] = "idle" /\ run'[e] = "active"
      BY <1>0, <2>1, <2>3 DEF EventInv, Orderly
    <3> QED
      BY <3>1, <3>2 DEF EventInv, Orderly, Tended
  <2> QED
    BY <2>2, <2>3
<1>3. CASE PrepareFails(r)
  <2>1. exec[Chat(r)] = "spawned" /\ SetExec(Chat(r), "err") /\ UNCHANGED <<run, faults, crashes>>
    BY <1>3 DEF PrepareFails, tables
  <2>2. CASE r # e
    BY <1>0, <1>1, <2>1, <2>2
  <2>3. CASE r = e
    <3>1. exec'[Chat(e)] = "err" /\ exec'[Resume(e)] = exec[Resume(e)]
      BY <1>0, <2>1, <2>3, MovedExecutor
    <3>2. run[e] # "active"
      BY <2>1, <2>3 DEF EventInv, Orderly
    <3> QED
      BY <2>1, <3>1, <3>2 DEF EventInv, Orderly
  <2> QED
    BY <2>2, <2>3
<1>4. CASE r \in UserRuns /\ UserSends(r)
  <2>1. r # e /\ SetExec(Chat(r), "spawned") /\ UNCHANGED <<run, faults, crashes>>
    BY <1>0, <1>4 DEF UserSends, tables
  <2> QED
    BY <1>1, <2>1
<1>5. CASE ResumeGivesUp(r)
  <2>1. exec[Resume(r)] = "created" /\ SetExec(Resume(r), "idle") /\ UNCHANGED <<run, faults, crashes>>
    BY <1>5 DEF ResumeGivesUp, tables
  <2>2. CASE r # e
    BY <1>0, <1>1, <2>1, <2>2
  <2>3. CASE r = e
    <3>1. exec'[Resume(e)] = "idle" /\ exec'[Chat(e)] = exec[Chat(e)]
      BY <1>0, <2>1, <2>3, MovedExecutor
    <3> QED
      BY <2>1, <2>3, <3>1 DEF EventInv, Orderly, Tended
  <2> QED
    BY <2>2, <2>3
<1>6. CASE cancel_agent_run(r)
  <2>1. run' = [run EXCEPT ![r] = "cancelled"] /\ UNCHANGED <<exec, faults, crashes>>
    BY <1>6 DEF cancel_agent_run
  <2>2. CASE r # e
    <3>1. run'[e] = run[e]
      BY <1>0, <2>1, <2>2
    <3> QED
      BY <1>0, <2>1, <3>1, CalmEvent
  <2>3. CASE r = e
    <3>1. run'[e] \in Terminal
      BY <1>0, <2>1, <2>3 DEF Terminal
    <3> QED
      BY <3>1, EndedEvent
  <2> QED
    BY <2>2, <2>3
<1>7. CASE recover_agent_runs(r) \/ InitRecovers(r)
  <2>1. (RecoverInterrupts(r) \/ RecoverResumes(r)) /\ UNCHANGED <<faults, crashes>>
    BY <1>7 DEF recover_agent_runs, InitRecovers
  <2>2. CASE RecoverInterrupts(r)
    <3>1. run' = [run EXCEPT ![r] = "interrupted"] /\ UNCHANGED exec
      BY <2>2 DEF RecoverInterrupts
    <3>2. run'[e] = run[e] \/ run'[e] \in Terminal
      BY <1>0, <3>1 DEF Terminal
    <3> QED
      BY <1>0, <2>1, <3>1, <3>2, CalmEvent, EndedEvent
  <2>3. CASE RecoverResumes(r)
    <3>1. /\ run[r] = "active" /\ UNCHANGED run
          /\ exec'[Chat(e)] = exec[Chat(e)]
          /\ \/ exec'[Resume(e)] = exec[Resume(e)]
             \/ r = e /\ exec[Resume(e)] = "idle" /\ exec'[Resume(e)] = "created"
      <4>1. Resume(r) = Resume(e) => r = e
        BY DEF Resume
      <4> QED
        BY <1>0, <2>3, <4>1 DEF RecoverResumes
    <3>2. CASE exec'[Resume(e)] = exec[Resume(e)]
      BY <1>0, <2>1, <3>1, <3>2, CalmEvent
    <3>3. CASE r = e /\ exec[Resume(e)] = "idle" /\ exec'[Resume(e)] = "created"
      BY <2>1, <3>1, <3>3 DEF EventInv, Orderly, Tended
    <3> QED
      BY <3>1, <3>2, <3>3
  <2> QED
    BY <2>1, <2>2, <2>3
<1> QED
  BY <1>2, <1>3, <1>4, <1>5, <1>6, <1>7 DEF ChatStep

\* The pump launches an event only while its run has not begun; a crash takes
\* all executors with it.
LEMMA OtherTends ==
  ASSUME CronInv, NEW e \in Events, EventInv(e)
  PROVE  /\ \A f \in Events : reserve_run(f) => EventInv(e)'
         /\ Crash => EventInv(e)'
         /\ UNCHANGED <<run, exec, crashes>> /\ (UNCHANGED faults \/ Fault) => EventInv(e)'
<1>0. /\ TypeOK /\ e \in Runs /\ RunOf(Chat(e)) = e
      /\ faults \in Nat /\ crashes \in Nat /\ Chat(e) \in Executors /\ Resume(e) \in Executors
  BY RunFacts, ChatFacts, CronAssumption DEF CronInv, TypeOK, RunOf, Chat
<1>1. ASSUME NEW f \in Events, reserve_run(f) PROVE EventInv(e)'
  <2>1. /\ f \in picked /\ SetExec(Chat(f), "spawned") /\ UNCHANGED <<run, faults, crashes>>
    BY <1>1 DEF reserve_run, SetExec
  <2>2. Chat(f) \in Executors /\ RunOf(Chat(f)) = f /\ Chat(f) # Resume(e) /\ f \in Runs
    BY <1>0, RunFacts, ChatFacts DEF RunOf, Chat
  <2>3. CASE f # e
    BY <1>0, <2>1, <2>2, <2>3, MovedExecutor, CalmEvent
  <2>4. CASE f = e
    <3>1. exec'[Chat(e)] = "spawned" /\ exec'[Resume(e)] = exec[Resume(e)]
      BY <1>0, <2>1, <2>2, <2>4, MovedExecutor
    <3>2. run[e] # "active"
      BY <2>1, <2>4 DEF CronInv, PumpCovers
    <3> QED
      BY <2>1, <3>1, <3>2 DEF EventInv, Orderly
  <2> QED
    BY <2>3, <2>4
<1>2. ASSUME Crash PROVE EventInv(e)'
  <2>1. exec'[Chat(e)] = "idle" /\ exec'[Resume(e)] = "idle" /\ crashes' = crashes + 1
    BY <1>0, <1>2 DEF Crash
  <2> QED
    BY <1>0, <2>1 DEF EventInv, Orderly
<1>3. ASSUME UNCHANGED <<run, exec, crashes>>, UNCHANGED faults \/ Fault PROVE EventInv(e)'
  BY <1>0, <1>3, CalmEvent DEF Fault
<1> QED
  BY <1>1, <1>2, <1>3

LEMMA EventStep ==
  ASSUME CronInv, [Next]_vars, NEW e \in Events, EventInv(e)
  PROVE  EventInv(e)'
<1>1. CASE Pump
  BY <1>1, OtherTends
     DEF Pump, tick, pending, PumpBusy, PumpDone, ReserveRefused, EndPass, PumpRecorded,
         PumpSkip, PumpPick, tables
<1>2. CASE Startup
  BY <1>2, RunTends, OtherTends DEF Startup, db_init, InitConflicts, start, tables
<1>3. CASE \E x \in Executors : ExecutorStep(x)
  BY <1>3, ExecutorTends
<1>4. CASE \E f \in Events : DispatchStep(f)
  BY <1>4, DispatchTends
<1>5. CASE \E r \in Runs : ChatStep(r)
  BY <1>5, RunTends
<1>6. CASE User
  <2>1. CASE \E r \in UserRuns : UserSends(r)
    BY <2>1, RunTends, RunFacts
  <2>2. CASE \E r \in Runs : cancel_agent_run(r) \/ recover_agent_runs(r)
    BY <2>2, RunTends
  <2> QED
    BY <1>6, <2>1, <2>2, OtherTends
       DEF User, save, set_enabled, delete, ArchiveConversation, RestoreConversation,
           pause_for_restore, tables
<1>7. CASE Environment
  <2>1. CASE PumpFault
    BY <2>1, OtherTends DEF PumpFault, EndPass, tables
  <2> QED
    BY <1>7, <2>1, ExecutorTends, RunTends, DispatchTends, OtherTends DEF Environment
<1>8. CASE UNCHANGED vars
  BY <1>8, OtherTends DEF vars, tables
<1> QED
  BY <1>1, <1>2, <1>3, <1>4, <1>5, <1>6, <1>7, <1>8 DEF Next

\* An active scheduled run is in the hands of somebody who has more attempts to
\* end it than there are faults left, for any number of events and resumptions
\* (dispatch_event, mark_agent_run_failed, ResumeFails).
THEOREM AttendInvariant == Spec => []AttendInv
<1>1. Init => AttendInv
  <2> SUFFICES ASSUME Init PROVE AttendInv
    OBVIOUS
  <2>1. \A e \in Events : run[e] = "none" /\ exec[Resume(e)] = "idle"
    BY RunFacts DEF Init
  <2> QED
    BY <2>1, CronInit DEF AttendInv, EventInv, Orderly
<1>2. AttendInv /\ [Next]_vars => AttendInv'
  <2> SUFFICES ASSUME AttendInv, [Next]_vars PROVE AttendInv'
    OBVIOUS
  <2>1. \A e \in Events : EventInv(e)'
    BY EventStep DEF AttendInv
  <2> QED
    BY <2>1, CronStep DEF AttendInv
<1> QED
  BY <1>1, <1>2, PTL DEF Spec

\* Without a crash, and with at most one storage fault, no active scheduled run
\* is left without an executor (ScheduledRunAttended).
THEOREM ScheduledRunsAreAttended == Spec => []ScheduledRunAttended
<1>1. AttendInv => ScheduledRunAttended
  <2> SUFFICES ASSUME AttendInv, crashes = 0, faults <= 1, NEW e \in Events, run[e] = "active"
               PROVE  Attended(e)
    BY DEF ScheduledRunAttended
  <2>1. Tended(e)
    BY DEF AttendInv, EventInv
  <2>2. Chat(e) = <<e, "chat">> /\ Resume(e) = <<e, "resume">>
    BY DEF Chat, Resume
  <2>3. exec[<<e, "chat">>] # "idle" \/ exec[<<e, "resume">>] # "idle"
    BY <2>1, <2>2 DEF Tended
  <2> QED
    BY <2>3 DEF Attended, Kinds
<1> QED
  BY <1>1, AttendInvariant, PTL
=============================================================================
