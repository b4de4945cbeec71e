--------------------------- MODULE AgentRunProofs ---------------------------
(***************************************************************************)
(* ToolCallRunsOnce and ResultsReachTheModel for any number of tools,      *)
(* calls, model calls, recoveries, crashes, results and commands.          *)
(*                                                                         *)
(* At most one loop is busy with the run (OneBusy), and the row is where   *)
(* that loop believes it to be, or has ended.  A call that must not run    *)
(* again and has run without its event is hot: hot calls exist only while  *)
(* the row is executing tools or has ended, and a busy loop has all of     *)
(* them in the group it is recording.  That is why no recovery may resume  *)
(* beside a hot call.                                                      *)
(***************************************************************************)
EXTENDS AgentRun, TLAPS

RunStates == {"created", "preparing", "generating", "awaiting_permission", "executing_tools",
              "verifying", "completing"} \cup RunTerminal

Places == {"none", "perm_wait", "load", "begin", "resume", "prepare", "start", "top", "save_found",
           "save_late", "before_model", "calling", "error", "errored", "no_tools", "save_result",
           "answer", "verify", "cited", "finishing", "requesting", "deciding", "settled",
           "executing", "observe", "done", "failing", "marking"}

WaitType == [c : Nat, decision : {"none", "open", "deny", "allow", "allow_session"}]
LoopType == [at : Places, machine : RunStates, resumed : BOOLEAN, natural : BOOLEAN,
             attempt : Nat, asks : Nat, known : SUBSET Calls, heard : SUBSET Nat,
             todo : SUBSET Calls, replayed : BOOLEAN, said : WaitType,
             allow : SUBSET Calls, deny : SUBSET Calls, ran : SUBSET Calls]
CallType == [tool : AgentTools \cup {"none"}, asked : BOOLEAN, done : BOOLEAN,
             permission : {"none", "asked", "resolved"}]
BgType == [state : {"none", "running", "completed", "paused"}, version : Nat, delivered : Nat]
HostType == [up : BOOLEAN, active : {0} \cup Loops, stop : {"none", "user", "deadline"},
             queue : BOOLEAN, wait : WaitType, remembered : SUBSET AgentTools]
ContextType == [reason : {"none", "model_call", "assistant_error", "assistant_result"},
                known : SUBSET Calls, heard : SUBSET Nat, attempt : Nat, asks : Nat]

ArTypeOK ==
  /\ run_state \in RunStates
  /\ context \in ContextType
  /\ call \in [Calls -> CallType]
  /\ effects \in [Calls -> Nat]
  /\ bgTask \in BgType
  /\ loop \in [Loops -> LoopType]
  /\ host \in HostType

Idle(h) == h.at \in {"none", "marking"}
Entering(h) == h.at \in {"perm_wait", "load", "begin"}

\* A call that may not run again, has run, and whose event is still missing.
Hot(c, cl, ef) == cl[c].tool \notin Idempotent /\ ef[c] # 0 /\ ~cl[c].done

CallsOk(rs, cl, ef) == \A c \in Calls :
  /\ ef[c] # 0 => cl[c].asked
  /\ cl[c].asked => cl[c].tool # "none"
  /\ cl[c].tool \notin Idempotent => ef[c] <= 1
  /\ Hot(c, cl, ef) => rs \in {"executing_tools"} \cup RunTerminal

\* The background task has no result that the run still owes to the model.
NothingOwed(bg) == bg.state = "none" \/ bg.delivered # 0

ResultsOk(rs, cx, bg) ==
  /\ bg.state \in BgTerminal => bg.version # 0
  /\ rs \notin RunTerminal /\ bg.delivered # 0 => bg.delivered \in cx.heard
  /\ rs = "completed" => NothingOwed(bg)

\* What the batch of a busy loop may hold at each place.
BatchOk(h, cl) ==
  /\ h.ran # {} => h.at = "executing"
  /\ h.ran \subseteq h.allow /\ h.allow \subseteq h.todo /\ h.deny \subseteq h.todo
  /\ h.allow \cup h.deny # {} =>
       h.at \in {"deciding", "settled", "executing", "observe", "done", "failing"}
  /\ \A c \in h.todo : cl[c].tool # "none" /\ (h.at # "requesting" => cl[c].asked)

\* A busy loop and the run it works on.
BusyOk(h, rs, cl, ef, bg, wait) ==
  /\ rs \in RunTerminal \/ h.machine = rs
  /\ h.machine \in RunTerminal => h.at = "done"
  /\ h.at = "executing" => h.machine = "executing_tools"
  /\ BatchOk(h, cl)
  /\ \A c \in Calls : Hot(c, cl, ef) => c \in h.ran
  /\ rs \notin RunTerminal /\ bg.delivered # 0 => bg.delivered \in h.heard
  /\ h.at \in {"save_result", "answer", "verify", "cited", "finishing"} =>
       rs \in RunTerminal \/ NothingOwed(bg)
  /\ rs = "completed" => h.at = "done"
  /\ Entering(h) /\ ~h.resumed => h.at = "begin" /\ h.machine = "created"
  /\ h.at = "perm_wait" =>
       /\ h.machine = "awaiting_permission" /\ wait.decision # "none"
       /\ \E c \in Calls : cl[c].permission = "asked"

LoopOk(l, h, rs, cl, ef, bg, active, wait) ==
  /\ active = l <=> ~Idle(h) /\ ~Entering(h)
  /\ ~Idle(h) => BusyOk(h, rs, cl, ef, bg, wait)

OneBusy == \A k, l \in Loops : ~Idle(loop[k]) /\ ~Idle(loop[l]) => k = l

ArInv ==
  /\ ArTypeOK
  /\ CallsOk(run_state, call, effects)
  /\ ResultsOk(run_state, context, bgTask)
  /\ \A l \in Loops :
       LoopOk(l, loop[l], run_state, call, effects, bgTask, host.active, host.wait)
  /\ OneBusy
  /\ ~host.up => \A l \in Loops : loop[l].at = "none"

-----------------------------------------------------------------------------
(* The shapes of a step.                                                   *)

\* What the invariant says of one loop.
LEMMA LoopFacts ==
  ASSUME ArInv, NEW l \in Loops
  PROVE  /\ loop \in [Loops -> LoopType] /\ loop[l] \in LoopType
         /\ host.active = l <=> ~Idle(loop[l]) /\ ~Entering(loop[l])
         /\ ~Idle(loop[l]) =>
              BusyOk(loop[l], run_state, call, effects, bgTask, host.wait)
  BY DEF ArInv, ArTypeOK, LoopOk

\* The busy loop moves; the others are idle.
LEMMA BusyMoves ==
  ASSUME ArInv, NEW l \in Loops, NEW h \in LoopType, ~Idle(loop[l]),
         loop' = [loop EXCEPT ![l] = h],
         run_state' \in RunStates, context' \in ContextType, call' \in [Calls -> CallType],
         effects' \in [Calls -> Nat], bgTask' \in BgType, host' \in HostType,
         host'.up = host.up, host'.active \in {0, l},
         CallsOk(run_state', call', effects'), ResultsOk(run_state', context', bgTask'),
         LoopOk(l, h, run_state', call', effects', bgTask', host'.active, host'.wait)
  PROVE  ArInv'
<1>1. loop \in [Loops -> LoopType] BY DEF ArInv, ArTypeOK
<1>2. loop'[l] = h /\ \A k \in Loops \ {l} : loop'[k] = loop[k] BY <1>1
<1>3. \A k \in Loops \ {l} : Idle(loop[k]) BY DEF ArInv, OneBusy
<1>4. ArTypeOK' BY <1>1 DEF ArTypeOK
<1>5. \A k \in Loops :
        LoopOk(k, loop'[k], run_state', call', effects', bgTask', host'.active, host'.wait)
  <2> SUFFICES ASSUME NEW k \in Loops, k # l
               PROVE  LoopOk(k, loop'[k], run_state', call', effects', bgTask',
                             host'.active, host'.wait)
    BY <1>2
  <2>1. host'.active # k BY DEF Loops
  <2> QED BY <1>2, <1>3, <2>1 DEF LoopOk
<1>6. OneBusy' BY <1>2, <1>3 DEF OneBusy
<1>7. host'.up BY DEF ArInv, Idle
<1> QED BY <1>4, <1>5, <1>6, <1>7 DEF ArInv

\* While a loop records nothing no call is hot, so the row may change.
LEMMA NoneHot ==
  ASSUME ArInv, NEW l \in Loops, ~Idle(loop[l]), loop[l].ran = {}
  PROVE  /\ \A c \in Calls : ~Hot(c, call, effects)
         /\ \A rs : CallsOk(rs, call, effects)
<1>1. \A c \in Calls : ~Hot(c, call, effects) BY LoopFacts DEF BusyOk
<1> QED BY <1>1 DEF ArInv, CallsOk

\* The active loop goes on to a place where it is still active: the calls stay as they
\* are, the row changes legally, a checkpoint may be written.
LEMMA LoopMoves ==
  ASSUME ArInv, NEW l \in Loops, NEW h \in LoopType,
         ~Idle(loop[l]), ~Entering(loop[l]), loop[l].ran = {},
         loop' = [loop EXCEPT ![l] = h], h.ran = {}, ~Idle(h), ~Entering(h),
         UNCHANGED <<call, effects>>,
         run_state' \in RunStates, run_state' \in RunTerminal \/ h.machine = run_state',
         run_state \in RunTerminal => run_state' = run_state,
         run_state' = "completed" =>
           h.at = "done" /\ (run_state = "completed" \/ NothingOwed(bgTask)),
         h.machine \in RunTerminal => h.at = "done",
         BatchOk(h, call), h.at = "executing" => h.machine = "executing_tools",
         h.at \in {"save_result", "answer", "verify", "cited", "finishing"} =>
           run_state' \in RunTerminal \/ NothingOwed(bgTask),
         loop[l].heard \subseteq h.heard,
         context' \in ContextType, context' = context \/ context'.heard = h.heard,
         \/ bgTask' = bgTask
         \/ /\ bgTask' = [bgTask EXCEPT !.delivered = bgTask.version]
            /\ bgTask.state \in BgTerminal /\ bgTask.version \in h.heard
            /\ context'.heard = h.heard,
         host' \in HostType, host'.up = host.up, host'.active = host.active
  PROVE  ArInv'
<1>1. BusyOk(loop[l], run_state, call, effects, bgTask, host.wait) /\ host.active = l
  BY LoopFacts
<1>2. /\ call \in [Calls -> CallType] /\ effects \in [Calls -> Nat] /\ bgTask \in BgType
      /\ ResultsOk(run_state, context, bgTask)
  BY DEF ArInv, ArTypeOK
<1>3. CallsOk(run_state', call', effects') BY NoneHot
<1>4. /\ bgTask' \in BgType /\ bgTask'.state = bgTask.state /\ bgTask'.version = bgTask.version
      /\ bgTask'.delivered = bgTask.delivered \/
         (/\ bgTask'.delivered = bgTask.version /\ bgTask.version # 0
          /\ bgTask.version \in h.heard /\ context'.heard = h.heard)
  BY <1>2 DEF BgType, ResultsOk
<1>5. NothingOwed(bgTask) => NothingOwed(bgTask') BY <1>4 DEF NothingOwed
<1>6. run_state \notin RunTerminal /\ bgTask'.delivered # 0 =>
        bgTask'.delivered \in h.heard /\ bgTask'.delivered \in context'.heard
  BY <1>1, <1>2, <1>4 DEF BusyOk, ResultsOk
<1>7. ResultsOk(run_state', context', bgTask')
  BY <1>2, <1>4, <1>5, <1>6 DEF ResultsOk
<1>8. BusyOk(h, run_state', call', effects', bgTask', host'.wait)
  BY <1>5, <1>6, NoneHot DEF BusyOk, Entering, BatchOk
<1>9. LoopOk(l, h, run_state', call', effects', bgTask', host'.active, host'.wait)
  BY <1>1, <1>8 DEF LoopOk
<1> QED BY <1>1, <1>2, <1>3, <1>4, <1>7, <1>9, BusyMoves

\* A loop that has its turn and is not in the middle of a group.
AtWork(l) == ~Idle(loop[l]) /\ ~Entering(loop[l]) /\ loop[l].ran = {} /\ loop[l].at # "done"

\* Places it may reach from where it is by changing nothing else.
Reachable(l, step) ==
  /\ step \in Places \ {"none", "marking", "perm_wait", "load", "begin", "executing"}
  /\ loop[l].allow \cup loop[l].deny # {} =>
       step \in {"deciding", "settled", "executing", "observe", "done", "failing"}
  /\ step # "requesting" => \A c \in loop[l].todo : call[c].asked

\* The batch of a loop that changes its place.
LEMMA SameBatch ==
  ASSUME ArInv, NEW l \in Loops, AtWork(l), NEW h, NEW step, Reachable(l, step), h.at = step,
         h.todo = loop[l].todo, h.allow = loop[l].allow, h.deny = loop[l].deny, h.ran = {}
  PROVE  BatchOk(h, call) /\ ~Idle(h) /\ ~Entering(h)
<1>1. BatchOk(loop[l], call) BY LoopFacts DEF AtWork, BusyOk
<1> QED BY <1>1 DEF BatchOk, Reachable, Idle, Entering

\* An active loop goes on and nothing else changes but the queue of its host.
LEMMA GoMoves ==
  ASSUME ArInv, NEW l \in Loops, AtWork(l), NEW step, Reachable(l, step), GoTo(l, step),
         step \in {"save_result", "answer", "verify", "cited", "finishing"} =>
           run_state \in RunTerminal \/ NothingOwed(bgTask),
         UNCHANGED <<run_state, context, call, effects, bgTask>>,
         host' \in HostType, host'.up = host.up, host'.active = host.active
  PROVE  ArInv'
<1> DEFINE h == [loop[l] EXCEPT !.at = step]
<1>1. loop[l] \in LoopType /\ loop \in [Loops -> LoopType] BY LoopFacts
<1>2. /\ h \in LoopType /\ h.at = step /\ h.machine = loop[l].machine /\ h.todo = loop[l].todo
      /\ h.allow = loop[l].allow /\ h.deny = loop[l].deny /\ h.ran = {}
      /\ h.heard = loop[l].heard
  BY <1>1 DEF LoopType, Reachable, AtWork
<1>3. loop' = [loop EXCEPT ![l] = h] BY DEF GoTo
<1> HIDE DEF h
<1>4. BatchOk(h, call) /\ ~Idle(h) /\ ~Entering(h) BY <1>2, SameBatch
<1>5. BusyOk(loop[l], run_state, call, effects, bgTask, host.wait) BY LoopFacts DEF AtWork
<1>6. /\ run_state # "completed" /\ (run_state \in RunTerminal \/ h.machine = run_state)
      /\ h.machine \notin RunTerminal
  BY <1>2, <1>5 DEF BusyOk, AtWork
<1>7. run_state \in RunStates /\ context \in ContextType BY DEF ArInv, ArTypeOK
<1> QED BY <1>2, <1>3, <1>4, <1>6, <1>7, LoopMoves DEF AtWork, Reachable

\* A loop gives up, and fails the row if it finds it where it left it.
LEMMA FailMoves ==
  ASSUME ArInv, NEW l \in Loops, AtWork(l), Reachable(l, "failing"), fail(l),
         UNCHANGED <<context, call, effects, bgTask>>,
         host' \in HostType, host'.up = host.up, host'.active = host.active
  PROVE  ArInv'
<1> DEFINE h == [loop[l] EXCEPT !.at = "failing"]
<1>1. loop[l] \in LoopType /\ loop \in [Loops -> LoopType] BY LoopFacts
<1>2. /\ h \in LoopType /\ h.at = "failing" /\ h.machine = loop[l].machine
      /\ h.todo = loop[l].todo /\ h.allow = loop[l].allow /\ h.deny = loop[l].deny /\ h.ran = {}
      /\ h.heard = loop[l].heard
  BY <1>1 DEF LoopType, AtWork, Reachable
<1>3. loop' = [loop EXCEPT ![l] = h] BY DEF fail, GoTo
<1> HIDE DEF h
<1>4. BatchOk(h, call) /\ ~Idle(h) /\ ~Entering(h) BY <1>2, SameBatch
<1>5. BusyOk(loop[l], run_state, call, effects, bgTask, host.wait) BY LoopFacts DEF AtWork
<1>6. /\ run_state # "completed" /\ (run_state \in RunTerminal \/ loop[l].machine = run_state)
      /\ loop[l].machine \notin RunTerminal
  BY <1>5 DEF BusyOk, AtWork
<1>7. run_state \in RunStates /\ context \in ContextType BY DEF ArInv, ArTypeOK
<1>8. /\ run_state' \in RunTerminal /\ run_state' \in RunStates /\ run_state' # "completed"
      /\ (run_state \in RunTerminal => run_state' = run_state)
  BY <1>6, <1>7 DEF fail, RunTerminal, RunStates
<1> QED BY <1>2, <1>3, <1>4, <1>6, <1>7, <1>8, LoopMoves DEF AtWork

\* A loop changes the row, or gives up.
LEMMA ChangeMoves ==
  ASSUME ArInv, NEW l \in Loops, AtWork(l), NEW to \in RunStates, NEW step \in Places,
         change_state(l, to, step), Reachable(l, "failing"),
         UNCHANGED <<context, call, effects, bgTask>>,
         step = "executing" <=> to = "executing_tools",
         step \notin {"none", "marking", "perm_wait", "load", "begin", "requesting"},
         loop[l].allow \cup loop[l].deny # {} =>
           step \in {"deciding", "settled", "executing", "observe", "done", "failing"},
         step \in {"save_result", "answer", "verify", "cited", "finishing"} \/ to = "completed" =>
           run_state \in RunTerminal \/ NothingOwed(bgTask),
         to \in RunTerminal => step = "done",
         host' \in HostType, host'.up = host.up, host'.active = host.active
  PROVE  ArInv'
<1> DEFINE h == [loop[l] EXCEPT !.at = step, !.machine = to]
<1>1. loop[l] \in LoopType /\ loop \in [Loops -> LoopType] BY LoopFacts
<1>2. BusyOk(loop[l], run_state, call, effects, bgTask, host.wait) BY LoopFacts DEF AtWork
<1>3. CASE UNCHANGED run_state /\ GoTo(l, "failing")
  BY <1>3, GoMoves
<1>4. CASE /\ legal_edge(loop[l].machine, to) /\ run_state = loop[l].machine
           /\ run_state' = to /\ loop' = [loop EXCEPT ![l].at = step, ![l].machine = to]
  <2>1. /\ h \in LoopType /\ h.at = step /\ h.machine = to /\ h.todo = loop[l].todo
        /\ h.allow = loop[l].allow /\ h.deny = loop[l].deny /\ h.ran = {}
        /\ h.heard = loop[l].heard
    BY <1>1 DEF LoopType, AtWork
  <2>2. loop' = [loop EXCEPT ![l] = h] BY <1>1, <1>4
  <2> HIDE DEF h
  <2>3. BatchOk(h, call) /\ ~Idle(h) /\ ~Entering(h)
    <3>1. BatchOk(loop[l], call) BY <1>2 DEF BusyOk
    <3> QED BY <2>1, <3>1 DEF BatchOk, Reachable, Idle, Entering
  <2>4. run_state \notin RunTerminal BY <1>2, <1>4 DEF BusyOk, AtWork
  <2>5. context \in ContextType BY DEF ArInv, ArTypeOK
  <2>6. to = "completed" => step = "done" /\ NothingOwed(bgTask)
    BY <2>4 DEF RunTerminal
  <2> QED BY <1>4, <2>1, <2>2, <2>3, <2>4, <2>5, <2>6, LoopMoves DEF AtWork
<1> QED BY <1>3, <1>4 DEF change_state

\* A stopped loop ends the run.
LEMMA CancelMoves ==
  ASSUME ArInv, NEW l \in Loops, AtWork(l), Reachable(l, "failing"), cancel_or_timeout(l),
         UNCHANGED <<context, call, effects, bgTask, host>>
  PROVE  ArInv'
<1>1. host' \in HostType /\ host'.up = host.up /\ host'.active = host.active
  BY DEF ArInv, ArTypeOK
<1>2. CASE fail(l) BY <1>1, <1>2, FailMoves
<1>3. CASE change_state(l, "cancelled", "done")
  <2>1. "cancelled" \in RunStates /\ "done" \in Places BY DEF RunStates, RunTerminal, Places
  <2> QED BY <1>1, <1>3, <2>1, ChangeMoves
<1> QED BY <1>2, <1>3 DEF cancel_or_timeout

\* The host when a step leaves it alone.
LEMMA HostStays ==
  ASSUME ArInv, UNCHANGED host
  PROVE  host' \in HostType /\ host'.up = host.up /\ host'.active = host.active
  BY DEF ArInv, ArTypeOK

\* Decisions about a batch are kept only while it is dealt with.
LEMMA Reaches ==
  ASSUME ArInv, NEW l \in Loops, AtWork(l), loop[l].at # "requesting",
         NEW step \in Places \ {"none", "marking", "perm_wait", "load", "begin", "executing"},
         loop[l].at \in {"deciding", "settled", "executing", "observe", "failing"} =>
           step \in {"deciding", "settled", "observe", "done", "failing"}
  PROVE  Reachable(l, step)
<1>1. BatchOk(loop[l], call) BY LoopFacts DEF AtWork, BusyOk
<1> QED BY <1>1 DEF BatchOk, Reachable, AtWork

\* The place of a loop tells whether it has its turn.
LEMMA PlaceAtWork ==
  ASSUME ArInv, NEW l \in Loops,
         loop[l].at \notin {"none", "marking", "perm_wait", "load", "begin", "executing", "done"}
  PROVE  AtWork(l)
<1>1. ~Idle(loop[l]) /\ ~Entering(loop[l]) BY DEF Idle, Entering
<1>2. BatchOk(loop[l], call) BY <1>1, LoopFacts DEF BusyOk
<1> QED BY <1>1, <1>2 DEF AtWork, BatchOk

\* What a checkpoint writes.
LEMMA CheckpointFacts ==
  ASSUME ArInv, NEW l \in Loops, NEW asks \in Nat,
         NEW reason \in {"model_call", "assistant_error", "assistant_result"},
         checkpoint(l, reason, asks, loop[l].heard)
  PROVE  /\ context' \in ContextType /\ context'.heard = loop[l].heard
         /\ \/ bgTask' = bgTask
            \/ /\ bgTask' = [bgTask EXCEPT !.delivered = bgTask.version]
               /\ bgTask.state \in BgTerminal /\ bgTask.version \in loop[l].heard
<1>1. loop[l] \in LoopType BY LoopFacts
<1> QED BY <1>1 DEF checkpoint, received, ContextType, LoopType

\* A loop that writes a checkpoint and goes on.
LEMMA SaveMoves ==
  ASSUME ArInv, NEW l \in Loops, AtWork(l), NEW h \in LoopType, NEW asks \in Nat,
         NEW reason \in {"model_call", "assistant_error", "assistant_result"},
         checkpoint(l, reason, asks, loop[l].heard),
         loop' = [loop EXCEPT ![l] = h], h.machine = loop[l].machine, h.heard = loop[l].heard,
         h.todo = loop[l].todo, h.allow = loop[l].allow, h.deny = loop[l].deny, h.ran = {},
         Reachable(l, h.at),
         h.at \in {"save_result", "answer", "verify", "cited", "finishing"} =>
           run_state \in RunTerminal \/ NothingOwed(bgTask),
         UNCHANGED <<run_state, call, effects, host>>
  PROVE  ArInv'
<1>1. BatchOk(h, call) /\ ~Idle(h) /\ ~Entering(h) BY SameBatch
<1>2. BusyOk(loop[l], run_state, call, effects, bgTask, host.wait) BY LoopFacts DEF AtWork
<1>3. /\ run_state # "completed" /\ (run_state \in RunTerminal \/ h.machine = run_state)
      /\ h.machine \notin RunTerminal
  BY <1>2 DEF BusyOk, AtWork
<1>4. run_state \in RunStates BY DEF ArInv, ArTypeOK
<1>5. h.at # "executing" BY DEF Reachable
<1>6. /\ context' \in ContextType /\ context'.heard = h.heard
      /\ \/ bgTask' = bgTask
         \/ /\ bgTask' = [bgTask EXCEPT !.delivered = bgTask.version]
            /\ bgTask.state \in BgTerminal /\ bgTask.version \in h.heard
  BY CheckpointFacts
<1> QED BY <1>1, <1>3, <1>4, <1>5, <1>6, HostStays, LoopMoves DEF AtWork

-----------------------------------------------------------------------------
(* The rounds of a loop.                                                   *)

\* The steps that only move on, or change the row.
LEMMA RoundKeeps ==
  ASSUME ArInv, NEW l \in Loops,
         \/ Prepare(l) \/ StartGenerating(l) \/ ResumeLoop(l) \/ GenerationFailed(l)
         \/ RecordAnswer(l) \/ Verify(l) \/ FinishRun(l)
  PROVE  ArInv'
<1>0. /\ UNCHANGED <<context, call, effects, bgTask, host>>
      /\ loop[l].at \in {"prepare", "start", "resume", "errored", "answer", "verify", "finishing"}
  BY DEF Prepare, StartGenerating, ResumeLoop, GenerationFailed, RecordAnswer, Verify, FinishRun,
         stored, LoopAt
<1>1. AtWork(l) /\ host' \in HostType /\ host'.up = host.up /\ host'.active = host.active
  BY <1>0, PlaceAtWork, HostStays
<1>2. BusyOk(loop[l], run_state, call, effects, bgTask, host.wait) BY <1>1, LoopFacts DEF AtWork
<1>3. loop[l].allow \cup loop[l].deny = {} BY <1>0, <1>2 DEF BusyOk, BatchOk
<1>4. Reachable(l, "failing") BY <1>0, <1>1, Reaches DEF Places
<1>5. ASSUME NEW step \in {"start", "top", "cited", "finishing", "failing", "verify"},
             GoTo(l, step), run_state' = run_state,
             step \in {"cited", "finishing", "verify"} => loop[l].at \in {"answer", "verify"}
      PROVE  ArInv'
  <2>1. Reachable(l, step) BY <1>0, <1>1, Reaches DEF Places
  <2>2. step \in {"cited", "finishing", "verify"} =>
          run_state \in RunTerminal \/ NothingOwed(bgTask)
    BY <1>2, <1>5 DEF BusyOk
  <2> QED BY <1>0, <1>1, <1>5, <2>1, <2>2, GoMoves
<1>6. ASSUME NEW to \in RunStates \ {"executing_tools", "completed"},
             NEW step \in {"start", "top", "cited"}, change_state(l, to, step),
             step = "cited" => loop[l].at = "verify", to \notin RunTerminal
      PROVE  ArInv'
  <2>1. step = "cited" => run_state \in RunTerminal \/ NothingOwed(bgTask)
    BY <1>2, <1>6 DEF BusyOk
  <2>2. step \in Places BY DEF Places
  <2> QED BY <1>0, <1>1, <1>3, <1>4, <1>6, <2>1, <2>2, ChangeMoves
<1>7. CASE Prepare(l) BY <1>6, <1>7 DEF Prepare, RunStates, RunTerminal
<1>8. CASE StartGenerating(l)
  <2>1. CASE cancel_or_timeout(l) BY <1>0, <1>1, <1>4, <2>1, CancelMoves
  <2>2. CASE change_state(l, "generating", "top")
    BY <1>6, <2>2 DEF RunStates, RunTerminal
  <2> QED BY <1>8, <2>1, <2>2 DEF StartGenerating
<1>9. CASE ResumeLoop(l) BY <1>5, <1>9 DEF ResumeLoop
<1>10. CASE GenerationFailed(l)
  <2>1. CASE cancel_or_timeout(l) BY <1>0, <1>1, <1>4, <2>1, CancelMoves
  <2>2. CASE fail(l) BY <1>0, <1>1, <1>4, <2>2, FailMoves
  <2> QED BY <1>10, <2>1, <2>2 DEF GenerationFailed
<1>11. CASE RecordAnswer(l) BY <1>5, <1>11 DEF RecordAnswer, LoopAt
<1>12. CASE Verify(l)
  <2>1. CASE UNCHANGED run_state /\ GoTo(l, "cited")
    BY <1>5, <1>12, <2>1 DEF Verify, LoopAt
  <2>2. CASE change_state(l, "verifying", "cited")
    BY <1>6, <1>12, <2>2 DEF Verify, LoopAt, RunStates, RunTerminal
  <2> QED BY <1>12, <2>1, <2>2 DEF Verify
<1>13. CASE FinishRun(l)
  <2>1. change_state(l, "completed", "done") /\ loop[l].at = "finishing"
    BY <1>13 DEF FinishRun, LoopAt
  <2>2. run_state \in RunTerminal \/ NothingOwed(bgTask) BY <1>2, <2>1 DEF BusyOk
  <2>3. "completed" \in RunStates /\ "done" \in Places BY DEF RunStates, RunTerminal, Places
  <2> QED BY <1>0, <1>1, <1>3, <1>4, <2>1, <2>2, <2>3, ChangeMoves
<1> QED BY <1>7, <1>8, <1>9, <1>10, <1>11, <1>12, <1>13

\* Waiting for the background task: a result that was found is heard, and without one
\* nothing is owed when the loop had to wait.
LEMMA AwaitKeeps ==
  ASSUME ArInv, NEW l \in Loops, LoopTop(l) \/ NaturalStop(l)
  PROVE  ArInv'
<1>0. /\ UNCHANGED <<context, call, effects, bgTask, host>> /\ loop[l].at \in {"top", "no_tools"}
  BY DEF LoopTop, NaturalStop, stored, LoopAt
<1>1. AtWork(l) /\ host' \in HostType /\ host'.up = host.up /\ host'.active = host.active
  BY <1>0, PlaceAtWork, HostStays
<1>2. BusyOk(loop[l], run_state, call, effects, bgTask, host.wait) BY <1>1, LoopFacts DEF AtWork
<1>3. CASE cancel_or_timeout(l)
  <2>1. Reachable(l, "failing") BY <1>0, <1>1, Reaches DEF Places
  <2> QED BY <1>0, <1>1, <1>3, <2>1, CancelMoves
<1>4. ASSUME NEW found \in {"save_found", "save_late"}, run_state' = run_state,
             loop' = [loop EXCEPT ![l].at = found, ![l].heard = @ \cup {bgTask.version}]
      PROVE  ArInv'
  <2> DEFINE h == [loop[l] EXCEPT !.at = found, !.heard = @ \cup {bgTask.version}]
  <2>1. /\ loop[l] \in LoopType /\ loop \in [Loops -> LoopType] /\ bgTask.version \in Nat
        /\ run_state \in RunStates /\ context \in ContextType
    BY LoopFacts DEF ArInv, ArTypeOK, BgType
  <2>2. /\ h \in LoopType /\ h.at = found /\ h.machine = loop[l].machine
        /\ h.todo = loop[l].todo /\ h.allow = loop[l].allow /\ h.deny = loop[l].deny
        /\ h.ran = {} /\ loop[l].heard \subseteq h.heard
    BY <1>1, <2>1 DEF LoopType, Places, AtWork
  <2>3. loop' = [loop EXCEPT ![l] = h] BY <1>4, <2>1
  <2> HIDE DEF h
  <2>4. Reachable(l, found) BY <1>0, <1>1, Reaches DEF Places
  <2>5. BatchOk(h, call) /\ ~Idle(h) /\ ~Entering(h) BY <1>1, <2>2, <2>4, SameBatch
  <2>6. /\ run_state # "completed" /\ (run_state \in RunTerminal \/ h.machine = run_state)
        /\ h.machine \notin RunTerminal
    BY <1>1, <1>2, <2>2 DEF BusyOk, AtWork
  <2> QED BY <1>0, <1>1, <1>4, <2>1, <2>2, <2>3, <2>5, <2>6, LoopMoves DEF AtWork
<1>5. ASSUME NEW step \in {"verify", "answer", "deciding", "before_model", "save_result"},
             GoTo(l, step), run_state' = run_state,
             step \in {"verify", "answer", "save_result"} => ~PendingResults
      PROVE  ArInv'
  <2>1. Reachable(l, step) BY <1>0, <1>1, Reaches DEF Places
  <2>2. step \in {"save_result", "answer", "verify"} =>
          run_state \in RunTerminal \/ NothingOwed(bgTask)
    BY <1>5 DEF PendingResults, NothingOwed
  <2> QED BY <1>0, <1>1, <1>5, <2>1, <2>2, GoMoves
<1>6. CASE LoopTop(l)
  <2>1. await_background_results(l, loop[l].natural, "save_found",
                                 RoundStart(l, loop[l].natural))
    BY <1>6 DEF LoopTop
  <2>2. /\ RoundStart(l, loop[l].natural) \in {"verify", "answer", "deciding", "before_model"}
        /\ RoundStart(l, loop[l].natural) \in {"verify", "answer"} => loop[l].natural
    BY DEF RoundStart
  <2> QED BY <1>3, <1>4, <1>5, <2>1, <2>2 DEF await_background_results
<1>7. CASE NaturalStop(l)
  <2>1. await_background_results(l, TRUE, "save_late", "save_result") BY <1>7 DEF NaturalStop
  <2> QED BY <1>3, <1>4, <1>5, <2>1 DEF await_background_results
<1> QED BY <1>6, <1>7

\* The steps that write a checkpoint.
LEMMA SaveKeeps ==
  ASSUME ArInv, NEW l \in Loops,
         SaveResults(l) \/ BeforeModel(l) \/ SaveError(l) \/ SaveResult(l)
  PROVE  ArInv'
<1> DEFINE g == loop[l]
<1>0. /\ UNCHANGED <<call, effects, host>>
      /\ g.at \in {"save_found", "save_late", "before_model", "error", "save_result"}
  BY DEF SaveResults, BeforeModel, SaveError, SaveResult, LoopAt
<1>1. AtWork(l) /\ host' \in HostType /\ host'.up = host.up /\ host'.active = host.active
  BY <1>0, PlaceAtWork, HostStays
<1>2. BusyOk(g, run_state, call, effects, bgTask, host.wait) BY <1>1, LoopFacts DEF AtWork
<1>3. /\ g \in LoopType /\ loop \in [Loops -> LoopType] /\ g.asks \in Nat /\ g.ran = {}
  BY <1>1, LoopFacts DEF LoopType, AtWork
<1>4. Reachable(l, "failing") BY <1>0, <1>1, Reaches DEF Places
<1>5. CASE SaveResults(l)
  <2> DEFINE h == [g EXCEPT !.natural = FALSE,
                            !.at = IF @ = "save_late" THEN "top" ELSE RoundStart(l, FALSE)]
  <2>1. /\ checkpoint(l, "model_call", g.asks, g.heard) /\ run_state' = run_state
        /\ loop' = [loop EXCEPT ![l] = h]
    BY <1>3, <1>5 DEF SaveResults
  <2>2. RoundStart(l, FALSE) \in {"deciding", "before_model"} BY DEF RoundStart
  <2>3. /\ h \in LoopType /\ h.at \in {"top", "deciding", "before_model"}
        /\ h.machine = g.machine /\ h.heard = g.heard /\ h.todo = g.todo /\ h.allow = g.allow
        /\ h.deny = g.deny /\ h.ran = {}
    BY <1>3, <2>2 DEF LoopType, Places
  <2> HIDE DEF h
  <2>4. Reachable(l, h.at) BY <1>0, <1>1, <2>3, Reaches DEF Places
  <2> QED BY <1>0, <1>1, <1>3, <2>1, <2>3, <2>4, SaveMoves
<1>6. CASE BeforeModel(l)
  <2> DEFINE h == [g EXCEPT !.at = "calling", !.asks = @ + 1]
  <2>1. CASE cancel_or_timeout(l) /\ UNCHANGED <<context, bgTask>>
    BY <1>0, <1>1, <1>4, <2>1, CancelMoves
  <2>2. CASE fail(l) /\ UNCHANGED <<context, bgTask>>
    BY <1>0, <1>1, <1>4, <2>2, FailMoves
  <2>3. CASE /\ checkpoint(l, "model_call", g.asks + 1, g.heard) /\ run_state' = run_state
             /\ loop' = [loop EXCEPT ![l].at = "calling", ![l].asks = @ + 1]
    <3>0. g.asks + 1 \in Nat BY <1>3
    <3>1. loop' = [loop EXCEPT ![l] = h] BY <1>3, <2>3
    <3>2. /\ h \in LoopType /\ h.at = "calling" /\ h.machine = g.machine
          /\ h.heard = g.heard /\ h.todo = g.todo /\ h.allow = g.allow /\ h.deny = g.deny
          /\ h.ran = {}
      BY <1>3, <3>0 DEF LoopType, Places
    <3> HIDE DEF h
    <3>3. Reachable(l, h.at) BY <1>0, <1>1, <3>2, Reaches DEF Places
    <3> QED BY <1>0, <1>1, <2>3, <3>0, <3>1, <3>2, <3>3, SaveMoves
  <2> QED BY <1>6, <2>1, <2>2, <2>3 DEF BeforeModel
<1>7. ASSUME NEW step \in {"errored", "answer"}, GoTo(l, step), run_state' = run_state,
             NEW reason \in {"assistant_error", "assistant_result"},
             checkpoint(l, reason, g.asks, g.heard), step = "answer" => g.at = "save_result"
      PROVE  ArInv'
  <2> DEFINE h == [g EXCEPT !.at = step]
  <2>1. loop' = [loop EXCEPT ![l] = h] BY <1>7 DEF GoTo
  <2>2. /\ h \in LoopType /\ h.at = step /\ h.machine = g.machine
        /\ h.heard = g.heard /\ h.todo = g.todo /\ h.allow = g.allow /\ h.deny = g.deny
        /\ h.ran = {}
    BY <1>3 DEF LoopType, Places
  <2> HIDE DEF h
  <2>3. Reachable(l, h.at) BY <1>0, <1>1, <2>2, Reaches DEF Places
  <2>4. step = "answer" => run_state \in RunTerminal \/ NothingOwed(bgTask)
    BY <1>2, <1>7 DEF BusyOk
  <2> QED BY <1>0, <1>1, <1>3, <1>7, <2>1, <2>2, <2>3, <2>4, SaveMoves
<1>8. CASE SaveError(l) BY <1>7, <1>8 DEF SaveError
<1>9. CASE SaveResult(l) BY <1>7, <1>9 DEF SaveResult, LoopAt
<1> QED BY <1>5, <1>6, <1>8, <1>9

\* Queued input keeps a verified run going; otherwise it completes or fails.
LEMMA AfterVerifyKeeps ==
  ASSUME ArInv, NEW l \in Loops, AfterVerify(l)
  PROVE  ArInv'
<1> DEFINE g == loop[l]
<1>0. UNCHANGED <<context, call, effects, bgTask>> /\ g.at = "cited"
  BY DEF AfterVerify, stored, LoopAt
<1>1. AtWork(l) BY <1>0, PlaceAtWork
<1>2. BusyOk(g, run_state, call, effects, bgTask, host.wait) BY <1>1, LoopFacts DEF AtWork
<1>3. /\ g \in LoopType /\ loop \in [Loops -> LoopType] /\ g.ran = {} /\ context \in ContextType
  BY <1>1, LoopFacts DEF AtWork, ArInv, ArTypeOK
<1>4. Reachable(l, "failing") /\ Reachable(l, "top") BY <1>0, <1>1, Reaches DEF Places
<1>5. host' \in HostType /\ host'.up = host.up /\ host'.active = host.active
  <2>1. host \in HostType BY DEF ArInv, ArTypeOK
  <2>2. host' = host \/ host' = [host EXCEPT !.queue = FALSE] BY DEF AfterVerify
  <2> QED BY <2>1, <2>2 DEF HostType
<1>6. CASE fail(l) BY <1>0, <1>1, <1>4, <1>5, <1>6, FailMoves
<1>7. CASE change_state(l, "completing", "finishing")
  <2>1. run_state \in RunTerminal \/ NothingOwed(bgTask) BY <1>0, <1>2 DEF BusyOk
  <2>2. /\ "completing" \in RunStates /\ "finishing" \in Places /\ "completing" \notin RunTerminal
    BY DEF RunStates, RunTerminal, Places
  <2>3. g.allow \cup g.deny = {} BY <1>0, <1>2 DEF BusyOk, BatchOk
  <2> QED BY <1>0, <1>1, <1>4, <1>5, <1>7, <2>1, <2>2, <2>3, ChangeMoves
<1>8. CASE run_state' = run_state /\ GoTo(l, "failing")
  BY <1>0, <1>1, <1>4, <1>5, <1>8, GoMoves
<1>9. CASE /\ run_state = "verifying" /\ run_state' = "generating"
           /\ loop' = [loop EXCEPT ![l].at = "top", ![l].machine = "generating",
                                   ![l].natural = FALSE]
  <2> DEFINE h == [g EXCEPT !.at = "top", !.machine = "generating", !.natural = FALSE]
  <2>1. loop' = [loop EXCEPT ![l] = h] BY <1>3, <1>9
  <2>2. /\ h \in LoopType /\ h.at = "top" /\ h.machine = "generating" /\ h.heard = g.heard
        /\ h.todo = g.todo /\ h.allow = g.allow /\ h.deny = g.deny /\ h.ran = {}
    BY <1>3 DEF LoopType, Places, RunStates
  <2> HIDE DEF h
  <2>3. BatchOk(h, call) /\ ~Idle(h) /\ ~Entering(h) BY <1>1, <1>4, <2>2, SameBatch
  <2>4. /\ "generating" \notin RunTerminal /\ "generating" \in RunStates
        /\ "verifying" \notin RunTerminal
    BY DEF RunTerminal, RunStates
  <2> QED BY <1>0, <1>1, <1>3, <1>5, <1>9, <2>1, <2>2, <2>3, <2>4, LoopMoves DEF AtWork
<1> QED BY <1>6, <1>7, <1>8, <1>9 DEF AfterVerify

-----------------------------------------------------------------------------
(* The tool calls of a loop.                                               *)

\* An event about a call is recorded while the loop stays where it is.
LEMMA EventMoves ==
  ASSUME ArInv, NEW l \in Loops, NEW h \in LoopType, ~Idle(loop[l]), ~Entering(loop[l]),
         loop' = [loop EXCEPT ![l] = h], h.machine = loop[l].machine, h.heard = loop[l].heard,
         h.at = loop[l].at, BatchOk(h, call'),
         call' \in [Calls -> CallType], CallsOk(run_state, call', effects),
         \A c \in Calls : Hot(c, call', effects) => c \in h.ran,
         UNCHANGED <<run_state, context, effects, bgTask>>,
         host' \in HostType, host'.up = host.up, host'.active = host.active
  PROVE  ArInv'
<1>1. BusyOk(loop[l], run_state, call, effects, bgTask, host.wait) /\ host.active = l
  BY LoopFacts
<1>2. ~Idle(h) /\ ~Entering(h) BY DEF Idle, Entering
<1>3. BusyOk(h, run_state, call', effects, bgTask, host'.wait)
  BY <1>1, <1>2 DEF BusyOk, Entering
<1>4. LoopOk(l, h, run_state, call', effects, bgTask, host'.active, host'.wait)
  BY <1>1, <1>2, <1>3 DEF LoopOk
<1>5. /\ run_state \in RunStates /\ context \in ContextType /\ effects \in [Calls -> Nat]
      /\ bgTask \in BgType /\ ResultsOk(run_state, context, bgTask)
  BY DEF ArInv, ArTypeOK
<1> QED BY <1>1, <1>4, <1>5, BusyMoves

\* A new event about one call; its tool stays, and nothing becomes hot.
LEMMA CallMarks ==
  ASSUME ArInv, NEW c \in Calls, NEW d \in CallType, call' = [call EXCEPT ![c] = d],
         d.tool = call[c].tool, call[c].asked => d.asked, call[c].done => d.done,
         d.asked => d.tool # "none"
  PROVE  /\ call' \in [Calls -> CallType] /\ CallsOk(run_state, call', effects)
         /\ call'[c] = d /\ \A e \in Calls \ {c} : call'[e] = call[e]
         /\ \A e \in Calls : Hot(e, call', effects) => Hot(e, call, effects)
<1>1. call \in [Calls -> CallType] /\ CallsOk(run_state, call, effects) BY DEF ArInv, ArTypeOK
<1>2. /\ call' \in [Calls -> CallType] /\ call'[c] = d
      /\ \A e \in Calls \ {c} : call'[e] = call[e]
  BY <1>1
<1>3. \A e \in Calls : Hot(e, call', effects) => Hot(e, call, effects) BY <1>2 DEF Hot
<1> QED BY <1>1, <1>2, <1>3 DEF CallsOk

\* The model's answer.
LEMMA GenerateKeeps ==
  ASSUME ArInv, NEW l \in Loops, generate(l)
  PROVE  ArInv'
<1> DEFINE g == loop[l]
<1>0. UNCHANGED <<run_state, context, effects, bgTask, host>> /\ g.at = "calling"
  BY DEF generate, LoopAt
<1>1. AtWork(l) /\ host' \in HostType /\ host'.up = host.up /\ host'.active = host.active
  BY <1>0, PlaceAtWork, HostStays
<1>2. BusyOk(g, run_state, call, effects, bgTask, host.wait) BY <1>1, LoopFacts DEF AtWork
<1>3. ASSUME NEW step \in {"error", "no_tools"}, GoTo(l, step), call' = call PROVE ArInv'
  <2>1. Reachable(l, step) BY <1>0, <1>1, Reaches DEF Places
  <2> QED BY <1>0, <1>1, <1>3, <2>1, GoMoves
<1>4. ASSUME NEW batch \in SUBSET Fresh, NEW tools \in [batch -> AgentTools],
             call' = [c \in Calls |-> IF c \in batch THEN [call[c] EXCEPT !.tool = tools[c]]
                                     ELSE call[c]],
             loop' = [loop EXCEPT ![l].at = "requesting", ![l].todo = batch]
      PROVE  ArInv'
  <2> DEFINE h == [g EXCEPT !.at = "requesting", !.todo = batch]
  <2>1. /\ g \in LoopType /\ loop \in [Loops -> LoopType] /\ call \in [Calls -> CallType]
        /\ CallsOk(run_state, call, effects) /\ host.active = l
    BY <1>1, LoopFacts DEF ArInv, ArTypeOK, AtWork
  <2>2. batch \subseteq Calls BY DEF Fresh
  <2>3. loop' = [loop EXCEPT ![l] = h] BY <1>4, <2>1
  <2>4. /\ h \in LoopType /\ h.at = "requesting" /\ h.todo = batch /\ h.allow = g.allow
        /\ h.deny = g.deny /\ h.ran = g.ran /\ h.machine = g.machine /\ h.heard = g.heard
    BY <2>1, <2>2 DEF LoopType, Places
  <2> HIDE DEF h
  <2>5. g.allow = {} /\ g.deny = {} /\ g.ran = {} BY <1>0, <1>2 DEF BusyOk, BatchOk
  <2>6. ASSUME NEW c \in Calls
        PROVE  /\ call'[c] \in CallType /\ call'[c].asked = call[c].asked
               /\ call'[c].done = call[c].done
               /\ c \in batch => call'[c].tool # "none" /\ effects[c] = 0
               /\ c \notin batch => call'[c] = call[c]
    <3>1. CASE c \notin batch BY <1>4, <2>1, <3>1
    <3>2. CASE c \in batch
      <4>1. call'[c] = [call[c] EXCEPT !.tool = tools[c]] /\ tools[c] \in AgentTools
        BY <1>4, <3>2
      <4>2. call[c].tool = "none" BY <1>4, <3>2 DEF Fresh
      <4>3. effects[c] = 0 BY <2>1, <4>2 DEF CallsOk
      <4> QED BY <2>1, <3>2, <4>1, <4>3, AgentToolsAssumption DEF CallType
    <3> QED BY <3>1, <3>2
  <2>7. call' \in [Calls -> CallType] BY <1>4, <2>6
  <2>8. \A c \in Calls : Hot(c, call', effects) => Hot(c, call, effects) BY <2>6 DEF Hot
  <2>9. CallsOk(run_state, call', effects) BY <2>1, <2>6, <2>8 DEF CallsOk
  <2>10. BatchOk(h, call') BY <2>2, <2>4, <2>5, <2>6 DEF BatchOk
  <2>11. BusyOk(h, run_state, call', effects, bgTask, host.wait)
    BY <1>0, <1>2, <2>4, <2>8, <2>10 DEF BusyOk, Entering
  <2>12. LoopOk(l, h, run_state, call', effects, bgTask, host.active, host.wait)
    BY <2>1, <2>4, <2>11 DEF LoopOk, Idle, Entering
  <2>13. /\ run_state \in RunStates /\ context \in ContextType /\ effects \in [Calls -> Nat]
         /\ bgTask \in BgType /\ ResultsOk(run_state, context, bgTask)
    BY DEF ArInv, ArTypeOK
  <2> QED BY <1>0, <1>1, <2>1, <2>3, <2>4, <2>7, <2>9, <2>12, <2>13, BusyMoves DEF AtWork
<1>5. Batches \subseteq SUBSET Fresh BY DEF Batches
<1> QED BY <1>3, <1>4, <1>5 DEF generate

\* The requests, one by one, then the permission state.
LEMMA RequestKeeps ==
  ASSUME ArInv, NEW l \in Loops, RecordRequest(l)
  PROVE  ArInv'
<1> DEFINE g == loop[l]
<1>0. UNCHANGED <<context, effects, bgTask, host>> /\ g.at = "requesting"
  BY DEF RecordRequest, LoopAt
<1>1. AtWork(l) /\ host' \in HostType /\ host'.up = host.up /\ host'.active = host.active
  BY <1>0, PlaceAtWork, HostStays
<1>2. BusyOk(g, run_state, call, effects, bgTask, host.wait) BY <1>1, LoopFacts DEF AtWork
<1>3. /\ g \in LoopType /\ loop \in [Loops -> LoopType] /\ call \in [Calls -> CallType]
      /\ g.todo \subseteq Calls
  BY LoopFacts DEF ArInv, ArTypeOK, LoopType
<1>4. g.allow = {} /\ g.deny = {} /\ g.ran = {} BY <1>0, <1>2 DEF BusyOk, BatchOk
<1>5. ASSUME NEW c \in g.todo, call' = [call EXCEPT ![c].asked = TRUE],
             UNCHANGED <<run_state, loop>>
      PROVE  ArInv'
  <2> DEFINE d == [call[c] EXCEPT !.asked = TRUE]
  <2>1. /\ c \in Calls /\ d \in CallType /\ d.tool = call[c].tool /\ d.asked
        /\ d.done = call[c].done /\ call' = [call EXCEPT ![c] = d]
    BY <1>3, <1>5 DEF CallType
  <2>2. d.tool # "none" BY <1>2, <1>5, <2>1 DEF BusyOk, BatchOk
  <2> HIDE DEF d
  <2>3. /\ call' \in [Calls -> CallType] /\ CallsOk(run_state, call', effects)
        /\ call'[c] = d /\ \A e \in Calls \ {c} : call'[e] = call[e]
        /\ \A e \in Calls : Hot(e, call', effects) => Hot(e, call, effects)
    BY <2>1, <2>2, CallMarks
  <2>4. BatchOk(g, call') BY <1>0, <1>2, <1>3, <2>2, <2>3 DEF BusyOk, BatchOk
  <2>5. loop' = [loop EXCEPT ![l] = g] BY <1>3, <1>5
  <2>6. \A e \in Calls : Hot(e, call', effects) => e \in g.ran BY <1>2, <2>3 DEF BusyOk
  <2> QED BY <1>0, <1>1, <1>3, <1>5, <2>3, <2>4, <2>5, <2>6, EventMoves DEF AtWork
<1>6. ASSUME \A c \in g.todo : call[c].asked, call' = call,
             \/ run_state' = run_state /\ GoTo(l, "deciding")
             \/ change_state(l, "awaiting_permission", "deciding")
      PROVE  ArInv'
  <2>1. Reachable(l, "deciding") /\ Reachable(l, "failing")
    BY <1>4, <1>6 DEF Reachable, Places
  <2>2. "awaiting_permission" \in RunStates \ RunTerminal /\ "deciding" \in Places
    BY DEF RunStates, RunTerminal, Places
  <2>3. CASE run_state' = run_state /\ GoTo(l, "deciding")
    BY <1>0, <1>1, <1>6, <2>1, <2>3, GoMoves
  <2>4. CASE change_state(l, "awaiting_permission", "deciding")
    BY <1>0, <1>1, <1>6, <2>1, <2>2, <2>4, ChangeMoves
  <2> QED BY <1>6, <2>3, <2>4
<1> QED BY <1>5, <1>6 DEF RecordRequest

\* A decision about a call of the batch: by a hook or the tool itself, by the user, or
\* the one found by the recovery.
LEMMA DecisionKeeps ==
  ASSUME ArInv, NEW l \in Loops, NEW c \in Calls,
         \/ DecideAlone(l, c) \/ AskPermission(l, c) \/ ReceiveDecision(l, c)
         \/ ResumeDecision(l, c)
  PROVE  ArInv'
<1> DEFINE g == loop[l]
<1>0. /\ UNCHANGED <<context, effects, bgTask>> /\ g.at = "deciding" /\ c \in g.todo
  BY DEF DecideAlone, AskPermission, ReceiveDecision, ResumeDecision, Deciding, LoopAt, IsFirst,
         Undecided, stored
<1>1. AtWork(l) BY <1>0, PlaceAtWork
<1>2. BusyOk(g, run_state, call, effects, bgTask, host.wait) BY <1>1, LoopFacts DEF AtWork
<1>3. /\ g \in LoopType /\ loop \in [Loops -> LoopType] /\ call \in [Calls -> CallType]
      /\ CallsOk(run_state, call, effects) /\ host \in HostType /\ g.ran = {}
  BY <1>1, LoopFacts DEF ArInv, ArTypeOK, AtWork
<1>4. ASSUME run_state' = run_state, call' = call \/ \E p \in {"asked", "resolved"} :
                                                call' = [call EXCEPT ![c].permission = p]
      PROVE  /\ call' \in [Calls -> CallType] /\ CallsOk(run_state, call', effects)
             /\ \A e \in Calls : Hot(e, call', effects) => e \in g.ran
             /\ \A h : BatchOk(h, call) /\ h.todo \subseteq Calls => BatchOk(h, call')
  <2>1. CASE call' = call BY <1>2, <1>3, <2>1 DEF BusyOk
  <2>2. ASSUME NEW p \in {"asked", "resolved"}, call' = [call EXCEPT ![c].permission = p]
        PROVE  /\ call' \in [Calls -> CallType] /\ CallsOk(run_state, call', effects)
               /\ \A e \in Calls : Hot(e, call', effects) => e \in g.ran
               /\ \A h : BatchOk(h, call) /\ h.todo \subseteq Calls => BatchOk(h, call')
    <3> DEFINE d == [call[c] EXCEPT !.permission = p]
    <3>1. /\ d \in CallType /\ d.tool = call[c].tool /\ d.asked = call[c].asked
          /\ d.done = call[c].done /\ call' = [call EXCEPT ![c] = d]
      BY <1>3, <2>2 DEF CallType
    <3> HIDE DEF d
    <3>2. d.asked => d.tool # "none" BY <1>3, <3>1 DEF CallsOk
    <3>3. /\ call' \in [Calls -> CallType] /\ CallsOk(run_state, call', effects)
          /\ call'[c] = d /\ \A e \in Calls \ {c} : call'[e] = call[e]
          /\ \A e \in Calls : Hot(e, call', effects) => Hot(e, call, effects)
      BY <3>1, <3>2, CallMarks
    <3>4. \A e \in Calls : call'[e].tool = call[e].tool /\ call'[e].asked = call[e].asked
      BY <3>1, <3>3
    <3>5. \A h : BatchOk(h, call) /\ h.todo \subseteq Calls => BatchOk(h, call')
      BY <3>4 DEF BatchOk
    <3> QED BY <1>2, <3>3, <3>5 DEF BusyOk
  <2> QED BY <1>4, <2>1, <2>2
<1>5. ASSUME run_state' = run_state, NEW allowed \in BOOLEAN, Settle(l, c, allowed),
             call' = call \/ call' = [call EXCEPT ![c].permission = "resolved"],
             host' \in HostType, host'.up = host.up, host'.active = host.active
      PROVE  ArInv'
  <2> DEFINE h == [g EXCEPT !.allow = IF allowed THEN @ \cup {c} ELSE @,
                            !.deny = IF allowed THEN @ ELSE @ \cup {c}]
  <2>1. loop' = [loop EXCEPT ![l] = h] BY <1>3, <1>5 DEF Settle
  <2>2. /\ h \in LoopType /\ h.at = "deciding" /\ h.machine = g.machine /\ h.heard = g.heard
        /\ h.todo = g.todo /\ h.ran = {} /\ h.allow \subseteq g.allow \cup {c}
        /\ h.deny \subseteq g.deny \cup {c} /\ h.todo \subseteq Calls
    BY <1>0, <1>3 DEF LoopType
  <2> HIDE DEF h
  <2>3. BatchOk(h, call) BY <1>0, <1>2, <2>2 DEF BusyOk, BatchOk
  <2>4. /\ call' \in [Calls -> CallType] /\ CallsOk(run_state, call', effects)
        /\ \A e \in Calls : Hot(e, call', effects) => e \in h.ran
        /\ BatchOk(h, call')
    BY <1>3, <1>4, <1>5, <2>2, <2>3
  <2> QED BY <1>0, <1>1, <1>5, <2>1, <2>2, <2>4, EventMoves DEF AtWork
<1>6. CASE DecideAlone(l, c)
  <2>1. /\ run_state' = run_state /\ call' = call /\ host' = host
        /\ \E allowed \in BOOLEAN : Settle(l, c, allowed)
    BY <1>6 DEF DecideAlone, stored
  <2> QED BY <1>5, <2>1, HostStays
<1>7. CASE AskPermission(l, c)
  <2>1. /\ run_state' = run_state /\ loop' = loop
        /\ call' = [call EXCEPT ![c].permission = "asked"]
        /\ \E answer \in {"open", "deny", "allow"} :
             host' = [host EXCEPT !.wait = [c |-> c, decision |-> answer]]
    BY <1>7 DEF AskPermission
  <2>2. c \in Nat BY DEF Calls
  <2>3. host' \in HostType /\ host'.up = host.up /\ host'.active = host.active
    BY <1>3, <2>1, <2>2 DEF HostType, WaitType
  <2>4. BatchOk(g, call) /\ g.todo \subseteq Calls BY <1>2, <1>3 DEF BusyOk, LoopType
  <2>5. /\ call' \in [Calls -> CallType] /\ CallsOk(run_state, call', effects)
        /\ \A e \in Calls : Hot(e, call', effects) => e \in g.ran
        /\ BatchOk(g, call')
    BY <1>4, <2>1, <2>4
  <2>6. loop' = [loop EXCEPT ![l] = g] BY <1>3, <2>1
  <2> QED BY <1>0, <1>1, <1>3, <2>1, <2>3, <2>5, <2>6, EventMoves DEF AtWork
<1>8. CASE ReceiveDecision(l, c)
  <2>1. /\ run_state' = run_state /\ call' = [call EXCEPT ![c].permission = "resolved"]
        /\ host' = [host EXCEPT !.wait = NoWait,
             !.remembered = IF host.wait.decision = "allow_session" THEN @ \cup {call[c].tool}
                            ELSE @]
        /\ \E allowed \in BOOLEAN : Settle(l, c, allowed)
    BY <1>8 DEF ReceiveDecision
  <2>2. call[c].tool \in AgentTools
    BY <1>0, <1>2, <1>3 DEF BusyOk, BatchOk, CallType
  <2>3. host' \in HostType /\ host'.up = host.up /\ host'.active = host.active
    BY <1>3, <2>1, <2>2 DEF HostType, WaitType, NoWait
  <2> QED BY <1>5, <2>1, <2>3
<1>9. CASE ResumeDecision(l, c)
  <2>1. host' \in HostType /\ host'.up = host.up /\ host'.active = host.active /\ host' = host
    BY <1>9, HostStays DEF ResumeDecision
  <2>2. CASE fail(l) /\ call' = call
    <3>1. Reachable(l, "failing") BY <1>0, <1>1, Reaches DEF Places
    <3> QED BY <1>0, <1>1, <2>1, <2>2, <3>1, FailMoves
  <2>3. CASE /\ call' = [call EXCEPT ![c].permission = "resolved"]
             /\ Settle(l, c, g.said.decision # "deny") /\ run_state' = run_state
    BY <1>5, <2>1, <2>3
  <2> QED BY <1>9, <2>2, <2>3 DEF ResumeDecision
<1> QED BY <1>6, <1>7, <1>8, <1>9

\* The denied calls are completed, then the loop goes on.
LEMMA DeniedKeeps ==
  ASSUME ArInv, NEW l \in Loops, RecordDenied(l)
  PROVE  ArInv'
<1> DEFINE g == loop[l]
<1>0. UNCHANGED <<context, effects, bgTask, host>> /\ g.at = "deciding"
  BY DEF RecordDenied, LoopAt
<1>1. AtWork(l) /\ host' \in HostType /\ host'.up = host.up /\ host'.active = host.active
  BY <1>0, PlaceAtWork, HostStays
<1>2. BusyOk(g, run_state, call, effects, bgTask, host.wait) BY <1>1, LoopFacts DEF AtWork
<1>3. /\ g \in LoopType /\ loop \in [Loops -> LoopType] /\ call \in [Calls -> CallType]
      /\ g.todo \subseteq Calls /\ g.deny \subseteq g.todo /\ CallsOk(run_state, call, effects)
  BY <1>2, LoopFacts DEF ArInv, ArTypeOK, LoopType, BusyOk, BatchOk
<1>4. Reachable(l, "failing") /\ Reachable(l, "settled") BY <1>0, <1>1, Reaches DEF Places
<1>5. CASE cancel_or_timeout(l) /\ call' = call BY <1>0, <1>1, <1>4, <1>5, CancelMoves
<1>6. CASE GoTo(l, "settled") /\ UNCHANGED <<run_state, call>>
  BY <1>0, <1>1, <1>4, <1>6, GoMoves
<1>7. ASSUME NEW c \in g.deny, call' = [call EXCEPT ![c].done = TRUE],
             UNCHANGED <<run_state, loop>>
      PROVE  ArInv'
  <2> DEFINE d == [call[c] EXCEPT !.done = TRUE]
  <2>1. /\ c \in Calls /\ d \in CallType /\ d.tool = call[c].tool /\ d.asked = call[c].asked
        /\ d.done /\ call' = [call EXCEPT ![c] = d]
    BY <1>3, <1>7 DEF CallType
  <2> HIDE DEF d
  <2>2. d.asked => d.tool # "none" BY <1>3, <2>1 DEF CallsOk
  <2>3. /\ call' \in [Calls -> CallType] /\ CallsOk(run_state, call', effects)
        /\ call'[c] = d /\ \A e \in Calls \ {c} : call'[e] = call[e]
        /\ \A e \in Calls : Hot(e, call', effects) => Hot(e, call, effects)
    BY <2>1, <2>2, CallMarks
  <2>4. BatchOk(g, call') BY <1>2, <1>3, <2>1, <2>3 DEF BusyOk, BatchOk
  <2>5. loop' = [loop EXCEPT ![l] = g] BY <1>3, <1>7
  <2>6. \A e \in Calls : Hot(e, call', effects) => e \in g.ran BY <1>2, <2>3 DEF BusyOk
  <2> QED BY <1>0, <1>1, <1>3, <1>7, <2>3, <2>4, <2>5, <2>6, EventMoves DEF AtWork
<1> QED BY <1>5, <1>6, <1>7 DEF RecordDenied

\* The loop starts to execute the allowed calls, or has none.
LEMMA EnterKeeps ==
  ASSUME ArInv, NEW l \in Loops, EnterTools(l)
  PROVE  ArInv'
<1> DEFINE g == loop[l]
<1>0. UNCHANGED <<context, call, effects, bgTask, host>> /\ g.at = "settled"
  BY DEF EnterTools, LoopAt, stored
<1>1. AtWork(l) /\ host' \in HostType /\ host'.up = host.up /\ host'.active = host.active
  BY <1>0, PlaceAtWork, HostStays
<1>2. BusyOk(g, run_state, call, effects, bgTask, host.wait) BY <1>1, LoopFacts DEF AtWork
<1>3. Reachable(l, "failing") /\ Reachable(l, "observe") BY <1>0, <1>1, Reaches DEF Places
<1>4. CASE change_state(l, "generating", "observe")
  <2>1. "generating" \in RunStates \ RunTerminal /\ "observe" \in Places
    BY DEF RunStates, RunTerminal, Places
  <2> QED BY <1>0, <1>1, <1>3, <1>4, <2>1, ChangeMoves
<1>5. CASE GoTo(l, "observe") /\ run_state' = run_state BY <1>0, <1>1, <1>3, <1>5, GoMoves
<1>6. CASE change_state(l, "executing_tools", "executing")
  <2>1. "executing_tools" \in RunStates \ RunTerminal /\ "executing" \in Places
    BY DEF RunStates, RunTerminal, Places
  <2> QED BY <1>0, <1>1, <1>3, <1>6, <2>1, ChangeMoves
<1>7. CASE g.machine = "executing_tools" /\ GoTo(l, "executing") /\ run_state' = run_state
  <2> DEFINE h == [g EXCEPT !.at = "executing"]
  <2>1. /\ g \in LoopType /\ run_state \in RunStates /\ context \in ContextType
    BY LoopFacts DEF ArInv, ArTypeOK
  <2>2. /\ h \in LoopType /\ h.at = "executing" /\ h.machine = "executing_tools"
        /\ h.todo = g.todo /\ h.allow = g.allow /\ h.deny = g.deny /\ h.ran = {}
        /\ h.heard = g.heard
    BY <1>1, <1>7, <2>1 DEF LoopType, Places, AtWork
  <2>3. loop' = [loop EXCEPT ![l] = h] BY <1>7 DEF GoTo
  <2> HIDE DEF h
  <2>4. BatchOk(h, call) /\ ~Idle(h) /\ ~Entering(h)
    BY <1>0, <1>2, <2>2 DEF BusyOk, BatchOk, Idle, Entering
  <2>5. /\ run_state # "completed" /\ (run_state \in RunTerminal \/ h.machine = run_state)
        /\ h.machine \notin RunTerminal
    BY <1>0, <1>2, <1>7, <2>2 DEF BusyOk, RunTerminal
  <2> QED BY <1>0, <1>1, <1>7, <2>1, <2>2, <2>3, <2>4, <2>5, LoopMoves DEF AtWork
<1> QED BY <1>4, <1>5, <1>6, <1>7 DEF EnterTools

\* A group of calls is executed: none of them has run before, unless it may run again.
LEMMA ExecuteKeeps ==
  ASSUME ArInv, NEW l \in Loops, execute_tool_batch(l)
  PROVE  ArInv'
<1> DEFINE g == loop[l]
<1>0. UNCHANGED <<context, call, host>> /\ g.at = "executing" /\ g.ran = {}
  BY DEF execute_tool_batch, LoopAt
<1>1. AtWork(l) /\ host' \in HostType /\ host'.up = host.up /\ host'.active = host.active
  BY <1>0, HostStays DEF AtWork, Idle, Entering
<1>2. BusyOk(g, run_state, call, effects, bgTask, host.wait) /\ host.active = l
  BY <1>1, LoopFacts DEF AtWork
<1>3. Reachable(l, "failing") /\ Reachable(l, "observe") BY <1>0, <1>1, Reaches DEF Places
<1>4. CASE cancel_or_timeout(l) /\ UNCHANGED <<effects, bgTask>>
  BY <1>0, <1>1, <1>3, <1>4, CancelMoves
<1>5. CASE change_state(l, "generating", "observe") /\ UNCHANGED <<effects, bgTask>>
  <2>1. "generating" \in RunStates \ RunTerminal /\ "observe" \in Places
    BY DEF RunStates, RunTerminal, Places
  <2> QED BY <1>0, <1>1, <1>3, <1>5, <2>1, ChangeMoves
<1>6. ASSUME NEW group \in SUBSET {c \in g.allow : ~call[c].done},
             effects' = [c \in Calls |-> IF c \in group THEN effects[c] + 1 ELSE effects[c]],
             bgTask' = bgTask \/
               (bgTask.state = "none" /\ bgTask' = [bgTask EXCEPT !.state = "running"]),
             loop' = [loop EXCEPT ![l].ran = group], run_state' = run_state
      PROVE  ArInv'
  <2> DEFINE h == [g EXCEPT !.ran = group]
  <2>1. /\ g \in LoopType /\ loop \in [Loops -> LoopType] /\ call \in [Calls -> CallType]
        /\ effects \in [Calls -> Nat] /\ bgTask \in BgType /\ run_state \in RunStates
        /\ context \in ContextType /\ CallsOk(run_state, call, effects)
        /\ ResultsOk(run_state, context, bgTask)
    BY LoopFacts DEF ArInv, ArTypeOK
  <2>2. loop' = [loop EXCEPT ![l] = h] BY <1>6, <2>1
  <2>3. /\ h \in LoopType /\ h.at = "executing" /\ h.todo = g.todo /\ h.allow = g.allow
        /\ h.deny = g.deny /\ h.ran = group /\ h.machine = g.machine /\ h.heard = g.heard
    BY <1>0, <1>6, <2>1 DEF LoopType
  <2> HIDE DEF h
  <2>4. group \subseteq g.todo /\ group \subseteq Calls /\ group \subseteq g.allow
    BY <1>2, <1>6, <2>1 DEF BusyOk, BatchOk, LoopType
  <2>5. \A c \in group : call[c].asked /\ (call[c].tool \notin Idempotent => effects[c] = 0)
    <3>1. \A c \in group : ~Hot(c, call, effects) BY <1>0, <1>2, <2>4 DEF BusyOk
    <3> QED BY <1>0, <1>2, <1>6, <2>4, <3>1 DEF Hot, BusyOk, BatchOk
  <2>6. /\ effects' \in [Calls -> Nat] /\ \A c \in Calls \ group : effects'[c] = effects[c]
        /\ \A c \in group : effects'[c] = effects[c] + 1
    BY <1>6, <2>1, <2>4
  <2>7. \A c \in Calls : Hot(c, call, effects') => c \in group
    BY <1>0, <1>2, <2>6 DEF Hot, BusyOk
  <2>8. run_state \in {"executing_tools"} \cup RunTerminal BY <1>0, <1>2 DEF BusyOk
  <2>9. CallsOk(run_state, call, effects') BY <2>1, <2>5, <2>6, <2>8 DEF CallsOk
  <2>10. /\ bgTask' \in BgType /\ bgTask'.delivered = bgTask.delivered
         /\ bgTask' = bgTask \/ bgTask'.state = "running"
    BY <1>6, <2>1 DEF BgType
  <2>11. run_state # "completed" BY <1>0, <1>2 DEF BusyOk
  <2>12. ResultsOk(run_state, context, bgTask')
    BY <2>1, <2>10, <2>11 DEF ResultsOk, BgTerminal
  <2>13. BatchOk(h, call) BY <1>0, <1>2, <2>3, <2>4 DEF BusyOk, BatchOk
  <2>14. BusyOk(h, run_state, call, effects', bgTask', host.wait)
    BY <1>0, <1>2, <2>3, <2>7, <2>10, <2>11, <2>13 DEF BusyOk, Entering
  <2>15. LoopOk(l, h, run_state, call, effects', bgTask', host.active, host.wait)
    BY <1>2, <2>3, <2>14 DEF LoopOk, Idle, Entering
  <2> QED
    BY <1>0, <1>1, <1>2, <1>6, <2>1, <2>2, <2>3, <2>6, <2>9, <2>10, <2>12, <2>15, BusyMoves
    DEF AtWork
<1> DEFINE left == {c \in g.allow : ~call[c].done}
           group == NextGroup(left)
<1>7. CASE /\ effects' = [c \in Calls |-> IF c \in group THEN effects[c] + 1 ELSE effects[c]]
           /\ bgTask' = IF bgTask.state = "none" /\ \E c \in group : call[c].tool \in Detached
                        THEN [bgTask EXCEPT !.state = "running"] ELSE bgTask
           /\ loop' = [loop EXCEPT ![l].ran = group] /\ run_state' = run_state
  <2>1. group \in SUBSET left BY DEF NextGroup
  <2> HIDE DEF group
  <2>2. bgTask' = bgTask \/
          (bgTask.state = "none" /\ bgTask' = [bgTask EXCEPT !.state = "running"])
    BY <1>7
  <2> QED BY <1>6, <1>7, <2>1, <2>2
<1> QED BY <1>4, <1>5, <1>7 DEF execute_tool_batch

\* The event of a call that ran.
LEMMA ResultKeeps ==
  ASSUME ArInv, NEW l \in Loops, record_tool_result(l)
  PROVE  ArInv'
<1> DEFINE g == loop[l]
<1>0. /\ UNCHANGED <<run_state, context, effects, bgTask, host>> /\ g.at = "executing"
  BY DEF record_tool_result, LoopAt
<1>1. /\ ~Idle(g) /\ ~Entering(g)
      /\ host' \in HostType /\ host'.up = host.up /\ host'.active = host.active
  BY <1>0, HostStays DEF Idle, Entering
<1>2. BusyOk(g, run_state, call, effects, bgTask, host.wait) BY <1>1, LoopFacts
<1>3. PICK c \in g.ran : /\ call' = [call EXCEPT ![c].done = TRUE]
                         /\ loop' = [loop EXCEPT ![l].ran = @ \ {c}]
  BY DEF record_tool_result
<1>4. /\ g \in LoopType /\ loop \in [Loops -> LoopType] /\ call \in [Calls -> CallType]
      /\ g.todo \subseteq Calls /\ g.ran \subseteq Calls /\ CallsOk(run_state, call, effects)
  BY LoopFacts DEF ArInv, ArTypeOK, LoopType
<1> DEFINE d == [call[c] EXCEPT !.done = TRUE]
           h == [g EXCEPT !.ran = @ \ {c}]
<1>5. /\ c \in Calls /\ d \in CallType /\ d.tool = call[c].tool /\ d.asked = call[c].asked
      /\ d.done /\ call' = [call EXCEPT ![c] = d]
  BY <1>3, <1>4 DEF CallType
<1>6. /\ h \in LoopType /\ h.at = g.at /\ h.todo = g.todo /\ h.allow = g.allow /\ h.deny = g.deny
      /\ h.ran = g.ran \ {c} /\ h.machine = g.machine /\ h.heard = g.heard
      /\ loop' = [loop EXCEPT ![l] = h]
  BY <1>3, <1>4 DEF LoopType
<1> HIDE DEF d, h
<1>7. d.asked => d.tool # "none" BY <1>4, <1>5 DEF CallsOk
<1>8. /\ call' \in [Calls -> CallType] /\ CallsOk(run_state, call', effects)
      /\ call'[c] = d /\ \A e \in Calls \ {c} : call'[e] = call[e]
      /\ \A e \in Calls : Hot(e, call', effects) => Hot(e, call, effects)
  BY <1>5, <1>7, CallMarks
<1>9. BatchOk(h, call') BY <1>0, <1>2, <1>4, <1>5, <1>6, <1>8 DEF BusyOk, BatchOk
<1>10. \A e \in Calls : Hot(e, call', effects) => e \in h.ran
  BY <1>2, <1>5, <1>6, <1>8 DEF BusyOk, Hot
<1> QED BY <1>0, <1>1, <1>6, <1>8, <1>9, <1>10, EventMoves

\* The batch is over.
LEMMA ObserveKeeps ==
  ASSUME ArInv, NEW l \in Loops, Observe(l)
  PROVE  ArInv'
<1> DEFINE g == loop[l]
           h == [g EXCEPT !.at = "top", !.known = @ \cup g.todo, !.todo = {}, !.replayed = FALSE,
                          !.said = NoWait, !.allow = {}, !.deny = {}]
<1>0. /\ UNCHANGED <<run_state, context, call, effects, bgTask>> /\ g.at = "observe"
      /\ host' = [host EXCEPT !.queue = FALSE]
  BY DEF Observe, LoopAt, stored
<1>1. AtWork(l) BY <1>0, PlaceAtWork
<1>2. BusyOk(g, run_state, call, effects, bgTask, host.wait) BY <1>1, LoopFacts DEF AtWork
<1>3. /\ g \in LoopType /\ loop \in [Loops -> LoopType] /\ host \in HostType
      /\ run_state \in RunStates /\ context \in ContextType /\ g.ran = {}
  BY <1>1, LoopFacts DEF ArInv, ArTypeOK, AtWork
<1>4. host' \in HostType /\ host'.up = host.up /\ host'.active = host.active
  BY <1>0, <1>3 DEF HostType
<1>5. loop' = [loop EXCEPT ![l] = h] BY <1>3 DEF Observe
<1>6. /\ h \in LoopType /\ h.at = "top" /\ h.todo = {} /\ h.allow = {} /\ h.deny = {}
      /\ h.ran = {} /\ h.machine = g.machine /\ h.heard = g.heard
  BY <1>3 DEF LoopType, Places, NoWait, WaitType
<1> HIDE DEF h
<1>7. BatchOk(h, call) /\ ~Idle(h) /\ ~Entering(h) BY <1>6 DEF BatchOk, Idle, Entering
<1>8. /\ run_state # "completed" /\ (run_state \in RunTerminal \/ h.machine = run_state)
      /\ h.machine \notin RunTerminal
  BY <1>0, <1>2, <1>6 DEF BusyOk
<1> QED BY <1>0, <1>1, <1>3, <1>4, <1>5, <1>6, <1>7, <1>8, LoopMoves DEF AtWork

-----------------------------------------------------------------------------
(* Turns begin and end.                                                    *)

\* Before a loop has its turn nobody has one.
LEMMA EnteringFree ==
  ASSUME ArInv, NEW l \in Loops, Entering(loop[l])
  PROVE  host.active = 0 /\ ~Idle(loop[l])
<1>1. ~Idle(loop[l]) BY DEF Entering, Idle
<1>2. \A k \in Loops : host.active # k
  <2> SUFFICES ASSUME NEW k \in Loops, host.active = k PROVE FALSE OBVIOUS
  <2>1. ~Idle(loop[k]) /\ ~Entering(loop[k]) BY LoopFacts
  <2> QED BY <1>1, <2>1 DEF ArInv, OneBusy
<1> QED BY <1>1, <1>2 DEF ArInv, ArTypeOK, HostType

\* A loop that has no batch yet, or only pending calls, with the turn or without it.
LEMMA EnterMoves ==
  ASSUME ArInv, NEW l \in Loops, Entering(loop[l]), NEW h \in LoopType,
         loop' = [loop EXCEPT ![l] = h], h.at \in {"load", "begin", "resume", "prepare"},
         h.machine = loop[l].machine, h.heard = loop[l].heard, h.resumed = loop[l].resumed,
         h.allow = loop[l].allow, h.deny = loop[l].deny, h.ran = loop[l].ran,
         h.todo = loop[l].todo \/ h.todo \subseteq pending_tools,
         h.at = "load" => loop[l].resumed,
         h.at = "begin" => loop[l].at = "load",
         UNCHANGED <<run_state, context, call, effects, bgTask>>,
         host' \in HostType, host'.up = host.up,
         host'.active = IF Entering(h) THEN 0 ELSE l
  PROVE  ArInv'
<1>1. host.active = 0 /\ ~Idle(loop[l]) BY EnteringFree
<1>2. BusyOk(loop[l], run_state, call, effects, bgTask, host.wait) BY <1>1, LoopFacts
<1>3. /\ run_state \in RunStates /\ context \in ContextType /\ call \in [Calls -> CallType]
      /\ effects \in [Calls -> Nat] /\ bgTask \in BgType
      /\ CallsOk(run_state, call, effects) /\ ResultsOk(run_state, context, bgTask)
  BY DEF ArInv, ArTypeOK
<1>4. h.allow = {} /\ h.deny = {} /\ h.ran = {} BY <1>2 DEF BusyOk, BatchOk, Entering
<1>5. \A c \in h.todo : call[c].tool # "none" /\ call[c].asked
  <2>1. CASE h.todo = loop[l].todo BY <1>2, <2>1 DEF BusyOk, BatchOk, Entering
  <2>2. CASE h.todo \subseteq pending_tools BY <1>3, <2>2 DEF pending_tools, CallsOk
  <2> QED BY <2>1, <2>2
<1>6. BatchOk(h, call) BY <1>4, <1>5 DEF BatchOk
<1>7. BusyOk(h, run_state, call, effects, bgTask, host'.wait)
  BY <1>2, <1>4, <1>6 DEF BusyOk, Entering
<1>8. LoopOk(l, h, run_state, call, effects, bgTask, host'.active, host'.wait)
  BY <1>7 DEF LoopOk, Entering, Idle, Loops
<1>9. host'.active \in {0, l} OBVIOUS
<1> QED BY <1>1, <1>3, <1>8, <1>9, BusyMoves

\* A busy loop gives up its turn, if it has one, and works on the run no more.
LEMMA LeaveMoves ==
  ASSUME ArInv, NEW l \in Loops, ~Idle(loop[l]), NEW h \in LoopType, Idle(h),
         loop' = [loop EXCEPT ![l] = h],
         UNCHANGED <<run_state, context, call, effects, bgTask>>,
         host' \in HostType, host'.up = host.up, host'.active = 0
  PROVE  ArInv'
<1>1. /\ run_state \in RunStates /\ context \in ContextType /\ call \in [Calls -> CallType]
      /\ effects \in [Calls -> Nat] /\ bgTask \in BgType
      /\ CallsOk(run_state, call, effects) /\ ResultsOk(run_state, context, bgTask)
  BY DEF ArInv, ArTypeOK
<1>2. LoopOk(l, h, run_state, call, effects, bgTask, host'.active, host'.wait)
  BY DEF LoopOk, Loops
<1> QED BY <1>1, <1>2, BusyMoves

LEMMA NoLoopType == NoLoop \in LoopType /\ Idle(NoLoop) /\ ~Entering(NoLoop)
  BY DEF NoLoop, LoopType, Idle, Entering, Places, RunStates, WaitType, NoWait

\* The steps that begin or end a turn.
LEMMA TurnKeeps ==
  ASSUME ArInv, NEW l \in Loops,
         \/ begin_turn(l) \/ finish_turn(l) \/ finish_failed_turn(l)
         \/ AwaitRestored(l) \/ LoadRecovered(l)
  PROVE  ArInv'
<1> DEFINE g == loop[l]
<1>1. /\ g \in LoopType /\ loop \in [Loops -> LoopType] /\ host \in HostType
      /\ UNCHANGED <<run_state, context, call, effects, bgTask>>
  BY LoopFacts
  DEF ArInv, ArTypeOK, begin_turn, finish_turn, finish_failed_turn, AwaitRestored, LoadRecovered,
      stored
<1>2. Released \in HostType /\ Released.up = host.up /\ Released.active = 0
  BY <1>1 DEF Released, HostType
<1>3. CASE begin_turn(l)
  <2>1. g.at = "begin" /\ Entering(g) BY <1>3 DEF begin_turn, LoopAt, Entering
  <2>2. host.active = 0 BY <2>1, EnteringFree
  <2> DEFINE h == [g EXCEPT !.at = IF g.resumed THEN "resume" ELSE "prepare"]
  <2>3. host' = [host EXCEPT !.active = l] /\ loop' = [loop EXCEPT ![l] = h]
    BY <1>1, <1>3, <2>2 DEF begin_turn, GoTo
  <2>4. host' \in HostType /\ host'.up = host.up /\ host'.active = l
    BY <1>1, <2>3 DEF HostType
  <2>5. /\ h \in LoopType /\ h.at \in {"resume", "prepare"} /\ h.machine = g.machine
        /\ h.heard = g.heard /\ h.resumed = g.resumed /\ h.todo = g.todo
        /\ h.allow = g.allow /\ h.deny = g.deny /\ h.ran = g.ran
    BY <1>1 DEF LoopType, Places
  <2> HIDE DEF h
  <2>6. ~Entering(h) BY <2>5 DEF Entering
  <2> QED BY <1>1, <2>1, <2>3, <2>4, <2>5, <2>6, EnterMoves
<1>4. CASE finish_turn(l)
  <2>1. ~Idle(g) /\ host' = Released /\ loop' = [loop EXCEPT ![l] = NoLoop]
    BY <1>4 DEF finish_turn, LoopAt, Idle
  <2> QED BY <1>1, <1>2, <2>1, NoLoopType, LeaveMoves
<1>5. CASE finish_failed_turn(l)
  <2> DEFINE h == [g EXCEPT !.at = "marking"]
  <2>1. ~Idle(g) /\ host' = Released /\ loop' = [loop EXCEPT ![l] = h]
    BY <1>5 DEF finish_failed_turn, GoTo, LoopAt, Idle
  <2>2. h \in LoopType /\ Idle(h) BY <1>1 DEF LoopType, Places, Idle
  <2> QED BY <1>1, <1>2, <2>1, <2>2, LeaveMoves
<1>6. CASE AwaitRestored(l)
  <2>1. g.at = "perm_wait" /\ Entering(g) BY <1>6 DEF AwaitRestored, LoopAt, Entering
  <2>2. host.active = 0 /\ ~Idle(g) BY <2>1, EnteringFree
  <2>3. host' = [host EXCEPT !.wait = NoWait] BY <1>6 DEF AwaitRestored
  <2>4. host' \in HostType /\ host'.up = host.up /\ host'.active = 0
    BY <1>1, <2>2, <2>3 DEF HostType, NoWait, WaitType
  <2>5. CASE loop' = [loop EXCEPT ![l] = NoLoop]
    BY <1>1, <2>2, <2>4, <2>5, NoLoopType, LeaveMoves
  <2>6. CASE loop' = [loop EXCEPT ![l].at = "load", ![l].said = host.wait]
    <3> DEFINE h == [g EXCEPT !.at = "load", !.said = host.wait]
    <3>1. loop' = [loop EXCEPT ![l] = h] BY <1>1, <2>6
    <3>2. /\ h \in LoopType /\ h.at = "load" /\ h.machine = g.machine
          /\ h.heard = g.heard /\ h.resumed = g.resumed /\ h.todo = g.todo
          /\ h.allow = g.allow /\ h.deny = g.deny /\ h.ran = g.ran
      BY <1>1 DEF LoopType, Places, HostType
    <3> HIDE DEF h
    <3>3. g.resumed BY <2>1, <2>2, LoopFacts DEF BusyOk
    <3>4. Entering(h) BY <3>2 DEF Entering
    <3> QED BY <1>1, <2>1, <2>4, <3>1, <3>2, <3>3, <3>4, EnterMoves
  <2> QED BY <1>6, <2>5, <2>6 DEF AwaitRestored
<1>7. CASE LoadRecovered(l)
  <2>1. g.at = "load" /\ Entering(g) /\ host' = host
    BY <1>7 DEF LoadRecovered, LoopAt, Entering
  <2>2. host.active = 0 /\ ~Idle(g) BY <2>1, EnteringFree
  <2>3. CASE loop' = [loop EXCEPT ![l] = NoLoop]
    BY <1>1, <2>1, <2>2, <2>3, NoLoopType, LeaveMoves
  <2> DEFINE replays == g.machine \in {"awaiting_permission", "executing_tools"}
             batch == IF replays THEN pending_tools ELSE {}
             h == [g EXCEPT !.at = "begin", !.replayed = replays, !.todo = batch]
  <2>4. CASE loop' = [loop EXCEPT ![l] = h]
    <3>0. batch \subseteq pending_tools /\ batch \in SUBSET Calls /\ replays \in BOOLEAN
      BY DEF pending_tools
    <3> HIDE DEF batch, replays
    <3>1. /\ h \in LoopType /\ h.at = "begin" /\ h.machine = g.machine
          /\ h.heard = g.heard /\ h.resumed = g.resumed /\ h.todo \subseteq pending_tools
          /\ h.allow = g.allow /\ h.deny = g.deny /\ h.ran = g.ran
      BY <1>1, <3>0 DEF LoopType, Places
    <3> HIDE DEF h
    <3>2. Entering(h) BY <3>1 DEF Entering
    <3> QED BY <1>1, <2>1, <2>2, <2>4, <3>1, <3>2, EnterMoves
  <2>5. loop' = [loop EXCEPT ![l] = NoLoop] \/ loop' = [loop EXCEPT ![l] = h]
    BY <1>1, <1>7 DEF LoadRecovered
  <2> QED BY <2>3, <2>4, <2>5
<1> QED BY <1>3, <1>4, <1>5, <1>6, <1>7

-----------------------------------------------------------------------------
(* The commands, the background task, crashes and recovery.                *)

\* Whoever ends the run or changes the memory of the host beside the loops.
LEMMA OthersMove ==
  ASSUME ArInv, UNCHANGED <<context, call, effects, bgTask>>,
         \/ run_state' = run_state
         \/ run_state \notin RunTerminal /\ run_state' \in RunTerminal \ {"completed"},
         loop' \in [Loops -> LoopType],
         \A l \in Loops : loop'[l] = loop[l] \/ (Idle(loop[l]) /\ loop'[l] = NoLoop),
         host' \in HostType, host.up => host'.up, host'.active = host.active,
         host'.wait = host.wait \/ host'.wait.decision # "none"
  PROVE  ArInv'
<1>1. ArTypeOK' BY DEF ArInv, ArTypeOK, RunStates
<1>2. CallsOk(run_state', call', effects') BY DEF ArInv, CallsOk
<1>3. ResultsOk(run_state', context', bgTask') BY DEF ArInv, ResultsOk
<1>4. ASSUME NEW l \in Loops
      PROVE  LoopOk(l, loop'[l], run_state', call', effects', bgTask', host'.active, host'.wait)
  <2>1. LoopOk(l, loop[l], run_state, call, effects, bgTask, host.active, host.wait)
    BY DEF ArInv
  <2>2. CASE Idle(loop[l]) /\ loop'[l] = NoLoop
    BY <2>1, <2>2, NoLoopType DEF LoopOk
  <2>3. CASE loop'[l] = loop[l]
    <3>1. ~Idle(loop[l]) => BusyOk(loop[l], run_state', call', effects', bgTask', host'.wait)
      BY <2>1 DEF LoopOk, BusyOk
    <3> QED BY <2>1, <2>3, <3>1 DEF LoopOk
  <2> QED BY <2>2, <2>3
<1>5. OneBusy' BY NoLoopType DEF ArInv, OneBusy
<1>6. ~host'.up => \A l \in Loops : loop'[l].at = "none"
  BY DEF ArInv, NoLoop
<1> QED BY <1>1, <1>2, <1>3, <1>4, <1>5, <1>6 DEF ArInv

\* The loop that failed marks its run.
LEMMA MarkKeeps ==
  ASSUME ArInv, NEW l \in Loops, mark_agent_run_failed(l)
  PROVE  ArInv'
<1>1. /\ loop \in [Loops -> LoopType] /\ Idle(loop[l]) /\ loop' = [loop EXCEPT ![l] = NoLoop]
      /\ UNCHANGED <<context, call, effects, bgTask>>
  BY LoopFacts DEF mark_agent_run_failed, LoopAt, Idle, stored
<1>2. /\ loop' \in [Loops -> LoopType] /\ loop'[l] = NoLoop
      /\ \A k \in Loops \ {l} : loop'[k] = loop[k]
  BY <1>1, NoLoopType
<1>3. \/ run_state' = run_state
      \/ run_state \notin RunTerminal /\ run_state' \in RunTerminal \ {"completed"}
  BY DEF mark_agent_run_failed, RunTerminal
<1>4. UNCHANGED host /\ host' \in HostType
  BY DEF mark_agent_run_failed, ArInv, ArTypeOK
<1> QED BY <1>1, <1>2, <1>3, <1>4, OthersMove

LEMMA CommandsKeep ==
  ASSUME ArInv, cancel_agent_run \/ DeadlinePasses \/ steer_agent_run \/ resolve_agent_permission
  PROVE  ArInv'
<1>1. host \in HostType /\ loop \in [Loops -> LoopType] BY DEF ArInv, ArTypeOK
<1>2. UNCHANGED <<context, call, effects, bgTask, loop>>
  BY DEF cancel_agent_run, DeadlinePasses, steer_agent_run, resolve_agent_permission, stored
<1>3. \/ run_state' = run_state
      \/ run_state \notin RunTerminal /\ run_state' \in RunTerminal \ {"completed"}
  BY DEF cancel_agent_run, DeadlinePasses, steer_agent_run, resolve_agent_permission, RunTerminal
<1>4. /\ host' \in HostType /\ host'.up = host.up /\ host'.active = host.active
      /\ host'.wait = host.wait \/ host'.wait.decision # "none"
  <2>1. CASE cancel_agent_run \/ DeadlinePasses \/ steer_agent_run
    BY <1>1, <2>1 DEF cancel_agent_run, DeadlinePasses, steer_agent_run, HostType
  <2>2. CASE resolve_agent_permission
    <3>1. PICK d \in {"allow", "allow_session", "deny"} :
            host' = [host EXCEPT !.wait.decision = d]
      BY <2>2 DEF resolve_agent_permission
    <3>2. host.wait \in WaitType BY <1>1 DEF HostType
    <3>3. [host.wait EXCEPT !.decision = d] \in WaitType BY <3>2 DEF WaitType
    <3>4. host' = [host EXCEPT !.wait = [host.wait EXCEPT !.decision = d]] BY <1>1, <3>1
    <3>5. [host.wait EXCEPT !.decision = d].decision = d BY <3>2 DEF WaitType
    <3> QED BY <1>1, <3>3, <3>4, <3>5 DEF HostType
  <2> QED BY <2>1, <2>2
<1> QED BY <1>1, <1>2, <1>3, <1>4, OthersMove

LEMMA TaskKeeps ==
  ASSUME ArInv, BgTaskMoves
  PROVE  ArInv'
<1>1. bgTask \in BgType BY DEF ArInv, ArTypeOK
<1>2. UNCHANGED <<run_state, context, call, effects, loop, host>> BY DEF BgTaskMoves
<1>3. /\ bgTask' \in BgType /\ bgTask'.version # 0 /\ bgTask'.delivered = bgTask.delivered
      /\ NothingOwed(bgTask') <=> NothingOwed(bgTask)
  <2>1. PICK s \in {"running", "completed", "paused"} :
          bgTask' = [bgTask EXCEPT !.state = s, !.version = @ + 1]
    BY DEF BgTaskMoves
  <2> DEFINE next == bgTask.version + 1
  <2>2. bgTask.version \in Nat /\ next \in Nat /\ next # 0 BY <1>1 DEF BgType
  <2>3. bgTask' = [bgTask EXCEPT !.state = s, !.version = next] BY <1>1, <2>1 DEF BgType
  <2> HIDE DEF next
  <2>4. /\ bgTask' \in BgType /\ bgTask'.version # 0 /\ bgTask'.state = s
        /\ bgTask'.delivered = bgTask.delivered
    BY <1>1, <2>2, <2>3 DEF BgType
  <2> QED BY <2>4 DEF BgTaskMoves, NothingOwed
<1>4. ArTypeOK' BY <1>2, <1>3 DEF ArInv, ArTypeOK
<1>5. ResultsOk(run_state', context', bgTask') BY <1>2, <1>3 DEF ArInv, ResultsOk
<1>6. \A l \in Loops :
        LoopOk(l, loop[l], run_state, call, effects, bgTask', host.active, host.wait)
  BY <1>3 DEF ArInv, LoopOk, BusyOk
<1> QED BY <1>2, <1>4, <1>5, <1>6 DEF ArInv, OneBusy

LEMMA CrashKeeps ==
  ASSUME ArInv, ArCrash
  PROVE  ArInv'
<1>1. /\ UNCHANGED <<run_state, context, call, effects, bgTask>>
      /\ loop' = [l \in Loops |-> NoLoop] /\ ~host'.up /\ host'.active = 0
  BY DEF ArCrash, stored
<1>2. host' \in HostType BY DEF ArCrash, HostType, NoWait, WaitType
<1>3. ArTypeOK' BY <1>1, <1>2, NoLoopType DEF ArInv, ArTypeOK
<1>4. \A l \in Loops :
        LoopOk(l, loop'[l], run_state', call', effects', bgTask', host'.active, host'.wait)
  BY <1>1, NoLoopType DEF LoopOk, Loops
<1>5. OneBusy' BY <1>1, NoLoopType DEF OneBusy
<1> QED BY <1>1, <1>3, <1>4, <1>5 DEF ArInv, NoLoop

\* A recovery that resumes the run finds no hot call: the row is executing tools only
\* when every pending call may run again.
LEMMA ResumableIsCold ==
  ASSUME ArInv, run_state \notin RunTerminal, recovery_action # "regenerate"
  PROVE  \A c \in Calls : ~Hot(c, call, effects)
<1> SUFFICES ASSUME NEW c \in Calls, Hot(c, call, effects) PROVE FALSE OBVIOUS
<1>1. run_state = "executing_tools" BY DEF ArInv, CallsOk
<1>2. \A d \in pending_tools : call[d].tool \in Idempotent BY <1>1 DEF recovery_action
<1>3. c \in pending_tools BY DEF ArInv, CallsOk, Hot, pending_tools
<1> QED BY <1>2, <1>3 DEF Hot

\* A resumption starts where nobody is busy.
LEMMA SpawnKeeps ==
  ASSUME ArInv, NEW l \in Loops, Spawn(l), \A k \in Loops : Idle(loop[k]), host.active = 0,
         run_state \notin RunTerminal, recovery_action # "regenerate",
         UNCHANGED <<context, call, effects, bgTask>>
  PROVE  ArInv'
<1> DEFINE h == Resumption(recovery_action)
<1>1. /\ loop' = [loop EXCEPT ![l] = h] /\ run_state' = run_state
      /\ loop \in [Loops -> LoopType] /\ context \in ContextType /\ run_state \in RunStates
      /\ host \in HostType
  BY DEF Spawn, ArInv, ArTypeOK
<1>2. recovery_action = "await_permissions" =>
        /\ run_state = "awaiting_permission" /\ pending_permissions # {}
        /\ \E c \in Calls : call[c].permission = "asked"
  BY DEF recovery_action, pending_permissions
<1>3. /\ h \in LoopType /\ h.machine = run_state /\ h.resumed /\ h.heard = context.heard
      /\ h.at \in {"perm_wait", "load"}
      /\ h.at = "perm_wait" => recovery_action = "await_permissions"
      /\ h.todo = {} /\ h.allow = {} /\ h.deny = {} /\ h.ran = {}
  <2> DEFINE place == IF recovery_action = "await_permissions" THEN "perm_wait" ELSE "load"
             ended == context.reason = "assistant_result"
  <2>1. /\ place \in {"perm_wait", "load"} /\ ended \in BOOLEAN
        /\ place = "perm_wait" => recovery_action = "await_permissions"
        /\ context.attempt + 1 \in Nat /\ context.asks \in Nat
        /\ context.known \in SUBSET Calls /\ context.heard \in SUBSET Nat
    BY <1>1 DEF ContextType
  <2>2. h = [NoLoop EXCEPT !.at = place, !.machine = run_state, !.resumed = TRUE,
               !.attempt = context.attempt + 1, !.asks = context.asks,
               !.known = context.known, !.heard = context.heard, !.natural = ended]
    BY DEF Resumption
  <2> HIDE DEF h, place, ended
  <2>3. NoLoop \in LoopType /\ NoLoop.todo = {} /\ NoLoop.allow = {} /\ NoLoop.deny = {}
        /\ NoLoop.ran = {}
    BY NoLoopType DEF NoLoop
  <2>4. /\ h \in LoopType /\ h.machine = run_state /\ h.resumed /\ h.heard = context.heard
        /\ h.at = place
    BY <1>1, <2>1, <2>2, <2>3 DEF LoopType, Places
  <2>5. h.todo = {} /\ h.allow = {} /\ h.deny = {} /\ h.ran = {}
    BY <2>2, <2>3 DEF LoopType
  <2> QED BY <2>1, <2>4, <2>5
<1> HIDE DEF h
<1>4. /\ host' \in HostType /\ host'.up /\ host'.active = 0
      /\ recovery_action = "await_permissions" => host'.wait.decision = "open"
  <2>1. CASE recovery_action = "await_permissions"
    <3> DEFINE p == CHOOSE c \in pending_permissions : TRUE
    <3>1. p \in pending_permissions BY <1>2, <2>1
    <3>2. p \in Nat BY <3>1 DEF pending_permissions, Calls
    <3>3. host' = [host EXCEPT !.up = TRUE, !.wait = [c |-> p, decision |-> "open"]]
      BY <2>1 DEF Spawn
    <3> HIDE DEF p
    <3> QED BY <1>1, <3>2, <3>3 DEF HostType, WaitType
  <2>2. CASE recovery_action # "await_permissions"
    BY <1>1, <2>2 DEF Spawn, HostType
  <2> QED BY <2>1, <2>2
<1>5. BatchOk(h, call) BY <1>3 DEF BatchOk
<1>6. BusyOk(h, run_state, call, effects, bgTask, host'.wait)
  BY <1>2, <1>3, <1>4, <1>5, ResumableIsCold DEF BusyOk, Entering, ArInv, ResultsOk, RunTerminal
<1>7. LoopOk(l, h, run_state, call, effects, bgTask, host'.active, host'.wait)
  BY <1>3, <1>4, <1>6 DEF LoopOk, Entering, Loops
<1>8. loop'[l] = h /\ \A k \in Loops \ {l} : loop'[k] = loop[k] BY <1>1
<1>9. \A k \in Loops :
        LoopOk(k, loop'[k], run_state', call', effects', bgTask', host'.active, host'.wait)
  BY <1>1, <1>4, <1>7, <1>8 DEF LoopOk, Loops
<1>10. OneBusy' BY <1>8 DEF OneBusy
<1>11. ArTypeOK' BY <1>1, <1>3, <1>4 DEF ArInv, ArTypeOK
<1> QED BY <1>1, <1>4, <1>9, <1>10, <1>11 DEF ArInv

\* The process starts and finds the run.
LEMMA StartupKeeps ==
  ASSUME ArInv, Startup
  PROVE  ArInv'
<1>1. /\ UNCHANGED <<context, call, effects, bgTask>> /\ host \in HostType
      /\ loop \in [Loops -> LoopType] /\ ~host.up
  BY DEF Startup, stored, ArInv, ArTypeOK
<1>2. \A l \in Loops : loop[l].at = "none" /\ Idle(loop[l]) BY <1>1 DEF ArInv, Idle
<1>3. host.active = 0
  <2>1. \A l \in Loops : host.active # l BY <1>2, LoopFacts
  <2> QED BY <1>1, <2>1 DEF HostType
<1>4. CASE /\ loop' = loop /\ host' = [host EXCEPT !.up = TRUE]
           /\ \/ run_state' = run_state
              \/ run_state \notin RunTerminal /\ run_state' = "interrupted"
  <2>1. host' \in HostType /\ host'.up /\ host'.active = host.active /\ host'.wait = host.wait
    BY <1>1, <1>4 DEF HostType
  <2> QED BY <1>1, <1>4, <2>1, OthersMove DEF RunTerminal
<1>5. CASE run_state \notin RunTerminal /\ recovery_action # "regenerate" /\ Spawn(1)
  BY <1>1, <1>2, <1>3, <1>5, SpawnKeeps DEF Loops
<1> QED BY <1>4, <1>5 DEF Startup, Interrupts

\* The user asks for a recovery.  A loop that is busy without a turn has just been
\* spawned: the command leaves it alone.
LEMMA RecoverKeeps ==
  ASSUME ArInv, recover_agent_runs
  PROVE  ArInv'
<1>1. /\ UNCHANGED <<context, call, effects, bgTask>> /\ host \in HostType
      /\ loop \in [Loops -> LoopType] /\ run_state \notin RunTerminal
  BY DEF recover_agent_runs, stored, ArInv, ArTypeOK
<1>2. CASE /\ UNCHANGED <<loop, host>>
           /\ run_state' = run_state \/ run_state' = "interrupted"
  BY <1>1, <1>2, OthersMove DEF RunTerminal
<1>3. CASE /\ recovery_action # "regenerate" /\ host.active = 0
           /\ recovery_action = "await_permissions" => host.wait = NoWait
           /\ \A k \in Loops : loop[k].resumed => loop[k].at \notin {"load", "begin"}
           /\ \E l \in Loops : Spawn(l)
  <2>1. ASSUME NEW k \in Loops, ~Idle(loop[k]) PROVE FALSE
    <3>1. host.active # k BY <1>3 DEF Loops
    <3>2. Entering(loop[k]) /\ BusyOk(loop[k], run_state, call, effects, bgTask, host.wait)
      BY <2>1, <3>1, LoopFacts
    <3>3. loop[k].machine = run_state BY <1>1, <3>2 DEF BusyOk
    <3>4. CASE ~loop[k].resumed
      <4>1. run_state = "created" BY <3>2, <3>3, <3>4 DEF BusyOk
      <4> QED BY <1>3, <4>1 DEF recovery_action
    <3>5. CASE loop[k].resumed
      <4>1. loop[k].at = "perm_wait" BY <1>3, <3>2, <3>5 DEF Entering
      <4>2. /\ run_state = "awaiting_permission" /\ host.wait.decision # "none"
            /\ pending_permissions # {}
        BY <3>2, <3>3, <4>1 DEF BusyOk, pending_permissions
      <4>3. recovery_action = "await_permissions" BY <4>2 DEF recovery_action
      <4> QED BY <1>3, <4>2, <4>3 DEF NoWait
    <3> QED BY <3>4, <3>5
  <2> QED BY <1>1, <1>3, <2>1, SpawnKeeps
<1> QED BY <1>2, <1>3 DEF recover_agent_runs, Interrupts

-----------------------------------------------------------------------------
(* The invariant.                                                          *)

LEMMA LoopStepKeeps ==
  ASSUME ArInv, NEW l \in Loops, LoopStep(l)
  PROVE  ArInv'
<1>1. CASE \/ Prepare(l) \/ StartGenerating(l) \/ ResumeLoop(l) \/ GenerationFailed(l)
           \/ RecordAnswer(l) \/ Verify(l) \/ FinishRun(l)
  BY <1>1, RoundKeeps
<1>2. CASE LoopTop(l) \/ NaturalStop(l) BY <1>2, AwaitKeeps
<1>3. CASE SaveResults(l) \/ BeforeModel(l) \/ SaveError(l) \/ SaveResult(l)
  BY <1>3, SaveKeeps
<1>4. CASE AfterVerify(l) BY <1>4, AfterVerifyKeeps
<1>5. CASE generate(l) BY <1>5, GenerateKeeps
<1>6. CASE RecordRequest(l) BY <1>6, RequestKeeps
<1>7. CASE \E c \in Calls : \/ DecideAlone(l, c) \/ AskPermission(l, c)
                            \/ ReceiveDecision(l, c) \/ ResumeDecision(l, c)
  BY <1>7, DecisionKeeps
<1>8. CASE RecordDenied(l) BY <1>8, DeniedKeeps
<1>9. CASE EnterTools(l) BY <1>9, EnterKeeps
<1>10. CASE execute_tool_batch(l) BY <1>10, ExecuteKeeps
<1>11. CASE record_tool_result(l) BY <1>11, ResultKeeps
<1>12. CASE Observe(l) BY <1>12, ObserveKeeps
<1>13. CASE \/ begin_turn(l) \/ finish_turn(l) \/ finish_failed_turn(l)
            \/ AwaitRestored(l) \/ LoadRecovered(l)
  BY <1>13, TurnKeeps
<1>14. CASE mark_agent_run_failed(l) BY <1>14, MarkKeeps
<1> QED BY <1>1, <1>2, <1>3, <1>4, <1>5, <1>6, <1>7, <1>8, <1>9, <1>10, <1>11, <1>12, <1>13,
           <1>14 DEF LoopStep

LEMMA ArInitHolds == ArInit => ArInv
<1> SUFFICES ASSUME ArInit PROVE ArInv OBVIOUS
<1> DEFINE h == [NoLoop EXCEPT !.at = "begin"]
<1>0. /\ h \in LoopType /\ h.at = "begin" /\ h.machine = "created" /\ h.todo = {}
      /\ h.allow = {} /\ h.deny = {} /\ h.ran = {}
  BY NoLoopType DEF NoLoop, LoopType, Places
<1>1. loop \in [Loops -> LoopType] /\ loop[1] = h /\ loop[2] = NoLoop
  <2>1. loop = [l \in Loops |-> IF l = 1 THEN h ELSE NoLoop] BY DEF ArInit
  <2> HIDE DEF h
  <2> QED BY <1>0, <2>1, NoLoopType DEF Loops
<1> HIDE DEF h
<1>2. /\ context \in ContextType /\ bgTask \in BgType /\ host \in HostType
      /\ call \in [Calls -> CallType] /\ effects \in [Calls -> Nat]
  BY DEF ArInit, ContextType, BgType, HostType, NoWait, WaitType, CallType, Unasked
<1>3. ArTypeOK BY <1>1, <1>2 DEF ArTypeOK, ArInit, RunStates
<1>4. CallsOk(run_state, call, effects) /\ \A c \in Calls : ~Hot(c, call, effects)
  BY DEF ArInit, CallsOk, Hot, Unasked
<1>5. ResultsOk(run_state, context, bgTask)
  BY DEF ArInit, ResultsOk, BgTerminal, RunTerminal
<1>6. BusyOk(h, run_state, call, effects, bgTask, host.wait)
  BY <1>0, <1>4 DEF ArInit, BusyOk, BatchOk, Entering, RunTerminal
<1>7. \A l \in Loops :
        LoopOk(l, loop[l], run_state, call, effects, bgTask, host.active, host.wait)
  BY <1>0, <1>1, <1>6, NoLoopType DEF ArInit, LoopOk, Loops, Entering
<1>8. OneBusy /\ host.up BY <1>1, NoLoopType DEF ArInit, OneBusy, Loops
<1> QED BY <1>3, <1>4, <1>5, <1>7, <1>8 DEF ArInv

LEMMA ArStepHolds == ArInv /\ [ArNext]_arVars => ArInv'
<1> SUFFICES ASSUME ArInv, [ArNext]_arVars PROVE ArInv' OBVIOUS
<1>1. CASE \E l \in Loops : LoopStep(l) BY <1>1, LoopStepKeeps
<1>2. CASE Startup BY <1>2, StartupKeeps
<1>3. CASE recover_agent_runs BY <1>3, RecoverKeeps
<1>4. CASE cancel_agent_run \/ DeadlinePasses \/ steer_agent_run \/ resolve_agent_permission
  BY <1>4, CommandsKeep
<1>5. CASE BgTaskMoves BY <1>5, TaskKeeps
<1>6. CASE ArCrash BY <1>6, CrashKeeps
<1>7. CASE UNCHANGED arVars BY <1>7 DEF arVars, ArInv, ArTypeOK, OneBusy
<1> QED BY <1>1, <1>2, <1>3, <1>4, <1>5, <1>6, <1>7 DEF ArNext

-----------------------------------------------------------------------------
(* The theorems.                                                           *)

\* Of the loops a run can have, one works on it; its row, its batch and the results it
\* has heard agree with what is stored.
THEOREM RunInvariant == ArSpec => []ArInv
  BY ArInitHolds, ArStepHolds, PTL DEF ArSpec

\* A tool call that is not idempotent is executed at most once, whatever crashes,
\* resumptions, cancellations and repeated recoveries come between its request, its
\* effect and its ToolCompleted event.
THEOREM CallRunsOnce == ArSpec => []ToolCallRunsOnce
<1>1. ArInv => ToolCallRunsOnce BY DEF ArInv, CallsOk, ToolCallRunsOnce
<1> QED BY <1>1, RunInvariant, PTL

\* A background result is acknowledged only together with a context that holds it, and
\* a completed run leaves none undelivered.
THEOREM ResultsAreDelivered == ArSpec => []ResultsReachTheModel
<1>1. ArInv => ResultsReachTheModel
  BY DEF ArInv, ResultsOk, NothingOwed, ResultsReachTheModel
<1> QED BY <1>1, RunInvariant, PTL

=============================================================================
