------------------------------ MODULE ChildTurns ----------------------------
(***************************************************************************)
(* The turns of the runtime host: a run's own turn with the mailbox        *)
(* message it reads (app/desktop_agent_runtime.rs, tasks/mailbox.rs), and  *)
(* the child turns its task tool delegates to (agent/runtime/subagents.rs, *)
(* storage/repositories/child_turns).                                      *)
(*                                                                         *)
(* The loop of a child is the loop of AgentRun without recovery; here only *)
(* the states it writes to its row matter.  "working" stands for the       *)
(* states between created and the end.                                     *)
(***************************************************************************)
EXTENDS Naturals, FiniteSets

CONSTANTS
  ChRuns,       \* runs that own a turn
  Kids,         \* child turn ids
  Mails,        \* mailbox messages of "lead", ordered as their file names
  ChildLimit,   \* child_turn_limit
  ChMaxFaults   \* failing writes, time-outs and crashes

ASSUME MailsAssumption == Mails \subseteq Nat /\ 0 \notin Mails
ASSUME TurnIdsAssumption == ChRuns \cap Kids = {}  \* both are freshly drawn ids

VARIABLES
  turn,       \* run -> its step, the mail it picked or holds, how its loop ended
  kid,        \* child -> its parent, its loop and whether its store failed
  row,        \* child -> agent_child_turns.state
  active,     \* RuntimeHost.active
  flagged,    \* cancelled turns
  mail,       \* message -> its directory
  mailRead,   \* messages a loop has read to its end
  killer,     \* the cancel command: the child it looked at, its row ended or not
  chUp,       \* the process runs
  chFaults

chVars == <<turn, kid, row, active, flagged, mail, mailRead, killer, chUp, chFaults>>
kidVars == <<kid, row>>
mailVars == <<mail, mailRead>>

RowTerminal == {"completed", "cancelled", "failed", "interrupted"}
NoMail == 0
NoKid == [parent |-> "none", at |-> "none", lost |-> FALSE, outcome |-> "none"]
NoKiller == [at |-> "idle", kid |-> "none", ended |-> FALSE]
NewTurn == [at |-> "new", mail |-> NoMail, ok |-> FALSE]

ChInit ==
  /\ turn = [r \in ChRuns |-> NewTurn]
  /\ kid = [c \in Kids |-> NoKid]
  /\ row = [c \in Kids |-> "absent"]
  /\ active = {} /\ flagged = {}
  /\ mail = [m \in Mails |-> "ready"] /\ mailRead = {}
  /\ killer = NoKiller
  /\ chUp = TRUE /\ chFaults = 0

TurnAt(r, step) == chUp /\ turn[r].at = step
TurnTo(r, step) == turn' = [turn EXCEPT ![r].at = step]
ChFault == chFaults < ChMaxFaults /\ chFaults' = chFaults + 1

(***************************************************************************)
(* The mailbox                                                             *)
(***************************************************************************)

Ready == {m \in Mails : mail[m] = "ready"}

\* claim, first half: the first file of the ready directory.
FirstMessage(r) ==
  /\ TurnAt(r, "new")
  /\ turn' = [turn EXCEPT ![r] =
       IF Ready = {} THEN [@ EXCEPT !.at = "begin"]
       ELSE [@ EXCEPT !.at = "claim", !.mail = CHOOSE m \in Ready : \A n \in Ready : m <= n]]
  /\ UNCHANGED <<kidVars, active, flagged, mailVars, killer, chUp, chFaults>>

\* Mutant: a claim that lost the race for the file goes on with it.
ClaimUnchecked(r) ==
  /\ TurnAt(r, "claim")
  /\ mail' = [mail EXCEPT ![turn[r].mail] = "processing"] /\ TurnTo(r, "begin")
  /\ UNCHANGED <<kidVars, active, flagged, mailRead, killer, chUp, chFaults>>

\* claim, second half: the rename decides who gets the message; one that cannot be
\* read is put aside.
claim(r) ==
  LET m == turn[r].mail IN
  /\ TurnAt(r, "claim")
  /\ IF mail[m] # "ready"
     THEN turn' = [turn EXCEPT ![r] = [NewTurn EXCEPT !.at = "ended"]] /\ UNCHANGED mail
     ELSE \/ mail' = [mail EXCEPT ![m] = "processing"] /\ TurnTo(r, "begin")
          \/ /\ mail' = [mail EXCEPT ![m] = "quarantine"]
             /\ turn' = [turn EXCEPT ![r] = [NewTurn EXCEPT !.at = "begin"]]
  /\ UNCHANGED <<kidVars, active, flagged, mailRead, killer, chUp, chFaults>>

release(m) ==
  IF m # NoMail /\ mail[m] = "processing"
  THEN mail' = [mail EXCEPT ![m] = "ready"] ELSE UNCHANGED mail

ack(m) ==
  IF m # NoMail /\ mail[m] = "processing"
  THEN mail' = [mail EXCEPT ![m] = "done"] ELSE UNCHANGED mail

(***************************************************************************)
(* The turn of a run                                                       *)
(***************************************************************************)

ChildrenOf(t) == {c \in Kids \cap active : kid[c].parent = t}

\* A session has one turn: the loser returns and keeps its message claimed.
BeginTurn(r) ==
  /\ TurnAt(r, "begin")
  /\ \/ /\ active' = active \cup {r} /\ TurnTo(r, "setup")
     \/ /\ (active \cap ChRuns) # {} /\ UNCHANGED active
        /\ turn' = [turn EXCEPT ![r] = [NewTurn EXCEPT !.at = "ended"]]
  /\ UNCHANGED <<kidVars, flagged, mailVars, killer, chUp, chFaults>>

\* finish_turn: its active children go with it, flags and queues too.
FinishTurn(t) ==
  /\ active' = active \ ({t} \cup ChildrenOf(t))
  /\ flagged' = flagged \ ({t} \cup ChildrenOf(t))

\* The tool snapshot, its row and the artifact store come before the loop.  Only
\* the first failure releases the message; the last one leaves the turn active.
SetupTurn(r) ==
  /\ TurnAt(r, "setup")
  /\ \/ /\ TurnTo(r, "running") /\ UNCHANGED <<active, flagged, mail, chFaults>>
     \/ /\ ChFault /\ turn' = [turn EXCEPT ![r] = [NewTurn EXCEPT !.at = "ended"]]
        /\ \/ FinishTurn(r) /\ release(turn[r].mail)
           \/ FinishTurn(r) /\ UNCHANGED mail
           \/ UNCHANGED <<active, flagged, mail>>
  /\ UNCHANGED <<kidVars, mailRead, killer, chUp>>

Running(t) == {c \in Kids : kid[c].parent = t /\ kid[c].at \in {"record", "running", "ending", "ended"}}

\* The loop ends when the task calls it awaits have ended or were dropped.
LoopEnds(r) ==
  /\ TurnAt(r, "running") /\ Running(r) = {}
  /\ FinishTurn(r)
  /\ \E ok \in BOOLEAN :
       /\ turn' = [turn EXCEPT ![r].at = "closing", ![r].ok = ok]
       /\ mailRead' = IF ok THEN mailRead \cup {turn[r].mail} ELSE mailRead
  /\ UNCHANGED <<kidVars, mail, killer, chUp, chFaults>>

CloseTurn(r) ==
  /\ TurnAt(r, "closing")
  /\ IF turn[r].ok THEN ack(turn[r].mail) ELSE release(turn[r].mail)
  /\ turn' = [turn EXCEPT ![r] = [NewTurn EXCEPT !.at = "ended"]]
  /\ UNCHANGED <<kidVars, active, flagged, mailRead, killer, chUp, chFaults>>

\* cancel_turn: the turn and its active children.
CancelTurn(t) == flagged' = flagged \cup {t} \cup ChildrenOf(t)

CancelRun(r) ==
  /\ chUp /\ r \in active /\ CancelTurn(r)
  /\ UNCHANGED <<turn, kidVars, active, mailVars, killer, chUp, chFaults>>

(***************************************************************************)
(* A child turn                                                            *)
(***************************************************************************)

KidAt(c, step) == chUp /\ kid[c].at = step

\* The parent must be active and have room for one more child.
BeginChild(r, c) ==
  /\ TurnAt(r, "running") /\ r \in active
  /\ kid[c] = NoKid /\ row[c] = "absent"
  /\ Cardinality(ChildrenOf(r)) < ChildLimit
  /\ active' = active \cup {c}
  /\ kid' = [kid EXCEPT ![c] = [NoKid EXCEPT !.parent = r, !.at = "record"]]
  /\ UNCHANGED <<turn, row, flagged, mailVars, killer, chUp, chFaults>>

\* begin_task: the row with its metadata, or the turn is taken back.
create_for_task(c) ==
  /\ KidAt(c, "record")
  /\ \/ /\ row' = [row EXCEPT ![c] = "created"] /\ kid' = [kid EXCEPT ![c].at = "running"]
        /\ UNCHANGED <<active, flagged, chFaults>>
     \/ /\ ChFault /\ FinishTurn(c) /\ kid' = [kid EXCEPT ![c].at = "gone"] /\ UNCHANGED row
  /\ UNCHANGED <<turn, mailVars, killer, chUp>>

\* append: an event and the state it carries, without looking at the row; after a
\* failure the child goes on and records nothing more.
append(c, state) ==
  IF kid[c].lost THEN UNCHANGED <<row, chFaults>> /\ kid' = kid
  ELSE \/ row' = [row EXCEPT ![c] = state] /\ UNCHANGED <<kid, chFaults>>
       \/ ChFault /\ UNCHANGED row /\ kid' = [kid EXCEPT ![c].lost = TRUE]

ChildWorks(c) ==
  /\ KidAt(c, "running") /\ append(c, "working")
  /\ UNCHANGED <<turn, active, flagged, mailVars, killer, chUp>>

Stopped(c) == ({c, kid[c].parent} \cap flagged) # {}

\* The loop of the child ends: a stopped one is cancelled, or fails first.
ChildStops(c) ==
  /\ KidAt(c, "running")
  /\ \E outcome \in IF Stopped(c) THEN {"cancelled", "failed"} ELSE {"completed", "failed"} :
       kid' = [kid EXCEPT ![c].at = "ending", ![c].outcome = outcome]
  /\ UNCHANGED <<turn, row, active, flagged, mailVars, killer, chUp, chFaults>>

\* Its last events, and finish for a row they did not reach.
ChildRecordsEnd(c) ==
  /\ KidAt(c, "ending")
  /\ \/ ~kid[c].lost /\ row' = [row EXCEPT ![c] = kid[c].outcome] /\ UNCHANGED chFaults
     \/ /\ kid[c].lost /\ UNCHANGED chFaults
        /\ row' = [row EXCEPT ![c] = IF @ \in RowTerminal THEN @ ELSE kid[c].outcome]
     \/ ChFault /\ UNCHANGED row
  /\ kid' = [kid EXCEPT ![c].at = "ended"]
  /\ UNCHANGED <<turn, active, flagged, mailVars, killer, chUp>>

ChildFinishes(c) ==
  /\ KidAt(c, "ended") /\ FinishTurn(c)
  /\ kid' = [kid EXCEPT ![c].at = "gone"]
  /\ UNCHANGED <<turn, row, mailVars, killer, chUp, chFaults>>

\* execute_tool: the time-out of the task tool drops the future; nobody ends the
\* row or the turn of the child.
ToolTimesOut(c) ==
  /\ KidAt(c, "running") /\ ChFault
  /\ kid' = [kid EXCEPT ![c].at = "gone"]
  /\ UNCHANGED <<turn, row, active, flagged, mailVars, killer, chUp>>

(***************************************************************************)
(* cancel_agent_child_turn, restart                                        *)
(***************************************************************************)

CancelLooks(c) ==
  /\ chUp /\ killer.at = "idle" /\ row[c] # "absent"
  /\ killer' = [at |-> "looked", kid |-> c, ended |-> row[c] \in RowTerminal]
  /\ UNCHANGED <<turn, kidVars, active, flagged, mailVars, chUp, chFaults>>

\* Mutant: the command writes the row of a child that still works.
CancelActsOnRow ==
  /\ chUp /\ killer.at = "looked" /\ killer' = NoKiller
  /\ row' = [row EXCEPT ![killer.kid] = IF @ \in RowTerminal THEN @ ELSE "cancelled"]
  /\ UNCHANGED <<turn, kid, active, flagged, mailVars, chUp, chFaults>>

\* A child that works ends itself; the row of any other is ended here, unless it
\* has ended in the meantime.
CancelActs ==
  /\ chUp /\ killer.at = "looked" /\ killer' = NoKiller
  /\ IF ~killer.ended /\ killer.kid \in active
     THEN CancelTurn(killer.kid) /\ UNCHANGED row
     ELSE /\ row' = [row EXCEPT ![killer.kid] = IF @ \in RowTerminal THEN @ ELSE "cancelled"]
          /\ UNCHANGED flagged
  /\ UNCHANGED <<turn, kid, active, mailVars, chUp, chFaults>>

ChCrash ==
  /\ chUp /\ ChFault /\ chUp' = FALSE
  /\ turn' = [r \in ChRuns |-> IF turn[r].at = "new" THEN NewTurn ELSE [NewTurn EXCEPT !.at = "ended"]]
  /\ kid' = [c \in Kids |-> IF kid[c] = NoKid THEN NoKid ELSE [kid[c] EXCEPT !.at = "gone"]]
  /\ active' = {} /\ flagged' = {} /\ killer' = NoKiller
  /\ UNCHANGED <<row, mailVars>>

\* initialize_database interrupts what the last process left; the mailbox keeps
\* its claimed messages, nothing calls recover_processing.
interrupt_orphans ==
  /\ ~chUp /\ chUp' = TRUE
  /\ row' = [c \in Kids |-> IF row[c] \in {"created", "working"} THEN "interrupted" ELSE row[c]]
  /\ UNCHANGED <<turn, kid, active, flagged, mailVars, killer, chFaults>>

ChNext ==
  \/ \E r \in ChRuns : \/ FirstMessage(r) \/ claim(r) \/ BeginTurn(r) \/ SetupTurn(r)
                       \/ LoopEnds(r) \/ CloseTurn(r) \/ CancelRun(r)
                       \/ \E c \in Kids : BeginChild(r, c)
  \/ \E c \in Kids : \/ create_for_task(c) \/ ChildWorks(c) \/ ChildStops(c)
                     \/ ChildRecordsEnd(c) \/ ChildFinishes(c) \/ ToolTimesOut(c)
                     \/ CancelLooks(c)
  \/ CancelActs \/ ChCrash \/ interrupt_orphans

ChSpec == ChInit /\ [][ChNext]_chVars

(***************************************************************************)
(* Properties                                                              *)
(***************************************************************************)

\* The row of a child that has ended never changes again, although the events of
\* its loop overwrite the row without looking at it while the cancel command and
\* a restart end rows themselves.
EndedChildStaysEnded == [][\A c \in Kids : row[c] \in RowTerminal => row'[c] = row[c]]_chVars

Holds(r) == turn[r].mail # NoMail /\ turn[r].at # "claim"

\* A mailbox message is in the hands of one turn at a time, and it is done only
\* when a loop that was given it has ended well.
MailHasOneReader ==
  /\ \A r, s \in ChRuns : Holds(r) /\ Holds(s) /\ turn[r].mail = turn[s].mail => r = s
  /\ \A m \in Mails : mail[m] = "done" => m \in mailRead
=============================================================================
