--------------------------- MODULE ContextBudget ---------------------------
(***************************************************************************)
(* What the model is sent: the Agent loop's context (agent/context/budget, *)
(* render_context_messages), the history that grows with every tool round, *)
(* and the request made of it under the model's window                     *)
(* (budget_chat_messages) for each call, and for the one retry after the   *)
(* provider said that the context is too long.  A call that asks for other *)
(* tool calls (repair_tool_calls) sends the history as it is: no budget is *)
(* made for it before such a retry.                                        *)
(*                                                                         *)
(* Sizes are in tokens.  A text is a size and a grain, the cost of its     *)
(* characters: truncate_to_tokens keeps whole characters.  A loop is a      *)
(* function of its rounds; ok is FALSE after an early return.              *)
(***************************************************************************)
EXTENDS Integers, Sequences, SequencesExt, FiniteSets, Loops

CONSTANTS
    Window,         \* the model's window, less the reservations and the tools
    Framing,        \* what a message costs beyond its text
    PerCall,        \* what a tool call of a message costs
    Marker,         \* the note on a truncated tool output
    TodoRounds,     \* rounds without a todo_write before the reminder
    CbRounds,       \* bound: rounds of tools
    CbInputs,       \* bound: messages of the user and background results
    CbTexts         \* the texts messages are given: records [size, grain]

ASSUME WindowAssumption == {Window, Framing, PerCall, Marker, TodoRounds} \subseteq Nat
ASSUME TextsAssumption == CbTexts \subseteq [size : Nat, grain : Nat \ {0}]

VARIABLES
    cbPhase,      \* "prepare", "ask", "sent", "answered", "failed", "ended"
    cbHistory,    \* messages: the loop's history
    cbAsked,      \* request_messages: the request as the loop made it
    cbRequest,    \* what the model was sent last, after a retry too
    cbLimit,      \* the limit that was made for
    cbMade,       \* how it was made: "budgeted", "repair" or "shrunk"
    cbRepairs,    \* the repairs of the round's tool calls
    cbIdle,       \* rounds_without_update
    cbRound, cbInput

cbVars == <<cbPhase, cbHistory, cbAsked, cbRequest, cbLimit, cbMade, cbRepairs, cbIdle,
            cbRound, cbInput>>

MAX_REPAIR_RETRIES == 2

NoText == [size |-> 0, grain |-> 1]

\* truncate_to_tokens
truncate_to_tokens(text, limit) ==
    IF text.size <= limit THEN text ELSE [text EXCEPT !.size = (limit \div text.grain) * text.grain]

\* A message: its role, its text, the round whose tools it calls or answers,
\* and the number of its tool calls.
Message(role, text, round, calls) ==
    [role |-> role, text |-> text, round |-> round, calls |-> calls]

estimate_chat_message_tokens(m) == Framing + m.text.size + PerCall * m.calls

Cost(ms) == Total([i \in 1..Len(ms) |-> estimate_chat_message_tokens(ms[i])])

-----------------------------------------------------------------------------
(* The context of a run.                                                   *)

priority(source) ==
    CASE source \in {"security", "system", "domain", "permission"} -> 0
      [] source \in {"current_request", "mailbox"}                 -> 1
      [] source = "recent_turn"                                    -> 2
      [] source = "tool_evidence"                                  -> 3
      [] source = "explicit_memory"                                -> 4
      [] source = "historical_summary"                             -> 5

is_required(source) ==
    source \in {"security", "system", "domain", "permission", "current_request"}

\* A stable sort by priority: the items of one priority after the other, in the
\* order they have (the newest of the recent turns first).
selection_order(items) ==
    LET Rank(p) == Chosen([i \in 1..Len(items) |-> i],
                          {i \in 1..Len(items) : priority(items[i].source) = p})
    IN  Rank(0) \o Rank(1) \o Rank(2) \o Rank(3) \o Rank(4) \o Rank(5)

\* One item: a required one goes in, of the others each gets what is left, and
\* once a recent turn did not fit no older one is taken.
include_item(acc, it, limit) ==
    LET left == IF acc.used > limit THEN 0 ELSE limit - acc.used
        cut  == truncate_to_tokens(it.text, left)
        add(text) == [acc EXCEPT !.used = @ + text.size,
                                 !.taken = Append(@, [it EXCEPT !.text = text])]
    IN  CASE is_required(it.source) -> add(it.text)
          [] it.source = "recent_turn" ->
                IF acc.blocked \/ it.text.size > left
                THEN [acc EXCEPT !.blocked = TRUE] ELSE add(it.text)
          [] OTHER -> IF cut.size = 0 /\ it.text.size > 0 THEN acc ELSE add(cut)

\* Required items all go in, or nothing does.
budget_context(items, limit) ==
    LET required == Total([i \in 1..Len(items) |->
                              IF is_required(items[i].source) THEN items[i].text.size ELSE 0])
        order == selection_order(items)
        loop[n \in 0..Len(order)] ==
            IF n = 0 THEN [used |-> 0, taken |-> <<>>, blocked |-> FALSE]
            ELSE include_item(loop[n - 1], items[order[n]], limit)
    IN  [ok |-> required <= limit, taken |-> loop[Len(order)].taken]

\* ContextEntry's role, and the request last with what its attachments add.
RoleOf(source) ==
    IF source \in {"current_request", "recent_turn", "mailbox"} THEN "user" ELSE "system"

render_context_messages(items, attached) ==
    LET requests == {i \in 1..Len(items) : items[i].source = "current_request"}
        others   == Chosen(items, 1..Len(items) \ requests)
        request  == items[CHOOSE i \in requests : TRUE]
    IN  [i \in 1..Len(others) |-> Message(RoleOf(others[i].source), others[i].text, 0, 0)]
        \o <<Message("user", [request.text EXCEPT !.size = @ + attached], 0, 0)>>

-----------------------------------------------------------------------------
(* The request made of the history.                                        *)

\* Mutant: a block is its tool results, without the call they answer.
ResultsOnly(ms, end) ==
    IF ms[end].role # "tool" THEN end
    ELSE CHOOSE s \in 1..end :
            /\ \A i \in s..end : ms[i].role = "tool"
            /\ s > 1 => ms[s - 1].role # "tool"

\* The tool messages that end here, and the assistant message that called them.
message_block_start(ms, end) ==
    IF ms[end].role # "tool" THEN end
    ELSE LET first == CHOOSE s \in 1..end :
                         /\ \A i \in s..end : ms[i].role = "tool"
                         /\ s > 1 => ms[s - 1].role # "tool"
         IN  IF first > 1 /\ ms[first - 1].role = "assistant" /\ ms[first - 1].calls > 0
             THEN first - 1 ELSE first

IsToolBlock(block) == \E i \in 1..Len(block) : block[i].role = "tool" \/ block[i].calls > 0

\* One message of a tool block: a result that does not fit is cut and marked.
CompactMessage(acc, m) ==
    LET whole == estimate_chat_message_tokens(m)
        room  == acc.left - Framing - Marker
        cut   == [m EXCEPT !.text = [truncate_to_tokens(m.text, room) EXCEPT !.size = @ + Marker]]
        kept  == IF m.role = "tool" /\ whole > acc.left THEN cut ELSE m
        fits  == /\ m.role = "tool" /\ whole > acc.left => room > 0
                 /\ m.role # "tool" => whole <= acc.left
    IN  IF ~acc.ok \/ ~fits THEN [acc EXCEPT !.ok = FALSE]
        ELSE [ok |-> TRUE, left |-> acc.left - estimate_chat_message_tokens(kept),
              out |-> Append(acc.out, kept)]

compact_tool_block(block, budget) ==
    LET loop[n \in 0..Len(block)] == IF n = 0 THEN [ok |-> TRUE, left |-> budget, out |-> <<>>]
                                     ELSE CompactMessage(loop[n - 1], block[n])
    IN  loop[Len(block)]

\* The block of messages that ends at acc.end: taken when it fits.  The newest
\* one is cut when it must be, an older one is left out.  view holds the messages
\* as they are cut, picked the positions of those taken.
TakeBlock(ms, acc) ==
    LET e      == acc.end
        s      == message_block_start(ms, e)
        block  == SubSeq(ms, s, e)
        newest == e = Len(ms) \/ acc.picked = {}
        small  == compact_tool_block(block, acc.left)
        bare   == estimate_chat_message_tokens([ms[e] EXCEPT !.text = NoText])
        gone   == [acc EXCEPT !.end = s - 1]
    IN  IF ~acc.ok \/ e = 0 THEN acc
        ELSE IF \A i \in 1..Len(block) : block[i].role = "system" THEN gone
        ELSE IF Cost(block) <= acc.left
             THEN [gone EXCEPT !.left = @ - Cost(block), !.picked = @ \cup s..e]
        ELSE IF ~newest THEN gone
        ELSE IF IsToolBlock(block)
             THEN IF ~small.ok THEN [acc EXCEPT !.ok = FALSE]
                  ELSE [gone EXCEPT !.left = small.left, !.picked = @ \cup s..e,
                                    !.view = [i \in 1..Len(ms) |-> IF i \in s..e
                                                THEN small.out[i - s + 1] ELSE @[i]]]
        ELSE IF bare >= acc.left THEN [acc EXCEPT !.ok = FALSE]
        ELSE [acc EXCEPT !.end = 0, !.picked = @ \cup {e},
                         !.view[e].text = truncate_to_tokens(@, acc.left - bare)]

\* All of it when it fits; else the system messages, then blocks from the newest
\* on until the first message, an error, or the message cut last.
budget_chat_messages(ms, limit) ==
    LET systems == {i \in 1..Len(ms) : ms[i].role = "system"}
        forced  == Cost(Chosen(ms, systems))
        loop[n \in 0..Len(ms)] ==
            IF n = 0 THEN [ok |-> forced <= limit, end |-> Len(ms), left |-> limit - forced,
                           view |-> ms, picked |-> systems]
            ELSE TakeBlock(ms, loop[n - 1])
        done == loop[Len(ms)]
    IN  IF Cost(ms) <= limit THEN [ok |-> TRUE, out |-> ms]
        ELSE [ok |-> done.ok, out |-> Chosen(done.view, done.picked)]

-----------------------------------------------------------------------------
(* The loop.                                                               *)

CbInit ==
    /\ cbPhase = "prepare"
    /\ cbHistory = <<>> /\ cbAsked = <<>> /\ cbRequest = <<>> /\ cbLimit = 0
    /\ cbMade = "budgeted" /\ cbRepairs = 0
    /\ cbIdle = 0 /\ cbRound = 0 /\ cbInput = 0

\* The desktop's context: its prompt, a mailbox message or two, the request and
\* its attachments, whose text is added after the budget is made.
PrepareRequest ==
    /\ cbPhase = "prepare"
    /\ \E prompt, request \in CbTexts, mails \in UNION {[1..n -> CbTexts] : n \in 0..1},
          attached \in {0, Window} :
          LET items == <<[source |-> "system", text |-> prompt]>>
                       \o [i \in 1..Len(mails) |-> [source |-> "mailbox", text |-> mails[i]]]
                       \o <<[source |-> "current_request", text |-> request]>>
              report == budget_context(items, Window)
          IN  IF report.ok
              THEN /\ cbHistory' = render_context_messages(report.taken, attached)
                   /\ cbPhase' = "ask"
              ELSE cbPhase' = "failed" /\ UNCHANGED cbHistory
    /\ UNCHANGED <<cbAsked, cbRequest, cbLimit, cbMade, cbRepairs, cbIdle, cbRound, cbInput>>

Send(ms, limit) ==
    LET budget == budget_chat_messages(ms, limit)
    IN  IF budget.ok
        THEN cbPhase' = "sent" /\ cbRequest' = budget.out /\ cbLimit' = limit
        ELSE cbPhase' = "failed" /\ UNCHANGED <<cbRequest, cbLimit>>

\* before_model: the to-do reminder joins the request after too many rounds.
AskModel ==
    /\ cbPhase = "ask"
    /\ LET late == cbIdle >= TodoRounds
       IN  /\ Send(IF late THEN Append(cbHistory, Message("system", [size |-> 1, grain |-> 1], 0, 0))
                   ELSE cbHistory, Window)
           /\ cbIdle' = IF late THEN 0 ELSE cbIdle
           /\ cbAsked' = cbRequest'
    /\ UNCHANGED <<cbHistory, cbMade, cbRepairs, cbRound, cbInput>>

\* The provider says that the context is too long: once in a call, what it was
\* sent, with three quarters.
ContextRetry ==
    /\ cbPhase = "sent" /\ cbMade # "shrunk"
    /\ Send(cbRequest, (Window * 3) \div 4)
    /\ cbMade' = "shrunk"
    /\ UNCHANGED <<cbAsked, cbHistory, cbRepairs, cbIdle, cbRound, cbInput>>

\* The tool calls are not valid: the history and what is wrong with them are sent
\* as they are, whatever they cost.
RepairCalls ==
    /\ cbPhase = "sent" /\ cbRound < CbRounds /\ cbRepairs < MAX_REPAIR_RETRIES
    /\ \E text \in CbTexts : cbRequest' = Append(cbHistory, Message("system", text, 0, 0))
    /\ cbMade' = "repair" /\ cbRepairs' = cbRepairs + 1
    /\ UNCHANGED <<cbPhase, cbHistory, cbAsked, cbLimit, cbIdle, cbRound, cbInput>>

\* The call fails, is cancelled, or the last repair is as wrong as the others.
CallFails ==
    /\ cbPhase = "sent"
    /\ cbPhase' = "failed"
    /\ UNCHANGED <<cbHistory, cbAsked, cbRequest, cbLimit, cbMade, cbRepairs, cbIdle, cbRound, cbInput>>

\* What the loop keeps of a request ends with its round.
NextRound ==
    /\ cbAsked' = <<>> /\ cbRequest' = <<>> /\ cbLimit' = 0
    /\ cbMade' = "budgeted" /\ cbRepairs' = 0

\* The model calls tools: its message, all their results, and what the user has
\* said meanwhile join the history.  A repair may come back without any call:
\* nothing is wrong with that to prepare_tool_calls.
ToolRound ==
    /\ cbPhase = "sent" /\ cbRound < CbRounds
    /\ cbRound' = cbRound + 1
    /\ \E calls \in IF cbRepairs > 0 THEN 0..2 ELSE 1..2,
          said \in UNION {[1..n -> CbTexts] : n \in 0..1}, todo \in BOOLEAN :
          \E results \in [1..calls -> CbTexts] :
             /\ calls = 0 => ~todo
             /\ cbInput + Len(said) <= CbInputs
             /\ cbInput' = cbInput + Len(said)
             /\ cbHistory' = cbHistory \o <<Message("assistant", NoText, cbRound', calls)>>
                             \o [i \in 1..calls |-> Message("tool", results[i], cbRound', 0)]
                             \o [i \in 1..Len(said) |-> Message("user", said[i], 0, 0)]
             /\ cbIdle' = IF todo THEN 0 ELSE IF calls = 0 THEN cbIdle ELSE cbIdle + 1
    /\ cbPhase' = "ask"
    /\ NextRound

\* The model answers: the request, with the answer, becomes the history.
Answer ==
    /\ cbPhase = "sent" /\ cbRepairs = 0
    /\ \E text \in CbTexts : cbHistory' = Append(cbAsked, Message("assistant", text, 0, 0))
    /\ cbPhase' = "answered"
    /\ NextRound
    /\ UNCHANGED <<cbIdle, cbRound, cbInput>>

\* A background task's result or a follow-up of the user: the loop goes on.
MoreInput ==
    /\ cbPhase = "answered" /\ cbInput < CbInputs
    /\ \E text \in CbTexts : cbHistory' = Append(cbHistory, Message("user", text, 0, 0))
    /\ cbPhase' = "ask" /\ cbInput' = cbInput + 1
    /\ UNCHANGED <<cbAsked, cbRequest, cbLimit, cbMade, cbRepairs, cbIdle, cbRound>>

RunIsOver ==
    /\ cbPhase \in {"answered", "failed"}
    /\ cbPhase' = "ended"
    /\ UNCHANGED <<cbHistory, cbAsked, cbRequest, cbLimit, cbMade, cbRepairs, cbIdle, cbRound, cbInput>>

CbNext ==
    \/ PrepareRequest \/ AskModel \/ ContextRetry \/ RepairCalls \/ CallFails
    \/ ToolRound \/ Answer \/ MoreInput \/ RunIsOver

CbSpec == CbInit /\ [][CbNext]_cbVars

-----------------------------------------------------------------------------
(* Properties.                                                             *)

\* The results of a round that follow position i of a message sequence.
ResultsAfter(ms, i) ==
    {k \in i + 1..Len(ms) : \A j \in i + 1..k : ms[j].role = "tool" /\ ms[j].round = ms[i].round}

\* In every request, a repair's and a retried one too, a tool result stands
\* behind the call it answers and a call has all its results, however the history
\* was cut.  And every request that a budget was made for fits its limit: all
\* but the first of a repair, which repair_tool_calls sends without one.
RequestIsWellFormed ==
    cbPhase = "sent" =>
        /\ cbMade # "repair" => Cost(cbRequest) <= cbLimit
        /\ \A i \in 1..Len(cbRequest) :
              LET m == cbRequest[i]
              IN  /\ m.calls > 0 => Cardinality(ResultsAfter(cbRequest, i)) = m.calls
                  /\ m.role = "tool" => \E a \in 1..i - 1 : cbRequest[a].calls > 0
                                                         /\ i \in ResultsAfter(cbRequest, a)

\* What the test provider_budget_never_discards_the_latest_tool_observation
\* says: the loop's own request has the results of the tools called last, or the
\* call fails.
LatestObservationSent ==
    cbPhase = "sent" /\ cbMade = "budgeted" /\ Last(cbHistory).role = "tool" =>
        \E i \in 1..Len(cbRequest) : /\ cbRequest[i].role = "tool"
                                    /\ cbRequest[i].round = Last(cbHistory).round

=============================================================================
