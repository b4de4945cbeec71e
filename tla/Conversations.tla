---------------------------- MODULE Conversations ----------------------------
(***************************************************************************)
(* Conversations, their messages, runs and summaries: SessionService and   *)
(* storage/repositories/conversations*, the chat command that answers a    *)
(* message and then folds the older ones into a summary, the command that  *)
(* summarises on request, and the context packet the next question gets.   *)
(*                                                                         *)
(* Every repository call is one SQLite transaction under the database      *)
(* lock; the model's answer and the summary are awaited between two of     *)
(* them, while the user edits, truncates, forks or deletes.  A message's   *)
(* text is its id and the number of its edits; a summary's text is the     *)
(* sequence of texts it was made from.  Titles, pins and archive marks     *)
(* change nothing here and are left out.                                   *)
(***************************************************************************)
EXTENDS Integers, Sequences, SequencesExt, FiniteSets

CONSTANTS
    Convs,             \* conversation ids
    CvJobs,            \* commands of the desktop under way
    CvMaxMessages,     \* bound: messages ever stored
    CvMaxEdits,        \* bound: edits of one message
    SummaryTrigger,    \* SUMMARY_TRIGGER_TOKENS, in messages
    SummaryKeepTail,   \* SUMMARY_KEEP_TAIL_TOKENS, in messages
    RecentLimit        \* RECENT_MESSAGE_TOKEN_BUDGET, in messages

ASSUME SummaryAssumption ==
    SummaryTrigger \in Nat /\ SummaryKeepTail \in Nat /\ RecentLimit \in Nat

VARIABLES
    convLive,     \* rows of conversations
    convMsgs,     \* their messages, by created_at and rowid
    convSums,     \* the newest of conversation_summaries, the one that is read
    convRuns,     \* agent_runs: the ids of the user messages they answer
    convNext,     \* the next message id
    convJobs      \* the commands under way

convVars == <<convLive, convMsgs, convSums, convRuns, convNext, convJobs>>

Free == [stage |-> "free"]

Text(m)   == <<m.id, m.edits>>
Texts(ms) == [i \in 1..Len(ms) |-> Text(ms[i])]
IdsOf(ms) == [i \in 1..Len(ms) |-> ms[i].id]
IdSet(ms) == Range(IdsOf(ms))

\* message_anchor: the place of a message in its conversation.
Position(ms, id) == CHOOSE i \in 1..Len(ms) : ms[i].id = id
UpTo(ms, id)     == SubSeq(ms, 1, Position(ms, id))

latest_summary(c) == convSums[c][1]

ConvInit ==
    /\ convLive = [c \in Convs |-> FALSE]
    /\ convMsgs = [c \in Convs |-> <<>>] /\ convSums = [c \in Convs |-> <<>>]
    /\ convRuns = {} /\ convNext = 1
    /\ convJobs = [j \in CvJobs |-> Free]

-----------------------------------------------------------------------------
(* The repository.                                                         *)

create_conversation(c) == ~convLive[c] /\ convLive' = [convLive EXCEPT ![c] = TRUE]

\* append_message_in_transaction: the conversation must exist.
append_message(c, role) ==
    /\ convNext <= CvMaxMessages
    /\ convMsgs' = [convMsgs EXCEPT ![c] =
                       Append(@, [id |-> convNext, role |-> role, edits |-> 0])]
    /\ convNext' = convNext + 1

\* The messages after an anchor go; their runs follow by ON DELETE CASCADE.
delete_after(c, id) ==
    LET gone == IdSet(convMsgs[c]) \ IdSet(UpTo(convMsgs[c], id))
    IN  /\ convMsgs' = [convMsgs EXCEPT ![c] = UpTo(@, id)]
        /\ convRuns' = convRuns \ gone

CreateConversation ==
    /\ \E c \in Convs : create_conversation(c)
    /\ UNCHANGED <<convMsgs, convSums, convRuns, convNext, convJobs>>

\* Messages with their runs, summaries and the draft, in one transaction.
DeleteConversation ==
    /\ \E c \in Convs :
          /\ convLive[c]
          /\ convLive' = [convLive EXCEPT ![c] = FALSE]
          /\ convRuns' = convRuns \ IdSet(convMsgs[c])
          /\ convMsgs' = [convMsgs EXCEPT ![c] = <<>>]
          /\ convSums' = [convSums EXCEPT ![c] = <<>>]
    /\ UNCHANGED <<convNext, convJobs>>

\* replace_after_edit: a user message gets new text, its run and everything
\* after it go, and all summaries of the conversation with them.
EditMessage ==
    /\ \E c \in Convs : \E i \in 1..Len(convMsgs[c]) :
          LET m == convMsgs[c][i]
          IN  /\ m.role = "user" /\ m.edits < CvMaxEdits
              /\ convMsgs' = [convMsgs EXCEPT ![c] =
                                 Append(SubSeq(@, 1, i - 1), [m EXCEPT !.edits = @ + 1])]
              /\ convRuns' = (convRuns \ IdSet(convMsgs[c]))
                                \cup (convRuns \cap IdSet(SubSeq(convMsgs[c], 1, i - 1)))
              /\ convSums' = [convSums EXCEPT ![c] = <<>>]
    /\ UNCHANGED <<convLive, convNext, convJobs>>

\* Mutant: only the messages are truncated.
TruncateMessages(c, id) ==
    /\ delete_after(c, id)
    /\ UNCHANGED convSums

truncate_after_message(c, id) ==
    /\ LET m == convMsgs[c][Position(convMsgs[c], id)]
           gone == IdSet(convMsgs[c]) \ IdSet(UpTo(convMsgs[c], id))
       IN  convRuns' = (convRuns \ gone) \ (IF m.role = "user" THEN {id} ELSE {})
    /\ convMsgs' = [convMsgs EXCEPT ![c] = UpTo(@, id)]
    /\ convSums' = [convSums EXCEPT ![c] = <<>>]

Truncate ==
    /\ \E c \in Convs : \E id \in IdSet(convMsgs[c]) : truncate_after_message(c, id)
    /\ UNCHANGED <<convLive, convNext, convJobs>>

\* fork_from_message: a new conversation with copies, under new ids, of the
\* messages up to the anchor; neither runs nor summaries are copied.
Fork ==
    /\ \E c, d \in Convs : \E id \in IdSet(convMsgs[c]) :
          LET copied == UpTo(convMsgs[c], id)
          IN  /\ create_conversation(d)
              /\ convNext + Len(copied) <= CvMaxMessages + 1
              /\ convMsgs' = [convMsgs EXCEPT ![d] =
                                 [i \in 1..Len(copied) |->
                                    [id |-> convNext + i - 1, role |-> copied[i].role,
                                     edits |-> 0]]]
              /\ convNext' = convNext + Len(copied)
    /\ UNCHANGED <<convSums, convRuns, convJobs>>

\* save_snapshot and the append_message command: rows without a run.
AppendRow ==
    /\ \E c \in Convs, role \in {"user", "agent"} : convLive[c] /\ append_message(c, role)
    /\ UNCHANGED <<convLive, convSums, convRuns, convJobs>>

\* save_summary: refused unless its anchor is a message of the conversation.
CanSave(c, id) == convLive[c] /\ id \in IdSet(convMsgs[c])

save_summary(c, plan) ==
    convSums' = [convSums EXCEPT ![c] =
        <<[digest |-> plan.digest, covered |-> plan.covered,
           sources |-> IdsOf(UpTo(convMsgs[c], plan.covered))]>>]

-----------------------------------------------------------------------------
(* Summaries.                                                              *)

NoPlan == [covered |-> 0, digest |-> <<>>]

messages_after_covered_id(ms, id) ==
    IF id \in IdSet(ms) THEN SubSeq(ms, Position(ms, id) + 1, Len(ms)) ELSE ms

\* plan_summary without an anchor: long enough a tail stays as it is and what
\* is before it is folded, after the text of the summary there is.
plan_summary(c) ==
    LET has  == convSums[c] # <<>>
        ms   == IF has THEN messages_after_covered_id(convMsgs[c], latest_summary(c).covered)
                       ELSE convMsgs[c]
        kept == Len(ms) - SummaryKeepTail
        old  == IF has THEN latest_summary(c).digest ELSE <<>>
    IN  IF Len(ms) < SummaryTrigger \/ kept <= 0 THEN NoPlan
        ELSE [covered |-> ms[kept].id, digest |-> old \o Texts(SubSeq(ms, 1, kept))]

\* With an anchor: all messages up to it, whatever their length.
plan_summary_at(c, id) == [covered |-> id, digest |-> Texts(UpTo(convMsgs[c], id))]

-----------------------------------------------------------------------------
(* The chat command.                                                       *)

SetJob(j, job) == convJobs' = [convJobs EXCEPT ![j] = job]

\* prepare_chat: the context packet is read, then start_run stores the user
\* message and its run in one transaction.
StartChat(j) ==
    /\ convJobs[j] = Free
    /\ \E c \in Convs :
          /\ convLive[c]
          /\ append_message(c, "user")
          /\ convRuns' = convRuns \cup {convNext}
          /\ SetJob(j, [stage |-> "answering", conv |-> c, asked |-> convNext, plan |-> NoPlan])
    /\ UNCHANGED <<convLive, convSums>>

\* The loop's last event needs the run's row: without it, and on any failure
\* of the model, the command ends with an error.
RunEnds(j) ==
    /\ convJobs[j].stage = "answering"
    /\ \/ convJobs[j].asked \in convRuns
          /\ SetJob(j, [convJobs[j] EXCEPT !.stage = "answered"])
       \/ SetJob(j, Free)
    /\ UNCHANGED <<convLive, convMsgs, convSums, convRuns, convNext>>

\* The answer is appended to the conversation, if that still exists.
AppendAnswer(j) ==
    /\ convJobs[j].stage = "answered"
    /\ IF convLive[convJobs[j].conv]
       THEN /\ append_message(convJobs[j].conv, "agent")
            /\ SetJob(j, [convJobs[j] EXCEPT !.stage = "planning"])
       ELSE SetJob(j, Free) /\ UNCHANGED <<convMsgs, convNext>>
    /\ UNCHANGED <<convLive, convSums, convRuns>>

\* prepare_summary, after an answer that was not stopped.
PlanAfterChat(j) ==
    /\ convJobs[j].stage = "planning"
    /\ LET c    == convJobs[j].conv
           plan == plan_summary(c)
       IN  SetJob(j, IF convLive[c] /\ plan # NoPlan
                     THEN [convJobs[j] EXCEPT !.stage = "folding", !.plan = plan] ELSE Free)
    /\ UNCHANGED <<convLive, convMsgs, convSums, convRuns, convNext>>

\* desktop_summarize_conversation, with or without an anchor.
PlanOnRequest(j) ==
    /\ convJobs[j] = Free
    /\ \E c \in Convs :
          /\ convLive[c]
          /\ \E plan \in {plan_summary(c)} \cup {plan_summary_at(c, id) : id \in IdSet(convMsgs[c])} :
                /\ plan # NoPlan
                /\ SetJob(j, [stage |-> "folding", conv |-> c, asked |-> 0, plan |-> plan])
    /\ UNCHANGED <<convLive, convMsgs, convSums, convRuns, convNext>>

\* The model has written the summary, or stopped, or failed.
SaveSummary(j) ==
    /\ convJobs[j].stage = "folding"
    /\ LET c == convJobs[j].conv
       IN  \/ CanSave(c, convJobs[j].plan.covered) /\ save_summary(c, convJobs[j].plan)
           \/ UNCHANGED convSums
    /\ SetJob(j, Free)
    /\ UNCHANGED <<convLive, convMsgs, convRuns, convNext>>

\* The process ends: the commands are gone, the tables stay.
Quit ==
    /\ \E j \in CvJobs : convJobs[j] # Free
    /\ convJobs' = [j \in CvJobs |-> Free]
    /\ UNCHANGED <<convLive, convMsgs, convSums, convRuns, convNext>>

ConvNext ==
    \/ CreateConversation \/ DeleteConversation \/ EditMessage \/ Truncate \/ Fork
    \/ AppendRow \/ Quit
    \/ \E j \in CvJobs : StartChat(j) \/ RunEnds(j) \/ AppendAnswer(j) \/ PlanAfterChat(j)
                         \/ PlanOnRequest(j) \/ SaveSummary(j)

ConvSpec == ConvInit /\ [][ConvNext]_convVars

-----------------------------------------------------------------------------
(* Properties.                                                             *)

\* build_context_packet: the summary, and the newest messages.
ContextIds(c) ==
    LET recent == IF Len(convMsgs[c]) > RecentLimit
                  THEN SubSeq(convMsgs[c], Len(convMsgs[c]) - RecentLimit + 1, Len(convMsgs[c]))
                  ELSE convMsgs[c]
        folded == IF convSums[c] = <<>> THEN {} ELSE {t[1] : t \in Range(latest_summary(c).digest)}
    IN  [recent |-> IdSet(recent), folded |-> folded]

\* The context the next question gets speaks only of messages that are in the
\* conversation, and a summary there accounts for every message up to the one
\* it says it covers: no message that was truncated, forked away or deleted
\* comes back through a summary that was being written meanwhile.
SummaryIsAnchored ==
    \A c \in Convs :
        /\ ContextIds(c).folded \subseteq IdSet(convMsgs[c])
        /\ convSums[c] # <<>> =>
              LET s == latest_summary(c)
              IN  /\ s.sources = IdsOf(UpTo(convMsgs[c], s.covered))
                  /\ ContextIds(c).folded = Range(s.sources)

=============================================================================
