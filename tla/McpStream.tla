------------------------------- MODULE McpStream ----------------------------
(***************************************************************************)
(* The legacy SSE transport of an MCP client (mcp/sse.rs): the task that   *)
(* keeps the event stream open, its parser, its reconnections with         *)
(* Last-Event-ID, the endpoint the stream announces, and the owner that    *)
(* waits for the endpoint, reads messages and closes.                      *)
(*                                                                         *)
(* The server is external: every connection first announces the endpoint   *)
(* and then sends the numbered messages after the id it was given.  A      *)
(* message reaches the parser in pieces: a line that is not finished, the  *)
(* finished lines, the blank line that ends it.                            *)
(***************************************************************************)
EXTENDS Naturals, Sequences

CONSTANTS
  StreamMessages,  \* messages the server has for this session
  MaxRetries,      \* McpSseConfig.max_retries
  MaxAnswers       \* refused connections and broken streams

ASSUME StreamAssumption == StreamMessages \in Nat /\ MaxRetries \in Nat

VARIABLES
  task,       \* the stream task: "connect", "read", "sleep", "gone"
  retry,      \* retry_attempt
  lastId,     \* last_event_id
  next,       \* the message the connection sends next; 0 is the endpoint event
  piece,      \* what the parser holds of it: "none", "line", "lines"
  endpoint,   \* the endpoint is known
  failed,     \* LegacySseState.error is set
  cancelled,  \* the cancel channel
  owner,      \* "starting", "open", "refused", "timed_out", "closed"
  queue,      \* the channel to the owner
  got,        \* messages the owner received
  answers

streamVars == <<task, retry, lastId, next, piece, endpoint, failed, cancelled, owner, queue, got, answers>>

StInit ==
  /\ task = "connect" /\ retry = 0 /\ lastId = 0 /\ next = 0 /\ piece = "none"
  /\ endpoint = FALSE /\ failed = FALSE /\ cancelled = FALSE
  /\ owner = "starting" /\ queue = <<>> /\ got = <<>> /\ answers = 0

CountAnswer == answers < MaxAnswers /\ answers' = answers + 1

\* set_stream_error: the transport is closed, waiters wake up, the task returns.
set_stream_error ==
  /\ failed' = TRUE /\ cancelled' = TRUE /\ task' = "gone"

\* delay_for_attempt: never reset, so the limit counts every break of the session.
RetriesLeft == retry < MaxRetries

\* The task sleeps before it connects again, or gives up.
wait_before_retry ==
  IF RetriesLeft
  THEN task' = "sleep" /\ retry' = retry + 1 /\ UNCHANGED <<failed, cancelled>>
  ELSE set_stream_error /\ UNCHANGED retry

\* The request carries the last event id; the server goes on after it.
Connect ==
  /\ task = "connect" /\ ~cancelled
  /\ \/ /\ task' = "read" /\ next' = 0 /\ piece' = "none"
        /\ UNCHANGED <<retry, failed, cancelled, answers>>
     \/ /\ CountAnswer /\ UNCHANGED <<next, piece>>
        /\ \/ set_stream_error /\ UNCHANGED retry
           \/ wait_before_retry
  /\ UNCHANGED <<lastId, endpoint, owner, queue, got>>

WakeUp ==
  /\ task = "sleep" /\ ~cancelled /\ task' = "connect"
  /\ UNCHANGED <<retry, lastId, next, piece, endpoint, failed, cancelled, owner, queue, got, answers>>

\* Mutant: the id counts as soon as its line is read.
PushEager ==
  /\ task = "read" /\ ~cancelled /\ next <= StreamMessages
  /\ \/ piece = "none" /\ piece' = "line" /\ UNCHANGED lastId
     \/ piece # "lines" /\ piece' = "lines" /\ lastId' = IF next = 0 THEN lastId ELSE next
  /\ UNCHANGED <<task, retry, next, endpoint, failed, cancelled, owner, queue, got, answers>>

\* SseParser::push: bytes of an event arrive, in lines.
push ==
  /\ task = "read" /\ ~cancelled /\ next <= StreamMessages
  /\ \/ piece = "none" /\ piece' = "line"
     \/ piece # "lines" /\ piece' = "lines"
  /\ UNCHANGED <<task, retry, lastId, next, endpoint, failed, cancelled, owner, queue, got, answers>>

\* The blank line ends the endpoint event.  An endpoint of another origin ends it all,
\* on the first connection and on every later one.
DispatchEndpoint ==
  /\ task = "read" /\ ~cancelled /\ piece = "lines" /\ next = 0
  /\ piece' = "none" /\ next' = lastId + 1
  /\ \/ endpoint' = TRUE /\ UNCHANGED <<failed, cancelled, task>>
     \/ set_stream_error /\ UNCHANGED endpoint
  /\ UNCHANGED <<retry, lastId, owner, queue, got, answers>>

\* The blank line ends a message: its id is remembered and it goes to the owner; the
\* task ends when nobody is left to receive it.
DispatchMessage ==
  /\ task = "read" /\ ~cancelled /\ piece = "lines" /\ next > 0
  /\ piece' = "none" /\ next' = next + 1 /\ lastId' = next
  /\ IF owner \in {"refused", "timed_out", "closed"}
     THEN task' = "gone" /\ UNCHANGED queue
     ELSE queue' = Append(queue, next) /\ UNCHANGED task
  /\ UNCHANGED <<retry, endpoint, failed, cancelled, owner, got, answers>>

\* The stream ends.  In the middle of a line that is an error; otherwise what the
\* parser holds is forgotten and the task connects again.
StreamBreaks ==
  /\ task = "read" /\ ~cancelled /\ CountAnswer
  /\ piece' = "none"
  /\ IF piece = "line" THEN set_stream_error /\ UNCHANGED retry ELSE wait_before_retry
  /\ UNCHANGED <<lastId, next, endpoint, owner, queue, got>>

(***************************************************************************)
(* The owner                                                               *)
(***************************************************************************)

\* start: the endpoint arrives, the stream fails, or the time-out fires; only a
\* failure stops the task, a time-out leaves it running without an owner.
start ==
  /\ owner = "starting"
  /\ \/ endpoint /\ owner' = "open" /\ UNCHANGED <<cancelled, task>>
     \/ ~endpoint /\ failed /\ owner' = "refused" /\ cancelled' = TRUE /\ task' = "gone"
     \/ ~endpoint /\ owner' = "timed_out" /\ UNCHANGED <<cancelled, task>>
  /\ UNCHANGED <<retry, lastId, next, piece, endpoint, failed, queue, got, answers>>

receive ==
  /\ owner = "open" /\ queue # <<>>
  /\ got' = Append(got, Head(queue)) /\ queue' = Tail(queue)
  /\ UNCHANGED <<task, retry, lastId, next, piece, endpoint, failed, cancelled, owner, answers>>

\* close aborts the task wherever it is; every wait of it also watches the channel.
CloseStream ==
  /\ owner = "open" /\ owner' = "closed"
  /\ cancelled' = TRUE /\ task' = "gone"
  /\ UNCHANGED <<retry, lastId, next, piece, endpoint, failed, queue, got, answers>>

-----------------------------------------------------------------------------
StNext ==
  \/ Connect \/ WakeUp \/ push \/ DispatchEndpoint \/ DispatchMessage
  \/ StreamBreaks \/ start \/ receive \/ CloseStream

StSpec == StInit /\ [][StNext]_streamVars

(***************************************************************************)
(* Properties                                                              *)
(***************************************************************************)

\* However often the stream breaks, between messages or inside one, the owner gets the
\* messages of the session in order, none twice and none left out (SseParser,
\* run_stream's last_event_id).
MessagesInOrder ==
  \A i \in 1..Len(got \o queue) : (got \o queue)[i] = i

=============================================================================
