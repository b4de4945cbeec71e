--------------------------- MODULE ProviderStream ---------------------------
(***************************************************************************)
(* The model calls of one round of the Agent: the chat clients of           *)
(* providers/openai.rs (strict for DeepSeek, lenient for the other OpenAI   *)
(* compatible servers) and providers/anthropic.rs, the error codes of      *)
(* providers/http.rs, and around them AgentLoop::generate,                 *)
(* generate_with_recovery and append_response_text.  A round is one call,  *)
(* and while the tool calls it returned are not valid, the calls of        *)
(* repair_tool_calls, which stream to the same message.                    *)
(*                                                                         *)
(* The server's reply is a sequence of events: deltas, a finish reason,    *)
(* usage, and the end marker ("[DONE]" or message_stop).  An event is one  *)
(* data line and one blank line; a chunk of the network ends anywhere, so  *)
(* a line may be read in two halves, and the connection may close or break *)
(* between any two chunks.  A delta is a numbered token, so that a lost, a *)
(* repeated or a truncated one can be told from the others.                *)
(***************************************************************************)
EXTENDS Integers, Sequences, SequencesExt, FiniteSets, Loops

CONSTANTS
    PsMaxDeltas,     \* bound: deltas in one reply
    PsMaxRetries,    \* AgentLoopLimits::max_network_retries
    PsMaxRepairs,    \* MAX_REPAIR_RETRIES
    PsMaxJunk        \* bound: data lines that are no JSON in one reply

ASSUME StreamBounds == {PsMaxDeltas, PsMaxRetries, PsMaxRepairs, PsMaxJunk} \subseteq Nat

VARIABLES
    psKind,      \* which client: "openai", "deepseek" or "anthropic"
    psPhase,     \* where the call stands
    psServed,    \* the events the server has put on the wire, in this attempt
    psRead,      \* how many of them the client has read whole
    psLine,      \* "none", "half" (in the buffer), "data" (in event_data)
    psAcc,       \* the ChatAccumulator
    psPartial,   \* partial_response.text
    psEmitted,   \* the emitted flag of this attempt
    psShown,     \* the MessageDelta events the sink has recorded in this call, all
                 \* attempts
    psSinkError, \* the first error of the event sink
    psRetries,   \* retries of generate_with_recovery
    psShrunk,    \* context_retry
    psRepairs,   \* the repairs of this round's tool calls: 0 in its own call
    psCancelled, \* the run's CancellationToken
    psResult,    \* what the attempt ended with
    psAnswer     \* what the loop keeps of this call as the answer

psVars == <<psKind, psPhase, psServed, psRead, psLine, psAcc, psPartial, psEmitted, psShown,
            psSinkError, psRetries, psShrunk, psRepairs, psCancelled, psResult, psAnswer>>

wireVars == <<psKind, psServed, psCancelled>>
loopVars == <<psRetries, psShrunk, psRepairs, psAnswer>>

Deltas == {"text", "reasoning", "tool"}
\* A response that ended normally, one cut off by a cancellation, an error.
Ok        == "ok"
Cancelled == "stopped"

EmptyAcc == [text |-> <<>>, tool |-> <<>>, finish |-> FALSE]

\* The token of the n-th event of this attempt.
Token(n) == <<psRetries, psShrunk, n>>

TokensOf(kind, events) ==
    Chosen([n \in 1..Len(events) |-> Token(n)], {n \in 1..Len(events) : events[n] = kind})

-----------------------------------------------------------------------------
(* The call, up to the response's headers.                                 *)

PsInit ==
    /\ psKind \in {"openai", "deepseek", "anthropic"}
    /\ psPhase = "sending"
    /\ psServed = <<>> /\ psRead = 0 /\ psLine = "none"
    /\ psAcc = EmptyAcc /\ psPartial = <<>> /\ psEmitted = FALSE
    /\ psShown = <<>> /\ psSinkError = FALSE
    /\ psRetries = 0 /\ psShrunk = FALSE /\ psRepairs = 0
    /\ psCancelled = FALSE
    /\ psResult = "none" /\ psAnswer = <<>>

ReplyEnds(result) == psPhase' = "ended" /\ psResult' = result

\* The user cancels, or the run's deadline passes: a token, seen when polled.
RequestCancel ==
    /\ psPhase # "done" /\ ~psCancelled
    /\ psCancelled' = TRUE
    /\ UNCHANGED <<psKind, psPhase, psServed, psRead, psLine, psAcc, psPartial, psEmitted,
                   psShown, psSinkError, psResult, loopVars>>

\* The client's poll sees the token before the response: an empty response.
CancelBeforeResponse ==
    /\ psPhase = "sending" /\ psCancelled
    /\ ReplyEnds(Cancelled)
    /\ UNCHANGED <<wireVars, psRead, psLine, psAcc, psPartial, psEmitted, psShown, psSinkError,
                   loopVars>>

\* A request with an image is refused by DeepSeek's client before it is sent.
RefuseImages ==
    /\ psPhase = "sending" /\ psKind = "deepseek"
    /\ ReplyEnds("unsupported_capability")
    /\ UNCHANGED <<wireVars, psRead, psLine, psAcc, psPartial, psEmitted, psShown, psSinkError,
                   loopVars>>

\* ProviderError::from_reqwest: the client's own time-out, or the network.
from_reqwest == {"timeout", "network"}

SendFails ==
    /\ psPhase = "sending"
    /\ \E code \in from_reqwest : ReplyEnds(code)
    /\ UNCHANGED <<wireVars, psRead, psLine, psAcc, psPartial, psEmitted, psShown, psSinkError,
                   loopVars>>

\* from_status_with_headers: a status of 400 whose body speaks of the context
\* length, 401 or 403, 429, and every other status.
from_status_with_headers(status) ==
    CASE status = "too_long"  -> "context_limit"
      [] status = "denied"    -> "authentication"
      [] status = "throttled" -> "quota"
      [] OTHER                -> "provider_response"

StatusError ==
    /\ psPhase = "sending"
    /\ \E status \in {"too_long", "denied", "throttled", "other"} :
          ReplyEnds(from_status_with_headers(status))
    /\ UNCHANGED <<wireVars, psRead, psLine, psAcc, psPartial, psEmitted, psShown, psSinkError,
                   loopVars>>

\* 2xx: text/event-stream is read event by event, anything else as one body.
Headers ==
    /\ psPhase = "sending"
    /\ \E mode \in {"stream", "body"} : psPhase' = mode
    /\ UNCHANGED <<wireVars, psRead, psLine, psAcc, psPartial, psEmitted, psShown, psSinkError,
                   psResult, loopVars>>

-----------------------------------------------------------------------------
(* The server.                                                             *)

Count(kinds) == Cardinality({n \in 1..Len(psServed) : psServed[n] \in kinds})
Has(kind)    == \E n \in 1..Len(psServed) : psServed[n] = kind

\* What a server may send next: deltas, then the finish reason, then usage,
\* then the end; a line that is no JSON or an error object at any time.
Follows(event) ==
    /\ ~Has("done") /\ ~Has("error")
    /\ event \in Deltas  => ~Has("finish") /\ Count(Deltas) < PsMaxDeltas
    /\ event = "finish"  => ~Has("finish")
    /\ event = "usage"   => Has("finish") /\ ~Has("usage")
    /\ event = "done"    => Has("finish")
    /\ event = "junk"    => Count({"junk"}) < PsMaxJunk

\* The server runs at most one event ahead of the stream's reader, which takes
\* them one by one: what is further ahead is cut off as the one event is.
Serve ==
    /\ psPhase \in {"stream", "body"}
    /\ psPhase = "stream" => psRead = Len(psServed)
    /\ \E event \in Deltas \cup {"finish", "usage", "done", "junk", "error"} :
          /\ Follows(event)
          /\ psServed' = Append(psServed, event)
    /\ UNCHANGED <<psKind, psPhase, psRead, psLine, psAcc, psPartial, psEmitted, psShown,
                   psSinkError, psCancelled, psResult, loopVars>>

-----------------------------------------------------------------------------
(* Reading the stream.                                                     *)

\* generate's on_event: text is kept in partial_response and, unless the sink
\* has failed before, recorded as a MessageDelta; any delta sets emitted.
on_event(event, token, sinkFails) ==
    /\ psEmitted' = (psEmitted \/ event \in Deltas)
    /\ psPartial' = IF event = "text" THEN Append(psPartial, token) ELSE psPartial
    /\ psSinkError' = (psSinkError \/ (sinkFails /\ event \in {"text", "reasoning", "usage"}))
    /\ psShown' = IF event = "text" /\ ~psSinkError' THEN Append(psShown, token) ELSE psShown

\* What a JSON value adds to the accumulator.
apply_value(acc, event, token) ==
    CASE event = "text"   -> [acc EXCEPT !.text = Append(@, token)]
      [] event = "tool"   -> [acc EXCEPT !.tool = Append(@, token)]
      [] event = "finish" -> [acc EXCEPT !.finish = TRUE]
      [] OTHER            -> acc

\* Lenient OpenAI clients skip data that is no JSON; the strict ones fail.
strict == psKind \in {"deepseek", "anthropic"}

\* process_sse_event on the blank line that ends an event.
process_sse_event(event, sinkFails) ==
    \/ /\ event = "done"
       /\ ReplyEnds(Ok)
       /\ UNCHANGED <<psAcc, psPartial, psEmitted, psShown, psSinkError>>
    \/ /\ event = "junk"
       /\ IF strict THEN ReplyEnds("provider_response") ELSE UNCHANGED <<psPhase, psResult>>
       /\ UNCHANGED <<psAcc, psPartial, psEmitted, psShown, psSinkError>>
    \/ /\ event = "error"
       /\ ReplyEnds("provider_response")
       /\ UNCHANGED <<psAcc, psPartial, psEmitted, psShown, psSinkError>>
    \/ /\ event \notin {"done", "junk", "error"}
       /\ psAcc' = apply_value(psAcc, event, Token(psRead + 1))
       /\ on_event(event, Token(psRead + 1), sinkFails)
       /\ UNCHANGED <<psPhase, psResult>>

\* A chunk that ends inside the data line: the bytes wait in the buffer.
ReadHalfLine ==
    /\ psPhase = "stream" /\ psLine = "none" /\ psRead < Len(psServed)
    /\ psLine' = "half"
    /\ UNCHANGED <<wireVars, psPhase, psRead, psAcc, psPartial, psEmitted, psShown, psSinkError,
                   psResult, loopVars>>

\* The line feed of the data line: its text moves to event_data.
ReadDataLine ==
    /\ psPhase = "stream" /\ psLine \in {"none", "half"} /\ psRead < Len(psServed)
    /\ psLine' = "data"
    /\ UNCHANGED <<wireVars, psPhase, psRead, psAcc, psPartial, psEmitted, psShown, psSinkError,
                   psResult, loopVars>>

ReadBlankLine ==
    /\ psPhase = "stream" /\ psLine = "data"
    /\ psLine' = "none" /\ psRead' = psRead + 1
    /\ \E sinkFails \in BOOLEAN : process_sse_event(psServed[psRead + 1], sinkFails)
    /\ UNCHANGED <<wireVars, loopVars>>

\* More bytes than MAX_RESPONSE_BODY_BYTES, or one line of more than
\* MAX_SSE_BUFFER_BYTES.
TooLarge ==
    /\ psPhase \in {"stream", "body"} /\ psRead < Len(psServed)
    /\ ReplyEnds("provider_response")
    /\ UNCHANGED <<wireVars, psRead, psLine, psAcc, psPartial, psEmitted, psShown, psSinkError,
                   loopVars>>

ReadFails ==
    /\ psPhase \in {"stream", "body"}
    /\ \E code \in from_reqwest : ReplyEnds(code)
    /\ UNCHANGED <<wireVars, psRead, psLine, psAcc, psPartial, psEmitted, psShown, psSinkError,
                   loopVars>>

CancelWhileReading ==
    /\ psPhase \in {"stream", "body"} /\ psCancelled
    /\ ReplyEnds(Cancelled)
    /\ UNCHANGED <<wireVars, psRead, psLine, psAcc, psPartial, psEmitted, psShown, psSinkError,
                   loopVars>>

\* Mutant: the end of the stream is taken for the end of the reply.
EndsAnyway(acc) == Ok

\* The stream has ended without its end marker: a lenient client and
\* Anthropic's accept the reply when it had a finish reason.
stream_end(acc) ==
    IF acc.finish /\ psKind # "deepseek" THEN Ok ELSE "provider_response"

\* The connection closes.  A half line is ended by a line feed: it is the whole
\* line, a piece that is no JSON, or a piece without the "data:" prefix.  The
\* pending event is processed as if its blank line had come.
StreamEnds ==
    /\ psPhase = "stream"
    /\ \E cut \in {"nothing", "piece", "whole"} :
          /\ psLine = "none" => cut = "nothing"
          /\ psLine = "data" => cut = "whole"
          /\ LET event == IF cut = "whole" THEN psServed[psRead + 1] ELSE "junk"
                 token == Token(psRead + 1)
             IN  \/ /\ cut = "nothing"
                    /\ ReplyEnds(stream_end(psAcc))
                    /\ UNCHANGED <<psAcc, psPartial, psEmitted, psShown, psSinkError>>
                 \/ /\ cut # "nothing" /\ event \in {"done", "junk", "error"}
                    /\ ReplyEnds(CASE event = "done"             -> Ok
                               [] event = "junk" /\ ~strict -> stream_end(psAcc)
                               [] OTHER                      -> "provider_response")
                    /\ UNCHANGED <<psAcc, psPartial, psEmitted, psShown, psSinkError>>
                 \/ /\ cut # "nothing" /\ event \notin {"done", "junk", "error"}
                    /\ psAcc' = apply_value(psAcc, event, token)
                    /\ \E sinkFails \in BOOLEAN : on_event(event, token, sinkFails)
                    /\ ReplyEnds(stream_end(psAcc'))
    /\ UNCHANGED <<wireVars, psRead, psLine, loopVars>>

\* read_json_response: the body holds the whole reply, or an error object, or
\* it is no JSON.
ReadBody ==
    /\ psPhase = "body"
    /\ \/ /\ Has("error") \/ Has("junk")
          /\ ReplyEnds("provider_response")
          /\ UNCHANGED <<psAcc, psPartial, psEmitted, psShown, psSinkError>>
       \/ /\ Has("finish") /\ ~Has("error") /\ ~Has("junk")
          /\ LET text == TokensOf("text", psServed)
             IN  /\ psAcc' = [text |-> text, tool |-> TokensOf("tool", psServed),
                              finish |-> TRUE]
                 /\ psPartial' = psPartial \o text
                 /\ \E sinkFails \in BOOLEAN :
                       /\ psSinkError' = (psSinkError \/ (sinkFails /\ text # <<>>))
                       /\ psShown' = IF psSinkError' THEN psShown ELSE psShown \o text
                 /\ psEmitted' = (psEmitted \/ Count(Deltas) > 0)
          /\ ReplyEnds(Ok)
    /\ psRead' = Len(psServed)
    /\ UNCHANGED <<wireVars, psLine, loopVars>>

\* generate's select: its own time-out, or the watcher of the token, wins over
\* the provider's future, which is dropped.
GenerateGivesUp ==
    /\ psPhase \in {"sending", "stream", "body"}
    /\ \E code \in {"timeout", "cancelled"} :
          /\ code = "cancelled" => psCancelled
          /\ ReplyEnds(code)
    /\ UNCHANGED <<wireVars, psRead, psLine, psAcc, psPartial, psEmitted, psShown, psSinkError,
                   loopVars>>

-----------------------------------------------------------------------------
(* generate_with_recovery and the loop.                                    *)

\* A new attempt of generate: partial_response and emitted start afresh.
Again ==
    /\ psPhase' = "sending" /\ psResult' = "none"
    /\ psServed' = <<>> /\ psRead' = 0 /\ psLine' = "none"
    /\ psAcc' = EmptyAcc /\ psPartial' = <<>> /\ psEmitted' = FALSE
    /\ UNCHANGED <<psKind, psSinkError, psCancelled>>

\* The context limit: once, with the messages cut to three quarters.
CanShrink == psResult = "context_limit" /\ ~psShrunk /\ ~psEmitted /\ ~psSinkError

\* Mutant: a broken stream is retried although part of it was shown.
RetriesAnyFailure ==
    /\ psResult \in {"network", "timeout"} /\ psRetries < PsMaxRetries
    /\ ~psCancelled /\ ~psSinkError

\* A network failure or a time-out, while nothing has been emitted.
CanRetry ==
    /\ psResult \in {"network", "timeout"} /\ psRetries < PsMaxRetries
    /\ ~psEmitted /\ ~psCancelled /\ ~psSinkError

RetryShrunk == psPhase = "ended" /\ CanShrink /\ psShrunk' = TRUE /\ Again
               /\ UNCHANGED <<psRetries, psShown, psRepairs, psAnswer>>

RetryNetwork == psPhase = "ended" /\ CanRetry /\ psRetries' = psRetries + 1 /\ Again
                /\ UNCHANGED <<psShrunk, psShown, psRepairs, psAnswer>>

\* append_response_text: what was not streamed is recorded, and the response's
\* text joins the answer.
append_response_text ==
    LET trailing == IF IsPrefix(psPartial, psAcc.text)
                    THEN SubSeq(psAcc.text, Len(psPartial) + 1, Len(psAcc.text))
                    ELSE psAcc.text
    IN  /\ psShown' = psShown \o trailing
        /\ psAnswer' = psAnswer \o psAcc.text

\* The round's own call returns: a response's text joins the answer, an error
\* leaves what has been streamed of it there (and MessageCompleted says partial).
Finish ==
    /\ psPhase = "ended" /\ psRepairs = 0 /\ ~CanShrink /\ ~CanRetry
    /\ psPhase' = "done"
    /\ IF psResult \in {Ok, Cancelled} /\ ~psSinkError
       THEN append_response_text
       ELSE psAnswer' = psAnswer \o psPartial /\ UNCHANGED psShown
    /\ UNCHANGED <<psKind, psServed, psRead, psLine, psAcc, psPartial, psEmitted, psSinkError,
                   psRetries, psShrunk, psRepairs, psCancelled, psResult>>

\* The tool calls of a response are not valid: other ones are asked for, in a
\* call of its own that streams to the same message.
RepairCall ==
    /\ psPhase = "done" /\ psResult = Ok /\ ~psSinkError /\ ~psCancelled
    /\ psAcc.tool # <<>> /\ psRepairs < PsMaxRepairs
    /\ psRepairs' = psRepairs + 1
    /\ Again
    /\ psRetries' = 0 /\ psShrunk' = FALSE
    /\ psShown' = <<>> /\ psAnswer' = <<>>

\* A repair returns.  Of a response only the tool calls are used; what it said
\* joins the answer only when the repair gives up: after an error, when the run
\* was cancelled, or when its tool calls are wrong again and no more calls may
\* be made.
RepairReturns ==
    /\ psPhase = "ended" /\ psRepairs > 0 /\ ~CanShrink /\ ~CanRetry
    /\ psPhase' = "done"
    /\ LET failed == psResult # Ok \/ psSinkError \/ psCancelled
       IN  \/ ~failed /\ UNCHANGED <<psAnswer, psResult>>
          \/ /\ failed \/ psAcc.tool # <<>>
             /\ psAnswer' = psAnswer \o psPartial
             /\ psResult' = CASE ~failed -> "tool_repair"
                              [] psResult \in {Ok, Cancelled} /\ ~psSinkError -> "cancelled"
                              [] OTHER -> psResult
    /\ UNCHANGED <<psKind, psServed, psRead, psLine, psAcc, psPartial, psEmitted, psShown,
                   psSinkError, psRetries, psShrunk, psRepairs, psCancelled>>

PsNext ==
    \/ RequestCancel \/ CancelBeforeResponse \/ RefuseImages \/ SendFails \/ StatusError
    \/ Headers \/ Serve
    \/ ReadHalfLine \/ ReadDataLine \/ ReadBlankLine \/ TooLarge \/ ReadFails
    \/ CancelWhileReading \/ StreamEnds \/ ReadBody \/ GenerateGivesUp
    \/ RetryShrunk \/ RetryNetwork \/ Finish \/ RepairCall \/ RepairReturns

PsSpec == PsInit /\ [][PsNext]_psVars

-----------------------------------------------------------------------------
(* Properties.                                                             *)

\* A response that generate_with_recovery returns as complete holds every text
\* and every tool-argument delta that the server sent for it: a reply whose
\* connection closed early is an error, never a shorter answer or a tool call
\* with half of its arguments.
CompleteOrFailed ==
    psPhase = "done" /\ psResult = Ok =>
        /\ psAcc.finish
        /\ psAcc.text = TokensOf("text", psServed)
        /\ psAcc.tool = TokensOf("tool", psServed)

\* When a call has returned, the text shown to the user while it ran is the
\* text that the run keeps of it in its answer, over every retry, time-out and
\* cancellation (and a part of it when the event log itself failed).  The one
\* exception is a repair that succeeded: repair_tool_calls uses its tool calls
\* and drops the text that was streamed beside them.
ShownIsKept ==
    psPhase = "done" /\ ~(psRepairs > 0 /\ psResult = Ok /\ ~psSinkError) =>
        /\ IsPrefix(psShown, psAnswer)
        /\ ~psSinkError => psShown = psAnswer

=============================================================================
