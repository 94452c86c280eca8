---------------------------- MODULE UpstreamStream ----------------------------
(***************************************************************************)
(* One streamed upstream request and the goroutines that serve it: the     *)
(* call with its single retry (doWithRetry), the reader that feeds a       *)
(* bounded channel from the response body (Stream, StreamResponse), and    *)
(* the handler that drains it, in the three ways of the server:            *)
(*   "plain"   streamResponses: chat, the call in a goroutine of its own   *)
(*   "rounds"  streamVisibleMessage: chat, one round of ChatTurn           *)
(*   "native"  forwardResponses: Responses events passed through           *)
(* Retry delays, heartbeats and the content of chunks change nothing here. *)
(* A reader always sends an outcome before it closes the channel, so the   *)
(* handlers' branch for a closed channel is never taken.                   *)
(***************************************************************************)
EXTENDS Naturals, Sequences

CONSTANTS
  MaxAttempts,      \* attempts of doWithRetry
  QueueSize,        \* capacity of the channel of stream events
  MaxLines          \* bound: data lines of one response body

ASSUME StreamConstants ==
  /\ MaxAttempts \in Nat \ {0}
  /\ QueueSize \in Nat \ {0}
  /\ MaxLines \in Nat

Kinds == {"plain", "rounds", "native"}

VARIABLES
  kind,         \* which handler serves the request
  handler,      \* where the handler is
  canceled,     \* Codex closed the connection
  client,       \* where doWithRetry is
  attempt,      \* attempts before this one
  failure,      \* the error the handler has been given
  lines,        \* data lines upstream has sent
  reader,       \* where the reader is
  terminal,     \* finished, terminal: an end was announced in the stream
  pending,      \* the event the reader is about to send
  queue,        \* the channel
  wire          \* terminal events Codex got

vars == <<kind, handler, canceled, client, attempt, failure, lines, reader,
          terminal, pending, queue, wire>>

\* What a line of the body says: more of the answer; the end of it (a finish
\* reason, or one of the two ends of a Responses stream); [DONE]; no JSON.
EndLines == IF kind = "native" THEN {"completed", "failed"} ELSE {"finish"}
Lines == {"chunk", "done", "garbage"} \cup EndLines

\* Why an attempt fails: a status worth a retry, another one, no answer at
\* all, the timeout of the HTTP client, or a context that is done.
Failures == {"busy", "rejected", "network", "timeout", "canceled"}
RetryableFailures == {"busy", "network", "timeout"}

\* Events of the channel: data, the end, and errors.
ErrorEvents == {"broken", "timeout", "canceled"}
DataEvents == {"chunk", "finish", "completed", "failed"}
Outcomes == {"done"} \cup ErrorEvents
NoEvent == "none"

\* r.Context() is done: Codex has left, or the handler has returned.
ContextDone == canceled \/ handler = "left"

Init ==
  /\ kind \in Kinds
  /\ handler = "opening"
  /\ canceled = FALSE
  /\ client = "do"
  /\ attempt = 0
  /\ failure = "none"
  /\ lines = <<>>
  /\ reader = "none"
  /\ terminal = FALSE
  /\ pending = NoEvent
  /\ queue = <<>>
  /\ wire = <<>>

Cancel ==
  /\ handler # "left" /\ ~canceled
  /\ canceled' = TRUE
  /\ UNCHANGED <<kind, handler, client, attempt, failure, lines, reader, terminal,
                 pending, queue, wire>>

-----------------------------------------------------------------------------
(* doWithRetry                                                             *)

UnchangedByClient ==
  UNCHANGED <<kind, handler, canceled, failure, lines, terminal, pending, queue, wire>>

\* A status of 2xx: the stream is returned and its reader started, even for a
\* handler that has just left.
Answered ==
  /\ client = "do"
  /\ client' = "opened"
  /\ reader' = "read"
  /\ UNCHANGED attempt /\ UnchangedByClient

\* A request whose context is done fails as canceled, if it was still running.
Fails(why) ==
  /\ client = "do"
  /\ why = "canceled" => ContextDone

\* retryableUpstreamError
Retry(why) ==
  /\ Fails(why) /\ why \in RetryableFailures /\ ~ContextDone
  /\ attempt + 1 < MaxAttempts
  /\ client' = "wait"
  /\ attempt' = attempt + 1
  /\ UNCHANGED reader /\ UnchangedByClient

GiveUp(why) ==
  /\ Fails(why)
  /\ attempt + 1 = MaxAttempts \/ why \notin RetryableFailures \/ ContextDone
  /\ client' = why
  /\ UNCHANGED <<attempt, reader>> /\ UnchangedByClient

\* The timer of the delay, or the context: whichever is ready.
WaitOver ==
  /\ client = "wait"
  /\ client' = "do"
  /\ UNCHANGED <<attempt, reader>> /\ UnchangedByClient
WaitCanceled ==
  /\ client = "wait" /\ ContextDone
  /\ client' = "canceled"
  /\ UNCHANGED <<attempt, reader>> /\ UnchangedByClient

Client ==
  \/ Answered \/ WaitOver \/ WaitCanceled
  \/ \E why \in Failures : Retry(why) \/ GiveUp(why)

-----------------------------------------------------------------------------
(* The reader goroutine                                                    *)

UnchangedByReader ==
  UNCHANGED <<kind, handler, canceled, client, attempt, failure, wire>>

\* Mutant: [DONE] is taken for the end of a Responses stream as well.
EventOfAnyDone(line) ==
  IF line \in DataEvents \cup {"done"} THEN line ELSE "broken"

\* The event a line is turned into.  [DONE] ends a chat stream, and a
\* Responses stream that has had its terminal event.
EventOf(line) ==
  IF line \in DataEvents \/ (line = "done" /\ (kind # "native" \/ terminal))
  THEN line ELSE "broken"

\* Upstream sends the next line; after an end only [DONE] may follow.  Lines
\* already buffered are read even when the context is done.
ReadLine(line) ==
  /\ reader = "read" /\ Len(lines) < MaxLines
  /\ terminal => line = "done"
  /\ lines' = Append(lines, line)
  /\ terminal' = (terminal \/ line \in EndLines)
  /\ pending' = EventOf(line)
  /\ reader' = "send"
  /\ UNCHANGED queue /\ UnchangedByReader

\* Mutant: a body that ends early is taken for a complete one.
ReadEndUnchecked ==
  /\ reader = "read"
  /\ pending' = "done"
  /\ reader' = "send"
  /\ UNCHANGED <<lines, terminal, queue>> /\ UnchangedByReader

\* The body ends, early or not.
ReadEnd ==
  /\ reader = "read"
  /\ pending' = IF terminal THEN "done" ELSE "broken"
  /\ reader' = "send"
  /\ UNCHANGED <<lines, terminal, queue>> /\ UnchangedByReader

\* The body cannot be read on.
ReadError(error) ==
  /\ reader = "read"
  /\ error = "canceled" => ContextDone
  /\ pending' = error
  /\ reader' = "send"
  /\ UNCHANGED <<lines, terminal, queue>> /\ UnchangedByReader

\* Mutant: the reader does not return after an outcome.
SendOn ==
  /\ reader = "send" /\ Len(queue) < QueueSize
  /\ queue' = Append(queue, pending)
  /\ reader' = "read"
  /\ pending' = NoEvent
  /\ UNCHANGED <<lines, terminal>> /\ UnchangedByReader

\* The send blocks while the channel is full, whoever may still read it.
Send ==
  /\ reader = "send" /\ Len(queue) < QueueSize
  /\ queue' = Append(queue, pending)
  /\ reader' = IF pending \in Outcomes THEN "closed" ELSE "read"
  /\ pending' = NoEvent
  /\ UNCHANGED <<lines, terminal>> /\ UnchangedByReader

Reader ==
  \/ ReadEnd \/ Send
  \/ \E line \in Lines : ReadLine(line)
  \/ \E error \in ErrorEvents : ReadError(error)

-----------------------------------------------------------------------------
(* The handlers                                                            *)

UnchangedByHandler ==
  UNCHANGED <<kind, canceled, client, attempt, lines, reader, terminal, pending>>

\* requestCanceled: an error of the context, or any error once that is done;
\* the HTTP client's timeout is a context.DeadlineExceeded too.
RequestCanceled(error) == canceled \/ error \in {"canceled", "timeout"}

Conclude(error, last) ==
  /\ handler' = "left"
  /\ failure' = error
  /\ wire' = wire \o last
  /\ UnchangedByHandler

\* The rounds of ChatTurn write the terminal event of their turn themselves.
ConcludeError(error) ==
  Conclude(error, IF RequestCanceled(error) \/ kind = "rounds" THEN <<>> ELSE <<"failed">>)

TakeStream ==
  /\ handler = "opening" /\ client = "opened"
  /\ handler' = "reading"
  /\ UNCHANGED <<failure, queue, wire>> /\ UnchangedByHandler

TakeFailure ==
  /\ handler = "opening" /\ client \in Failures
  /\ ConcludeError(client)
  /\ UNCHANGED queue

\* The chat handlers watch the context while they wait; the goroutine that
\* opens a plain stream is left to itself.
Leave ==
  /\ \/ kind = "plain" /\ handler = "opening"
     \/ kind # "native" /\ handler = "reading"
  /\ canceled
  /\ Conclude("canceled", <<>>)
  /\ UNCHANGED queue

Receiving == handler = "reading" /\ queue # <<>> /\ queue' = Tail(queue)

\* A native stream is over for the handler with its terminal event.
ReceiveData ==
  /\ Receiving /\ Head(queue) \in DataEvents
  /\ IF kind = "native" /\ Head(queue) \in EndLines
     THEN Conclude("none", <<Head(queue)>>)
     ELSE UNCHANGED <<handler, failure, wire>> /\ UnchangedByHandler

ReceiveDone ==
  /\ Receiving /\ Head(queue) = "done"
  /\ Conclude("none", IF kind = "plain" THEN <<"completed">> ELSE <<>>)

ReceiveError == Receiving /\ Head(queue) \in ErrorEvents /\ ConcludeError(Head(queue))

Handler ==
  \/ TakeStream \/ TakeFailure \/ Leave
  \/ ReceiveData \/ ReceiveDone \/ ReceiveError

Next == Cancel \/ Client \/ Reader \/ Handler

Spec == Init /\ [][Next]_vars

\* The goroutines are scheduled; the HTTP client's timeout of ten minutes ends
\* every request and every read that upstream leaves open.
FairSpec == Spec /\ WF_vars(Client) /\ WF_vars(Reader) /\ WF_vars(Handler)

-----------------------------------------------------------------------------
(* Properties                                                              *)

\* All variables stay in their types.
TypeOK ==
  /\ kind \in Kinds
  /\ handler \in {"opening", "reading", "left"}
  /\ canceled \in BOOLEAN
  /\ client \in {"do", "wait", "opened"} \cup Failures
  /\ attempt \in 0..(MaxAttempts - 1)
  /\ failure \in {"none", "broken"} \cup Failures
  /\ lines \in Seq(Lines) /\ Len(lines) <= MaxLines
  /\ reader \in {"none", "read", "send", "closed"}
  /\ terminal \in BOOLEAN
  /\ pending \in DataEvents \cup Outcomes \cup {NoEvent}
  /\ queue \in Seq(DataEvents \cup Outcomes) /\ Len(queue) <= QueueSize
  /\ wire \in Seq({"completed", "failed"})

\* An answer that upstream cut off is never passed on as a complete one,
\* whatever was buffered when the connection broke.
TruncationReported ==
  (\E k \in 1..Len(wire) : wire[k] = "completed") =>
    \E k \in 1..Len(lines) : lines[k] \in {"finish", "completed", "done"}

\* Codex gets exactly one terminal event of a plain or native stream, unless it
\* has left or the HTTP client has run into its timeout.
ConcludedOnce ==
  handler = "left" /\ kind # "rounds" =>
    \/ Len(wire) = 1
    \/ wire = <<>> /\ (canceled \/ failure = "timeout")

\* A reader blocked for ever: its channel is full and nobody reads it.
Abandoned == handler = "left" /\ reader = "send" /\ Len(queue) = QueueSize

\* The handler returns, and neither the goroutine that makes the call nor the
\* reader outlives it for good, unless Codex left while the channel was full.
GoroutinesEnd ==
  /\ <>(handler = "left")
  /\ <>[](/\ client \notin {"do", "wait"}
          /\ reader \in {"none", "closed"} \/ (Abandoned /\ canceled))
=============================================================================
