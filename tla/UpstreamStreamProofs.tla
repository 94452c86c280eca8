------------------------ MODULE UpstreamStreamProofs ------------------------
(* Proofs about UpstreamStream for every number of attempts, capacity of the *)
(* channel and length of the body.                                           *)
EXTENDS UpstreamStream, TLAPS

-----------------------------------------------------------------------------
(* The inductive invariant                                                   *)

\* Nothing terminal is written before the handler leaves.
NotConcluded == handler # "left" => wire = <<>>

\* An event that reports an end goes back to a line of upstream.
Said(event) ==
  /\ event = "completed" => \E k \in 1..Len(lines) : lines[k] = "completed"
  /\ event = "done" /\ kind # "native" =>
       \E k \in 1..Len(lines) : lines[k] \in {"finish", "done"}

Announced ==
  /\ terminal => \E k \in 1..Len(lines) : lines[k] \in EndLines
  /\ Said(pending)
  /\ \A k \in 1..Len(queue) : Said(queue[k])

\* While a native handler is there, the end of its channel comes after the
\* terminal event that makes the handler leave.
Ends == {"completed", "failed"}
NativeOrder ==
  kind = "native" /\ handler # "left" =>
    /\ terminal => pending \in Ends \/ \E j \in 1..Len(queue) : queue[j] \in Ends
    /\ pending = "done" => \E j \in 1..Len(queue) : queue[j] \in Ends
    /\ \A k \in 1..Len(queue) :
         queue[k] = "done" => \E j \in 1..(k - 1) : queue[j] \in Ends

\* An error of the context is met by a handler only after Codex has left.
CancelKnown ==
  handler # "left" =>
    /\ client = "canceled" => canceled
    /\ pending = "canceled" => canceled
    /\ \A k \in 1..Len(queue) : queue[k] = "canceled" => canceled

\* The reader starts with the answer, and holds an event only to send it.
ReaderState ==
  /\ client # "opened" => reader = "none"
  /\ reader = "send" <=> pending # NoEvent

IInv ==
  /\ TypeOK /\ ReaderState
  /\ NotConcluded /\ Announced /\ NativeOrder /\ CancelKnown
  /\ TruncationReported /\ ConcludedOnce

\* Nothing has been said yet.
LEMMA Initial == Init => IInv
<1> SUFFICES ASSUME Init PROVE IInv
  OBVIOUS
<1>1. TypeOK
  <2>1. 0 \in 0..(MaxAttempts - 1) /\ 0 <= MaxLines /\ 0 <= QueueSize
    BY StreamConstants
  <2>2. lines \in Seq(Lines) /\ Len(lines) = 0
    BY DEF Init
  <2>3. queue \in Seq(DataEvents \cup Outcomes) /\ Len(queue) = 0 /\ wire \in Seq(Ends)
    BY DEF Init
  <2> QED BY <2>1, <2>2, <2>3 DEF Init, TypeOK, NoEvent, Failures, Kinds, Ends
<1>2. ReaderState /\ NotConcluded /\ Announced /\ NativeOrder /\ CancelKnown
  BY DEF Init, ReaderState, NotConcluded, Announced, Said, NativeOrder, CancelKnown, NoEvent
<1>3. TruncationReported /\ ConcludedOnce
  BY DEF Init, TruncationReported, ConcludedOnce
<1> QED BY <1>1, <1>2, <1>3 DEF IInv

\* Codex leaves: no error changes, and a silent end becomes permissible.
LEMMA CancelKeeps == IInv /\ Cancel => IInv'
BY DEF Cancel, IInv, TypeOK, ReaderState, NotConcluded, Announced, Said, NativeOrder, CancelKnown,
       TruncationReported, ConcludedOnce, Lines, EndLines

\* doWithRetry changes its own state only; that it fails as canceled is seen
\* by a handler that Codex has left.
LEMMA ClientKeeps == IInv /\ Client => IInv'
<1> SUFFICES ASSUME IInv, Client PROVE IInv'
  OBVIOUS
<1> USE DEF IInv
<1>1. UnchangedByClient
  BY DEF Client, Answered, WaitOver, WaitCanceled, Retry, GiveUp
<1>2. /\ client' \in {"do", "wait", "opened"} \cup Failures
      /\ attempt' \in 0..(MaxAttempts - 1)
      /\ reader' \in {"none", "read", "send", "closed"}
  BY StreamConstants
     DEF Client, Answered, WaitOver, WaitCanceled, Retry, GiveUp, Fails, TypeOK, Failures
<1>3. TypeOK'
  BY <1>1, <1>2 DEF TypeOK, UnchangedByClient, Lines, EndLines
<1>4. handler # "left" /\ client' = "canceled" => canceled
  BY DEF Client, Answered, WaitOver, WaitCanceled, Retry, GiveUp, Fails, ContextDone,
         RetryableFailures
<1>5. CancelKnown'
  BY <1>1, <1>4 DEF CancelKnown, UnchangedByClient
<1>6. NotConcluded' /\ Announced' /\ NativeOrder' /\ TruncationReported' /\ ConcludedOnce'
  BY <1>1 DEF UnchangedByClient, NotConcluded, Announced, Said, NativeOrder,
              TruncationReported, ConcludedOnce, EndLines
<1>7. ReaderState'
  BY <1>1 DEF ReaderState, UnchangedByClient, Client, Answered, WaitOver, WaitCanceled, Retry,
              GiveUp, Fails, Failures
<1> QED BY <1>3, <1>5, <1>6, <1>7

\* A line is turned into its event; lines are only added.
LEMMA ReadLineKeeps ==
  ASSUME IInv, NEW line \in Lines, ReadLine(line)
  PROVE IInv'
<1> USE DEF IInv
<1>1. UnchangedByReader /\ queue' = queue
  BY DEF ReadLine
<1>2. pending' \in DataEvents \cup {"done", "broken"}
  BY DEF ReadLine, EventOf, DataEvents
<1>3. TypeOK'
  <2>1. lines' \in Seq(Lines) /\ Len(lines') <= MaxLines
    BY StreamConstants DEF ReadLine, TypeOK
  <2>2. terminal' \in BOOLEAN
    BY DEF ReadLine, TypeOK
  <2> QED BY <1>1, <1>2, <2>1, <2>2
          DEF ReadLine, TypeOK, UnchangedByReader, Lines, EndLines, Outcomes, ErrorEvents
<1>4. /\ Len(lines') = Len(lines) + 1 /\ lines'[Len(lines) + 1] = line
      /\ \A k \in 1..Len(lines) : lines'[k] = lines[k]
      /\ Len(lines) \in Nat
  BY DEF ReadLine, TypeOK
<1>5. Announced'
  <2>1. terminal' => \E k \in 1..Len(lines') : lines'[k] \in EndLines'
    <3>1. EndLines' = EndLines
      BY <1>1 DEF EndLines, UnchangedByReader
    <3>2. terminal' => terminal \/ line \in EndLines
      BY DEF ReadLine
    <3>3. terminal => \E k \in 1..Len(lines) : lines[k] \in EndLines
      BY DEF Announced
    <3> QED BY <1>4, <3>1, <3>2, <3>3
  <2>2. Said(pending)'
    BY <1>1, <1>4 DEF ReadLine, EventOf, DataEvents, Said, UnchangedByReader, Lines, EndLines
  <2>3. \A k \in 1..Len(queue) : Said(queue[k])'
    BY <1>1, <1>4 DEF Announced, Said, UnchangedByReader
  <2> QED BY <1>1, <2>1, <2>2, <2>3 DEF Announced
<1>6. NativeOrder'
  <2> SUFFICES ASSUME kind = "native", handler # "left" PROVE NativeOrder'
    BY <1>1 DEF NativeOrder, UnchangedByReader
  <2>1. terminal => \E j \in 1..Len(queue) : queue[j] \in Ends
    BY DEF NativeOrder, ReaderState, ReadLine, NoEvent, Ends
  <2>2. pending' = "done" => terminal
    BY DEF ReadLine, EventOf, DataEvents
  <2>3. terminal' => terminal \/ pending' \in Ends
    BY DEF ReadLine, EventOf, DataEvents, EndLines, Ends
  <2> QED BY <1>1, <2>1, <2>2, <2>3 DEF NativeOrder
<1>7. CancelKnown'
  BY <1>1, <1>2 DEF CancelKnown, UnchangedByReader, DataEvents
<1>8. TruncationReported' /\ NotConcluded' /\ ConcludedOnce'
  BY <1>1, <1>4 DEF TruncationReported, NotConcluded, ConcludedOnce, UnchangedByReader
<1>9. ReaderState'
  BY <1>1, <1>2 DEF ReaderState, ReadLine, UnchangedByReader, NoEvent, DataEvents
<1> QED BY <1>3, <1>5, <1>6, <1>7, <1>8, <1>9

\* What the reader makes of the end of the body: an end only after one was
\* announced.
LEMMA ReadEndKeeps == IInv /\ ReadEnd => IInv'
<1> SUFFICES ASSUME IInv, ReadEnd PROVE IInv'
  OBVIOUS
<1> USE DEF IInv
<1>1. UnchangedByReader /\ queue' = queue /\ lines' = lines /\ terminal' = terminal
  BY DEF ReadEnd
<1>2. /\ pending' \in {"done", "broken"} /\ (pending' = "done" => terminal)
      /\ reader = "read" /\ reader' = "send" /\ pending = NoEvent
  BY DEF ReadEnd, ReaderState
<1>3. TypeOK'
  BY <1>1, <1>2 DEF TypeOK, UnchangedByReader, Lines, EndLines, Outcomes, ErrorEvents
<1>4. Announced'
  <2>1. Said(pending)'
    BY <1>1, <1>2 DEF Announced, Said, EndLines, UnchangedByReader
  <2> QED BY <1>1, <2>1 DEF Announced, Said, EndLines, UnchangedByReader
<1>5. NativeOrder'
  BY <1>1, <1>2 DEF NativeOrder, UnchangedByReader, NoEvent, Ends
<1>6. ReaderState' /\ CancelKnown'
  BY <1>1, <1>2 DEF ReaderState, CancelKnown, UnchangedByReader, NoEvent
<1>7. TruncationReported' /\ NotConcluded' /\ ConcludedOnce'
  BY <1>1 DEF TruncationReported, NotConcluded, ConcludedOnce, UnchangedByReader
<1> QED BY <1>3, <1>4, <1>5, <1>6, <1>7

\* An error of the body: that of the context only when it is done.
LEMMA ReadErrorKeeps ==
  ASSUME IInv, NEW error \in ErrorEvents, ReadError(error)
  PROVE IInv'
<1> USE DEF IInv
<1>1. UnchangedByReader /\ queue' = queue /\ lines' = lines /\ terminal' = terminal
  BY DEF ReadError
<1>2. /\ pending' \in ErrorEvents /\ (pending' = "canceled" => ContextDone)
      /\ reader = "read" /\ reader' = "send" /\ pending = NoEvent
  BY DEF ReadError, ReaderState
<1>3. TypeOK'
  BY <1>1, <1>2 DEF TypeOK, UnchangedByReader, Lines, EndLines, Outcomes
<1>4. Announced'
  BY <1>1, <1>2 DEF Announced, Said, EndLines, ErrorEvents, UnchangedByReader
<1>5. NativeOrder'
  BY <1>1, <1>2 DEF NativeOrder, UnchangedByReader, NoEvent, Ends, ErrorEvents
<1>6. ReaderState' /\ CancelKnown'
  BY <1>1, <1>2 DEF ReaderState, CancelKnown, ContextDone, UnchangedByReader, NoEvent, ErrorEvents
<1>7. TruncationReported' /\ NotConcluded' /\ ConcludedOnce'
  BY <1>1 DEF TruncationReported, NotConcluded, ConcludedOnce, UnchangedByReader
<1> QED BY <1>3, <1>4, <1>5, <1>6, <1>7

\* The pending event joins the channel behind the events it depends on.
LEMMA SendKeeps == IInv /\ Send => IInv'
<1> SUFFICES ASSUME IInv, Send PROVE IInv'
  OBVIOUS
<1> USE DEF IInv
<1>1. UnchangedByReader /\ lines' = lines /\ terminal' = terminal /\ pending' = NoEvent
  BY DEF Send
<1>2. /\ queue \in Seq(DataEvents \cup Outcomes) /\ pending \in DataEvents \cup Outcomes
      /\ Len(queue) < QueueSize /\ queue' = Append(queue, pending)
  BY DEF Send, TypeOK, ReaderState
<1>3. /\ queue' \in Seq(DataEvents \cup Outcomes)
      /\ Len(queue') = Len(queue) + 1 /\ Len(queue) \in Nat
      /\ queue'[Len(queue) + 1] = pending
      /\ \A k \in 1..Len(queue) : queue'[k] = queue[k]
  BY <1>2
<1>4. TypeOK'
  <2>1. Len(queue') <= QueueSize
    BY <1>2, <1>3, StreamConstants
  <2>2. reader' \in {"read", "closed"}
    BY DEF Send
  <2> QED BY <1>1, <1>3, <2>1, <2>2 DEF TypeOK, UnchangedByReader, Lines, EndLines
<1>5. Announced'
  BY <1>1, <1>3 DEF Announced, Said, EndLines, NoEvent, UnchangedByReader
<1>6. NativeOrder'
  <2> SUFFICES ASSUME kind = "native", handler # "left" PROVE NativeOrder'
    BY <1>1 DEF NativeOrder, UnchangedByReader
  <2>1. terminal => \E j \in 1..Len(queue') : queue'[j] \in Ends
    BY <1>3 DEF NativeOrder
  <2>2. ASSUME NEW k \in 1..Len(queue'), queue'[k] = "done"
        PROVE  \E j \in 1..(k - 1) : queue'[j] \in Ends
    <3>1. CASE k = Len(queue) + 1
      BY <1>3, <2>2, <3>1 DEF NativeOrder
    <3>2. CASE k \in 1..Len(queue)
      <4>1. PICK j \in 1..(k - 1) : queue[j] \in Ends
        BY <1>3, <2>2, <3>2 DEF NativeOrder
      <4> QED BY <1>3, <3>2, <4>1
    <3> QED BY <1>3, <3>1, <3>2
  <2> QED BY <1>1, <2>1, <2>2 DEF NativeOrder, NoEvent
<1>7. CancelKnown'
  BY <1>1, <1>3 DEF CancelKnown, NoEvent, UnchangedByReader
<1>8. ReaderState'
  BY <1>1 DEF Send, ReaderState, UnchangedByReader
<1>9. TruncationReported' /\ NotConcluded' /\ ConcludedOnce'
  BY <1>1 DEF TruncationReported, NotConcluded, ConcludedOnce, UnchangedByReader
<1> QED BY <1>4, <1>5, <1>6, <1>7, <1>8, <1>9

\* Only what a handler writes and how it ends is at stake once it leaves.
LEMMA LeavingKeeps ==
  ASSUME IInv, handler # "left", handler' = "left", UnchangedByHandler,
         queue' = queue \/ (queue # <<>> /\ queue' = Tail(queue)),
         failure' \in {"none", "broken"} \cup Failures,
         wire' \in Seq({"completed", "failed"}),
         TruncationReported', ConcludedOnce'
  PROVE  IInv'
<1> USE DEF IInv
<1>1. /\ queue' \in Seq(DataEvents \cup Outcomes)
      /\ Len(queue') <= QueueSize
      /\ \A k \in 1..Len(queue') : \E j \in 1..Len(queue) : queue'[k] = queue[j]
  <2>1. queue \in Seq(DataEvents \cup Outcomes) /\ Len(queue) <= QueueSize
    BY DEF TypeOK
  <2>2. CASE queue' = queue
    BY <2>1, <2>2
  <2>3. CASE queue # <<>> /\ queue' = Tail(queue)
    <3>1. /\ queue' \in Seq(DataEvents \cup Outcomes) /\ Len(queue) \in Nat \ {0}
          /\ Len(queue') = Len(queue) - 1
          /\ \A k \in 1..Len(queue') : queue'[k] = queue[k + 1]
      BY <2>1, <2>3
    <3>2. \A k \in 1..Len(queue') : k + 1 \in 1..Len(queue)
      BY <3>1
    <3> QED BY <2>1, <3>1, <3>2, StreamConstants
  <2> QED BY <2>2, <2>3
<1>2. TypeOK'
  BY <1>1 DEF TypeOK, UnchangedByHandler, Lines, EndLines
<1>3. Announced'
  BY <1>1 DEF Announced, Said, EndLines, UnchangedByHandler
<1>4. ReaderState' /\ NotConcluded' /\ NativeOrder' /\ CancelKnown'
  BY DEF ReaderState, NotConcluded, NativeOrder, CancelKnown, UnchangedByHandler
<1> QED BY <1>2, <1>3, <1>4

\* A handler that ends with an error writes one failed event or, for a reason,
\* nothing.
LEMMA ErrorKeeps ==
  ASSUME IInv, handler # "left",
         NEW error \in {"broken"} \cup Failures, error = "canceled" => canceled,
         ConcludeError(error),
         queue' = queue \/ (queue # <<>> /\ queue' = Tail(queue))
  PROVE  IInv'
<1>1. wire = <<>>
  BY DEF IInv, NotConcluded
<1>2. /\ handler' = "left" /\ failure' = error /\ UnchangedByHandler
      /\ wire' = IF RequestCanceled(error) \/ kind = "rounds" THEN <<>> ELSE <<"failed">>
  BY <1>1 DEF ConcludeError, Conclude
<1>3. wire' \in Seq({"completed", "failed"}) /\ TruncationReported'
  <2>1. CASE wire' = <<>>
    BY <2>1 DEF TruncationReported
  <2>2. CASE wire' = <<"failed">>
    BY <2>2 DEF TruncationReported
  <2> QED BY <1>2, <2>1, <2>2
<1>4. ConcludedOnce'
  BY <1>2 DEF ConcludedOnce, RequestCanceled, UnchangedByHandler
<1> QED BY <1>2, <1>3, <1>4, LeavingKeeps

\* What a step of a handler keeps: the three ways to leave, and the events it
\* takes from the channel.
LEMMA HandlerKeeps == IInv /\ Handler => IInv'
<1> SUFFICES ASSUME IInv, Handler PROVE IInv'
  OBVIOUS
<1>1. wire = <<>> /\ handler # "left"
  BY DEF IInv, NotConcluded, Handler, TakeStream, TakeFailure, Leave, ReceiveData, ReceiveDone,
         ReceiveError, Receiving
<1>2. CASE TakeStream
  BY <1>1, <1>2 DEF TakeStream, UnchangedByHandler, IInv, TypeOK, ReaderState, NotConcluded,
       Announced, Said, NativeOrder, CancelKnown, TruncationReported, ConcludedOnce, Lines, EndLines
<1>3. CASE TakeFailure
  <2>1. client \in Failures /\ (client = "canceled" => canceled)
    BY <1>1, <1>3 DEF TakeFailure, IInv, CancelKnown
  <2> QED BY <1>1, <1>3, <2>1, ErrorKeeps DEF TakeFailure
<1>4. CASE Leave
  <2>1. /\ handler' = "left" /\ failure' = "canceled" /\ wire' = <<>> /\ queue' = queue
        /\ canceled /\ UnchangedByHandler
    BY <1>1, <1>4 DEF Leave, Conclude
  <2>2. TruncationReported' /\ ConcludedOnce'
    BY <2>1 DEF TruncationReported, ConcludedOnce, UnchangedByHandler
  <2> QED BY <1>1, <2>1, <2>2, LeavingKeeps DEF Failures
<1>5. CASE ReceiveError
  <2>1. Head(queue) \in ErrorEvents /\ Head(queue) = queue[1] /\ 1 \in 1..Len(queue)
    BY <1>5 DEF ReceiveError, Receiving, IInv, TypeOK
  <2>2. Head(queue) \in {"broken"} \cup Failures /\ (Head(queue) = "canceled" => canceled)
    BY <1>1, <2>1 DEF IInv, CancelKnown, ErrorEvents, Failures
  <2> QED BY <1>1, <1>5, <2>2, ErrorKeeps DEF ReceiveError, Receiving
<1>6. CASE ReceiveDone
  <2>1. Head(queue) = "done" /\ Head(queue) = queue[1] /\ 1 \in 1..Len(queue)
    BY <1>6 DEF ReceiveDone, Receiving, IInv, TypeOK
  <2>2. kind # "native"
    BY <1>1, <2>1 DEF IInv, NativeOrder
  <2>3. \E k \in 1..Len(lines) : lines[k] \in {"finish", "done"}
    BY <2>1, <2>2 DEF IInv, Announced, Said
  <2>4. /\ handler' = "left" /\ failure' = "none" /\ UnchangedByHandler
        /\ wire' = IF kind = "plain" THEN <<"completed">> ELSE <<>>
    BY <1>1, <1>6 DEF ReceiveDone, Conclude
  <2>5. TruncationReported'
    BY <2>3, <2>4 DEF TruncationReported, UnchangedByHandler
  <2>6. ConcludedOnce'
    BY <2>2, <2>4 DEF ConcludedOnce, UnchangedByHandler, IInv, TypeOK, Kinds
  <2>7. wire' \in Seq({"completed", "failed"})
    <3>1. CASE wire' = <<>>
      BY <3>1
    <3>2. CASE wire' = <<"completed">>
      BY <3>2
    <3> QED BY <2>4, <3>1, <3>2
  <2> QED BY <1>1, <1>6, <2>4, <2>5, <2>6, <2>7, LeavingKeeps DEF ReceiveDone, Receiving
<1>7. CASE ReceiveData /\ kind = "native" /\ Head(queue) \in EndLines
  <2>1. Head(queue) \in Ends /\ Head(queue) = queue[1] /\ 1 \in 1..Len(queue)
    BY <1>7 DEF ReceiveData, Receiving, IInv, TypeOK, EndLines, Ends
  <2>2. /\ handler' = "left" /\ failure' = "none" /\ UnchangedByHandler
        /\ wire' = <<Head(queue)>>
    BY <1>1, <1>7 DEF ReceiveData, Conclude
  <2>3. TruncationReported'
    <3>1. Head(queue) = "completed" => \E k \in 1..Len(lines) : lines[k] = "completed"
      BY <2>1 DEF IInv, Announced, Said
    <3> QED BY <2>2, <3>1 DEF TruncationReported, UnchangedByHandler
  <2>4. wire' \in Seq({"completed", "failed"}) /\ ConcludedOnce'
    BY <2>1, <2>2 DEF ConcludedOnce, Ends
  <2> QED BY <1>1, <1>7, <2>2, <2>3, <2>4, LeavingKeeps DEF ReceiveData, Receiving
<1>8. CASE ReceiveData /\ ~(kind = "native" /\ Head(queue) \in EndLines)
  <2> USE DEF IInv
  <2>1. UNCHANGED <<handler, failure, wire>> /\ UnchangedByHandler
    BY <1>8 DEF ReceiveData
  <2>2. /\ queue \in Seq(DataEvents \cup Outcomes) /\ queue # <<>>
        /\ queue[1] \in DataEvents /\ queue[1] = Head(queue) /\ queue' = Tail(queue)
    BY <1>8 DEF ReceiveData, Receiving, TypeOK
  <2>3. /\ queue' \in Seq(DataEvents \cup Outcomes)
        /\ Len(queue) \in Nat \ {0} /\ Len(queue') = Len(queue) - 1
        /\ \A k \in 1..Len(queue') : queue'[k] = queue[k + 1]
    BY <2>2
  <2>4. TypeOK'
    BY <2>1, <2>3, StreamConstants DEF TypeOK, UnchangedByHandler, Lines, EndLines
  <2>5. Announced'
    BY <2>1, <2>3 DEF Announced, Said, EndLines, UnchangedByHandler
  <2>6. NativeOrder'
    <3> SUFFICES ASSUME kind = "native", handler # "left" PROVE NativeOrder'
      BY <2>1 DEF NativeOrder, UnchangedByHandler
    <3>1. queue[1] \notin Ends
      BY <1>8, <2>2 DEF EndLines, Ends
    <3>2. ASSUME NEW j \in 1..Len(queue), queue[j] \in Ends
          PROVE  j - 1 \in 1..Len(queue') /\ queue'[j - 1] \in Ends
      BY <2>3, <3>1, <3>2
    <3>3. (\E j \in 1..Len(queue) : queue[j] \in Ends)
            => \E j \in 1..Len(queue') : queue'[j] \in Ends
      BY <3>2
    <3>4. ASSUME NEW k \in 1..Len(queue'), queue'[k] = "done"
          PROVE  \E j \in 1..(k - 1) : queue'[j] \in Ends
      <4>1. PICK j \in 1..k : queue[j] \in Ends
        BY <2>3, <3>4 DEF NativeOrder
      <4> QED BY <2>3, <3>2, <4>1
    <3> QED BY <2>1, <3>3, <3>4 DEF NativeOrder, UnchangedByHandler
  <2>7. CancelKnown'
    BY <2>1, <2>3 DEF CancelKnown, UnchangedByHandler
  <2>8. ReaderState' /\ NotConcluded' /\ TruncationReported' /\ ConcludedOnce'
    BY <2>1 DEF ReaderState, NotConcluded, TruncationReported, ConcludedOnce, UnchangedByHandler
  <2> QED BY <2>4, <2>5, <2>6, <2>7, <2>8
<1> QED BY <1>2, <1>3, <1>4, <1>5, <1>6, <1>7, <1>8 DEF Handler

\* Every step keeps the invariant.
LEMMA Step == IInv /\ [Next]_vars => IInv'
<1> SUFFICES ASSUME IInv, [Next]_vars PROVE IInv'
  OBVIOUS
<1>1. CASE Cancel
  BY <1>1, CancelKeeps
<1>2. CASE Client
  BY <1>2, ClientKeeps
<1>3. CASE Reader
  BY <1>3, ReadEndKeeps, SendKeeps, ReadLineKeeps, ReadErrorKeeps DEF Reader
<1>4. CASE Handler
  BY <1>4, HandlerKeeps
<1>5. CASE UNCHANGED vars
  BY <1>5 DEF vars, IInv, TypeOK, ReaderState, NotConcluded, Announced, Said, NativeOrder,
              CancelKnown, TruncationReported, ConcludedOnce, Lines, EndLines
<1> QED BY <1>1, <1>2, <1>3, <1>4, <1>5 DEF Next

\* The invariant holds in every reachable state.
LEMMA Invariant == Spec => []IInv
BY Initial, Step, PTL DEF Spec

-----------------------------------------------------------------------------
(* Theorems                                                                  *)

\* Every variable keeps its type; the channel never holds more than its
\* capacity, and doWithRetry never starts more than MaxAttempts attempts.
THEOREM TypeCorrect == Spec => []TypeOK
<1>1. IInv => TypeOK
  BY DEF IInv
<1> QED BY <1>1, Invariant, PTL

\* An answer cut off by upstream is not passed to Codex as complete, under any
\* interleaving of the reader, the call and the handler.
THEOREM CutOffIsReported == Spec => []TruncationReported
<1>1. IInv => TruncationReported
  BY DEF IInv
<1> QED BY <1>1, Invariant, PTL

\* The handlers of streamResponses and forwardResponses write one terminal
\* event, or none to a client that has left or after the client's timeout.
THEOREM EndsOnce == Spec => []ConcludedOnce
<1>1. IInv => ConcludedOnce
  BY DEF IInv
<1> QED BY <1>1, Invariant, PTL
=============================================================================
