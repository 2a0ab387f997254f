------------------------------- MODULE Channel -------------------------------
(***************************************************************************)
(* One direction of the link between a client and the Core (src/ipc): the  *)
(* messages that one side writes as lines of JSON to a pipe, the transport *)
(* that cuts what it reads back into lines, whatever the chunks, and the   *)
(* protocol that hands an answer to the request that waits for it.  The    *)
(* other modules take this for a FIFO channel of messages.                 *)
(*                                                                         *)
(* The pipe is the standard output of a process, so that text that is no   *)
(* message may come between two messages, with or without a newline.       *)
(***************************************************************************)
EXTENDS Integers, FiniteSets, SequencesExt

CONSTANTS
    Msg,      \* each is written at most once
    Size,         \* per message, its bytes with the newline
    RequestId,      \* request ids
    AnswerTo,     \* per message, the request id that it carries, or NoOne
    Waiter,       \* the calls of waitForResponse
    WaitsFor,     \* per waiter, its request id
    NoOne,
    MaxLine,      \* maxLineSize
    MaxChunk,     \* bound: bytes that one read returns
    MaxText       \* bound: bytes of other text

ASSUME ChannelAssumption ==
    /\ Size \in [Msg -> Nat \ {0}] /\ NoOne \notin RequestId \cup Waiter \cup Msg
    /\ AnswerTo \in [Msg -> RequestId \cup {NoOne}] /\ WaitsFor \in [Waiter -> RequestId]
    /\ MaxLine \in Nat \ {0} /\ MaxChunk \in 1..MaxLine /\ MaxText \in Nat

VARIABLES
    written,     \* history: the messages that the writer accepted, in order
    mixed,       \* history: the messages that follow text without a newline
    pipe,        \* the bytes that are not read yet
    text,        \* bytes of other text so far
    buffer,      \* buffer of readLoop
    delivered,   \* history: the messages that were dispatched, in order
    link,        \* the reader's end of the link
    pending,     \* pendingRequests
    waiter,      \* per call of waitForResponse, where it is
    settled      \* per call, what it settles with

channelVars == <<written, mixed, pipe, text, buffer, delivered, link, pending, waiter, settled>>

Byte == [of: Msg \cup {NoOne}, last: BOOLEAN]

ChannelTypeOK ==
    /\ written \in Seq(Msg) /\ delivered \in Seq(Msg) /\ mixed \subseteq Msg
    /\ pipe \in Seq(Byte) /\ buffer \in Seq(Byte) /\ text \in 0..MaxText
    /\ link \in {"open", "ended", "closed"}
    /\ pending \in [RequestId -> Waiter \cup {NoOne}]
    /\ waiter \in [Waiter -> {"none", "waiting", "late", "settling", "done"}]
    /\ settled \in [Waiter -> {"none", "answer", "timeout", "replaced", "disconnected", "stopped"}]

ChannelInit ==
    /\ written = <<>> /\ mixed = {} /\ pipe = <<>> /\ text = 0 /\ buffer = <<>>
    /\ delivered = <<>> /\ link = "open"
    /\ pending = [r \in RequestId |-> NoOne]
    /\ waiter = [w \in Waiter |-> "none"] /\ settled = [w \in Waiter |-> "none"]

protocolVars == <<pending, waiter, settled>>

---------------------------------------------------------------------------
(* The writer's side.                                                      *)

Line(m) == [i \in 1..Size[m] |-> [of |-> m, last |-> i = Size[m]]]

\* A message that is too long for a line is refused (IpcBufferOverflowError).
WriteMessage(m) ==
    /\ link = "open" /\ m \notin ToSet(written) /\ Size[m] <= MaxLine
    /\ written' = Append(written, m)
    /\ mixed' = IF buffer \o pipe # <<>> /\ Last(buffer \o pipe).of = NoOne /\ ~Last(buffer \o pipe).last
                THEN mixed \cup {m} ELSE mixed
    /\ pipe' = pipe \o Line(m)
    /\ UNCHANGED <<text, buffer, delivered, link, protocolVars>>

\* Something else in the process prints.
OtherText(last) ==
    /\ link = "open" /\ text < MaxText
    /\ text' = text + 1
    /\ pipe' = Append(pipe, [of |-> NoOne, last |-> last])
    /\ UNCHANGED <<written, mixed, buffer, delivered, link, protocolVars>>

---------------------------------------------------------------------------
(* The protocol: requests and their answers.                               *)

\* waitForResponse: a waiter of the same request is replaced.  After the link
\* was closed, the waiter waits for its timeout.
Ask(w) ==
    LET r == WaitsFor[w] IN
    /\ waiter[w] = "none"
    /\ waiter' = [x \in Waiter |-> IF x = w THEN "waiting"
                                   ELSE IF x = pending[r] /\ waiter[x] = "waiting" THEN "settling"
                                   ELSE waiter[x]]
    /\ settled' = [x \in Waiter |-> IF x = pending[r] /\ waiter[x] = "waiting" THEN "replaced"
                                    ELSE settled[x]]
    /\ pending' = [pending EXCEPT ![r] = w]
    /\ UNCHANGED <<written, mixed, pipe, text, buffer, delivered, link>>

Timeout(w) ==
    /\ waiter[w] = "waiting"
    /\ waiter' = [waiter EXCEPT ![w] = "late"]
    /\ settled' = [settled EXCEPT ![w] = "timeout"]
    /\ UNCHANGED <<written, mixed, pipe, text, buffer, delivered, link, pending>>

\* The entry in pendingRequests is still that of w.
StillOwn(w) == pending[WaitsFor[w]] = w

\* Effect.ensuring of a call that has settled, and its promise after it.
CleanUp(w) ==
    /\ waiter[w] \in {"late", "settling"}
    /\ waiter' = [waiter EXCEPT ![w] = "done"]
    /\ pending' = IF StillOwn(w) THEN [pending EXCEPT ![WaitsFor[w]] = NoOne] ELSE pending
    /\ UNCHANGED <<written, mixed, pipe, text, buffer, delivered, link, settled>>

\* rejectPendingRequests
RejectAll(why) ==
    LET rejected == {w \in Waiter : waiter[w] = "waiting" /\ pending[WaitsFor[w]] = w} IN
    /\ pending' = [r \in RequestId |-> NoOne]
    /\ waiter' = [w \in Waiter |-> IF w \in rejected THEN "settling" ELSE waiter[w]]
    /\ settled' = [w \in Waiter |-> IF w \in rejected THEN why ELSE settled[w]]

\* dispatch of messages, one after the other: those that answer a request that
\* waits resolve it, the others go to the handlers.
Dispatch(messages) ==
    LET answered == {AnswerTo[m] : m \in ToSet(messages)} \ {NoOne}
        resolved == {w \in Waiter : WaitsFor[w] \in answered /\ pending[WaitsFor[w]] = w} IN
    /\ delivered' = delivered \o messages
    /\ pending' = [r \in RequestId |-> IF r \in answered THEN NoOne ELSE pending[r]]
    /\ waiter' = [w \in Waiter |-> IF w \in resolved /\ waiter[w] = "waiting" THEN "settling" ELSE waiter[w]]
    /\ settled' = [w \in Waiter |-> IF w \in resolved /\ waiter[w] = "waiting" THEN "answer" ELSE settled[w]]

---------------------------------------------------------------------------
(* readLoop                                                                *)

Ends(bytes) == {i \in DOMAIN bytes : bytes[i].last}

\* What is left after the first line; nothing when there is no newline.
AfterFirst(bytes) ==
    IF Ends(bytes) = {} THEN <<>> ELSE SubSeq(bytes, 1 + Min(Ends(bytes)), Len(bytes))

\* Faulty: the rest of an oversized buffer is dropped with its first line.
Discarded(bytes) == IF Len(bytes) > MaxLine THEN <<>> ELSE bytes

\* A buffer that is too long loses its first line, or everything.
Recovered(bytes) == IF Len(bytes) > MaxLine THEN AfterFirst(bytes) ELSE bytes

\* The line that ends at e, and what comes after the last line.
LineUpTo(bytes, e) ==
    SubSeq(bytes, 1 + Max({0} \cup {i \in Ends(bytes) : i < e}), e)

\* Faulty: the last line stays in the buffer.
RestOrLast(bytes) ==
    SubSeq(bytes, 1 + Max({0} \cup (Ends(bytes) \ {Max({0} \cup Ends(bytes))})), Len(bytes))

Rest(bytes) == SubSeq(bytes, 1 + Max({0} \cup Ends(bytes)), Len(bytes))

\* JSON.parse succeeds on a whole message and on nothing else.
Parsed(line) == \E m \in Msg : line = Line(m)

\* A set of numbers in their order.
InOrder(S) ==
    [k \in 1..Cardinality(S) |-> CHOOSE e \in S : Cardinality({i \in S : i <= e}) = k]

\* The messages among the lines of a buffer.
Messages(bytes) ==
    LET ends == InOrder({e \in Ends(bytes) : Parsed(LineUpTo(bytes, e))}) IN
    [k \in DOMAIN ends |-> bytes[ends[k]].of]

ReadChunk(n) ==
    /\ link # "closed" /\ n <= Len(pipe)
    /\ LET bytes == Recovered(buffer \o SubSeq(pipe, 1, n))
       IN  buffer' = Rest(bytes) /\ Dispatch(Messages(bytes))
    /\ pipe' = SubSeq(pipe, n + 1, Len(pipe))
    /\ UNCHANGED <<written, mixed, text, link>>

\* The other process ends; what it wrote can still be read.
PeerEnds ==
    /\ link = "open"
    /\ link' = "ended"
    /\ UNCHANGED <<written, mixed, pipe, text, buffer, delivered, protocolVars>>

\* Faulty: the exit of the other process closes the link, whatever it wrote.
ClosesAtExit ==
    /\ link = "ended"
    /\ link' = "closed"
    /\ RejectAll("disconnected")
    /\ UNCHANGED <<written, mixed, pipe, text, buffer, delivered>>

\* The end of the stream, when all that was written has been read: the requests
\* are rejected.  (A reader that fails on a pipe with unread bytes is left out.)
EndOfStream ==
    /\ link = "ended" /\ pipe = <<>>
    /\ link' = "closed"
    /\ RejectAll("disconnected")
    /\ UNCHANGED <<written, mixed, pipe, text, buffer, delivered>>

\* stop(): what is not read by now is not read any more.
StopProtocol ==
    /\ link # "closed"
    /\ link' = "closed"
    /\ RejectAll("stopped")
    /\ UNCHANGED <<written, mixed, pipe, text, buffer, delivered>>

ChannelNext ==
    \/ \E m \in Msg : WriteMessage(m)
    \/ \E last \in BOOLEAN : OtherText(last)
    \/ \E w \in Waiter : Ask(w) \/ Timeout(w) \/ CleanUp(w)
    \/ \E n \in 1..MaxChunk : ReadChunk(n)
    \/ PeerEnds \/ EndOfStream \/ StopProtocol

ChannelSpec == ChannelInit /\ [][ChannelNext]_channelVars

---------------------------------------------------------------------------

Consumed(m) == m \in ToSet(written) /\ \A b \in ToSet(pipe \o buffer) : b.of # m

\* A line that is so near to the limit that the chunk it ends in may pass it.
NearLimit(m) == Size[m] + MaxChunk > MaxLine + 1

\* m was written before n.
Before(m, n) == \E i, k \in DOMAIN written : i < k /\ written[i] = m /\ written[k] = n

(* What is written is dispatched once and in order, however it is cut into *)
(* chunks, except for a message behind text without a newline, and for one *)
(* so near to the limit that what is read behind it counts as well.        *)
DeliveredOnce ==
    /\ \A i, k \in DOMAIN delivered : i < k => Before(delivered[i], delivered[k])
    /\ \A m \in Msg : Consumed(m) /\ m \notin mixed /\ ~NearLimit(m) => m \in ToSet(delivered)

(* A call that waits can be answered: its entry is removed neither by the  *)
(* call that it replaced nor by one whose answer came before; and once the *)
(* link is closed nobody waits but for a call that was made later.         *)
WaitersKept ==
    \A w \in Waiter :
        /\ waiter[w] = "waiting" => pending[WaitsFor[w]] = w
        /\ settled[w] = "answer" => \E m \in ToSet(delivered) : AnswerTo[m] = WaitsFor[w]

(* The link keeps both, in states that have their types.                   *)
ChannelInv == ChannelTypeOK /\ DeliveredOnce /\ WaitersKept

(* The pipe of a process that has ended is read to its end before the      *)
(* requests are rejected: no answer is dropped for the exit that follows.  *)
EndLosesNothing ==
    [][EndOfStream => \A m \in ToSet(written) :
                          m \in ToSet(delivered) \/ m \in mixed \/ NearLimit(m)]_channelVars

\* What the abstract link sees of the bytes.
OnWay   == {m \in ToSet(written) : ~Consumed(m)}
Excused == mixed \cup {m \in Msg : NearLimit(m)}

Link == INSTANCE MessageLink
            WITH sent <- written, way <- OnWay, received <- delivered, excused <- Excused,
                 state <- link

(* The transport keeps the promises of MessageLink.                        *)
KeepsLink == Link!Spec
=============================================================================
