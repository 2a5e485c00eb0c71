--------------------------- MODULE StreamPipeline ---------------------------
(***************************************************************************)
(* One streamed answer on its way through the proxy: the goroutines and    *)
(* channels that connect the upstream's response body to the client's      *)
(* connection.                                                             *)
(*                                                                         *)
(*   wire -> reader -> chunks -> converter -> events -> loop -> handler    *)
(*                                                                         *)
(* reader     client.readStream of the chat and google protocols; the      *)
(*            anthropic converter reads the body itself                    *)
(* converter  the goroutine of the provider adapter's ToCoreStream         *)
(* loop       OpenAIAdapter.streamLoop, whose channel is unbuffered        *)
(* handler    the SSE loop at the end of Server.handleAdapterStream        *)
(*                                                                         *)
(* A message of the upstream, and the event it becomes, is its number; one *)
(* that becomes several events is several messages, and one that becomes   *)
(* none is left out.  "chat" stands for google too: the two differ only in *)
(* what an event is computed from.                                         *)
(***************************************************************************)
EXTENDS Integers, Sequences

CONSTANTS
    Protocols,  \* the upstream protocols considered
    ChanCap,    \* the capacity of chunks and events, 64 in the code
    MaxMessages \* bound: the number of messages with content

ASSUME ChanCapAssumption == ChanCap \in Nat \ {0}
ASSUME MaxMessagesAssumption == MaxMessages \in Nat
ASSUME ProtocolsAssumption == Protocols \subseteq {"anthropic", "chat"}

VARIABLES
    protocol,   \* the candidate's protocol
    client,     \* "connected" or "gone"
    cancelled,  \* the request's context is done
    upstream,   \* "content", "final" (the last message is sent), "eof" or "broken"
    sent,       \* how many messages with content the upstream has sent
    wire,       \* the messages that have arrived and not been read
    hand,       \* per goroutine: the event it holds and has to pass on, if any
    chunks,     \* the channel from reader to converter
    events,     \* the channel from converter to loop
    status,     \* per goroutine: "open", "returning" after it passed on what it holds, or "closed"
    polled,     \* the anthropic converter has found the context alive
    finalUsage, \* the converter has read the last message
    response,   \* the answer that loop has put together
    final,      \* the answer that came with response.completed, if any
    serving,    \* the handler: "range", "finishing" or "returned"
    written,    \* the events that the handler has written
    produced    \* history: the events that what was read so far stands for

vars == <<protocol, client, cancelled, upstream, sent, wire, hand, chunks, events, status,
          polled, finalUsage, response, final, serving, written, produced>>

-----------------------------------------------------------------------------
Contents == 1 .. MaxMessages
Final == MaxMessages + 1      \* message_stop; the chunk with the usage
Error == MaxMessages + 2      \* anthropic's error event
Completed == Final            \* core.completed, response.completed
Failed == Error               \* core.failed, response.failed

Messages == Contents \cup {Final, Error}
Goroutines == {"reader", "converter", "loop", "handler"}
Hands == {<<>>} \cup { <<m>> : m \in Messages }

\* An event's contribution to the answer.
ContentOf(e) == IF e \in Contents THEN <<e>> ELSE <<>>

\* The answer that a sequence of events amounts to.
OnlyContents(s) ==
    LET upTo[n \in 0 .. Len(s)] ==
            IF n = 0 THEN <<>>
            ELSE IF s[n] \in Contents THEN Append(upTo[n - 1], s[n]) ELSE upTo[n - 1]
    IN  upTo[Len(s)]

\* chat: the converter keeps the usage of the last chunk until the channel is closed.
Kept == IF protocol = "chat" /\ finalUsage /\ status["converter"] = "open" THEN <<Final>> ELSE <<>>

\* What is between the upstream and the client, in the order of its age.
Passed == written \o hand["handler"] \o hand["loop"] \o events \o hand["converter"]
Coming == Kept \o chunks \o hand["reader"]
InFlight == Passed \o Coming

Init ==
    /\ protocol \in Protocols
    /\ client = "connected"
    /\ cancelled = FALSE
    /\ upstream = "content"
    /\ sent = 0
    /\ wire = <<>>
    /\ hand = [g \in Goroutines |-> <<>>]
    /\ chunks = <<>>
    /\ events = <<>>
    /\ status = [g \in Goroutines |-> "open"]
    /\ polled = FALSE
    /\ finalUsage = FALSE
    /\ response = <<>>
    /\ final = <<>>
    /\ serving = "range"
    /\ written = <<>>
    /\ produced = <<>>

-----------------------------------------------------------------------------
(* The upstream, which stops being heard once the context is done.         *)

upstreamFrame == UNCHANGED <<protocol, client, cancelled, hand, chunks, events, status, polled,
                             finalUsage, response, final, serving, written, produced>>

UpstreamSends ==
    /\ ~cancelled
    /\ upstream = "content"
    /\ sent < MaxMessages
    /\ sent' = sent + 1
    /\ wire' = Append(wire, sent + 1)
    /\ UNCHANGED upstream
    /\ upstreamFrame

UpstreamFinishes ==
    /\ ~cancelled
    /\ upstream = "content"
    /\ \E m \in IF protocol = "anthropic" THEN {Final, Error} ELSE {Final} :
          wire' = Append(wire, m)
    /\ upstream' = "final"
    /\ UNCHANGED sent
    /\ upstreamFrame

\* The body ends, after the last message or, cut short, before it.
UpstreamCloses ==
    /\ ~cancelled
    /\ upstream \in {"content", "final"}
    /\ upstream' = "eof"
    /\ UNCHANGED <<sent, wire>>
    /\ upstreamFrame

\* The connection breaks and takes with it some of what has arrived.
UpstreamBreaks ==
    /\ ~cancelled
    /\ upstream \in {"content", "final"}
    /\ upstream' = "broken"
    /\ \E n \in 0 .. Len(wire) : wire' = SubSeq(wire, 1, n)
    /\ UNCHANGED sent
    /\ upstreamFrame

-----------------------------------------------------------------------------
(* The client, and net/http on its behalf.                                 *)

clientFrame == UNCHANGED <<protocol, upstream, sent, wire, hand, chunks, events, status, polled,
                           finalUsage, response, final, serving, written, produced>>

ClientLeaves ==
    /\ client = "connected"
    /\ serving # "returned"
    /\ client' = "gone"
    /\ UNCHANGED cancelled
    /\ clientFrame

\* net/http notices and cancels the request's context.
NoticeGone ==
    /\ client = "gone"
    /\ ~cancelled
    /\ cancelled' = TRUE
    /\ UNCHANGED client
    /\ clientFrame

-----------------------------------------------------------------------------
(* reader: the chat and google clients' readStream.                        *)

readerFrame == UNCHANGED <<protocol, client, cancelled, upstream, sent, events, polled,
                           finalUsage, response, final, serving, written>>

ReaderScans ==
    /\ protocol = "chat"
    /\ status["reader"] = "open"
    /\ hand["reader"] = <<>>
    /\ wire # <<>>
    /\ wire' = Tail(wire)
    /\ hand' = [hand EXCEPT !["reader"] = <<Head(wire)>>]
    /\ produced' = Append(produced, Head(wire))
    /\ UNCHANGED <<chunks, status>>
    /\ readerFrame

\* [DONE], the end of the body, or an error that is only logged.
ReaderEnds ==
    /\ protocol = "chat"
    /\ status["reader"] = "open"
    /\ hand["reader"] = <<>>
    /\ cancelled \/ (wire = <<>> /\ upstream \in {"eof", "broken"})
    /\ status' = [status EXCEPT !["reader"] = "closed"]
    /\ UNCHANGED <<wire, hand, chunks, produced>>
    /\ readerFrame

ReaderOffers ==
    /\ hand["reader"] # <<>>
    /\ Len(chunks) < ChanCap
    /\ chunks' = chunks \o hand["reader"]
    /\ hand' = [hand EXCEPT !["reader"] = <<>>]
    /\ UNCHANGED <<wire, status, produced>>
    /\ readerFrame

ReaderGivesUp ==
    /\ hand["reader"] # <<>>
    /\ cancelled
    /\ hand' = [hand EXCEPT !["reader"] = <<>>]
    /\ status' = [status EXCEPT !["reader"] = "closed"]
    /\ UNCHANGED <<wire, chunks, produced>>
    /\ readerFrame

Reader == ReaderScans \/ ReaderEnds \/ ReaderOffers \/ ReaderGivesUp

-----------------------------------------------------------------------------
(* converter: the goroutine of ToCoreStream.                               *)

converterFrame == UNCHANGED <<protocol, client, cancelled, upstream, sent, response, final,
                              serving, written>>

ConverterIdle == status["converter"] = "open" /\ hand["converter"] = <<>>

CloseConverter ==
    /\ status' = [status EXCEPT !["converter"] = "closed"]
    /\ UNCHANGED <<wire, hand, chunks, events, polled, finalUsage, produced>>

\* An event to emit, after which the goroutine goes on or returns.
Emits(e, then) ==
    /\ hand' = [hand EXCEPT !["converter"] = <<e>>]
    /\ status' = [status EXCEPT !["converter"] = then]

\* Both protocols look at the context between two messages.
ConverterCancelled ==
    /\ ConverterIdle
    /\ ~polled
    /\ cancelled
    /\ CloseConverter
    /\ converterFrame

\* anthropic: select with a default case, then the blocking stream.Next.
AnthropicPolls ==
    /\ protocol = "anthropic"
    /\ ConverterIdle
    /\ ~polled
    /\ ~cancelled
    /\ polled' = TRUE
    /\ UNCHANGED <<wire, hand, chunks, events, status, finalUsage, produced>>
    /\ converterFrame

AnthropicNext ==
    /\ polled
    /\ wire # <<>>
    /\ wire' = Tail(wire)
    /\ polled' = FALSE
    /\ finalUsage' = (finalUsage \/ Head(wire) = Final)
    /\ Emits(Head(wire), "open")
    /\ produced' = Append(produced, Head(wire))
    /\ UNCHANGED <<chunks, events>>
    /\ converterFrame

\* A read error becomes core.failed.
AnthropicNextFails ==
    /\ polled
    /\ wire = <<>>
    /\ upstream = "broken"
    /\ polled' = FALSE
    /\ Emits(Failed, "returning")
    /\ produced' = Append(produced, Failed)
    /\ UNCHANGED <<wire, chunks, events, finalUsage>>
    /\ converterFrame

\* The end of the body and the error of a cancelled context end it silently.
AnthropicNextEnds ==
    /\ polled
    /\ cancelled \/ (wire = <<>> /\ upstream = "eof")
    /\ polled' = FALSE
    /\ status' = [status EXCEPT !["converter"] = "closed"]
    /\ UNCHANGED <<wire, hand, chunks, events, finalUsage, produced>>
    /\ converterFrame

\* chat: a chunk of content is emitted, the one with the usage is kept.
ChatTakes ==
    /\ protocol = "chat"
    /\ ConverterIdle
    /\ chunks # <<>>
    /\ chunks' = Tail(chunks)
    /\ hand' = [hand EXCEPT !["converter"] = ContentOf(Head(chunks))]
    /\ finalUsage' = (finalUsage \/ Head(chunks) = Final)
    /\ UNCHANGED <<wire, events, status, polled, produced>>
    /\ converterFrame

\* Mutated forms of ChatCompletes: what is left in the channel is not awaited;
\* the goroutine does not return afterwards.
ChatCompletesEarly ==
    /\ protocol = "chat"
    /\ ConverterIdle
    /\ status["reader"] = "closed"
    /\ Emits(Completed, "returning")
    /\ produced' = IF finalUsage THEN produced ELSE Append(produced, Completed)
    /\ UNCHANGED <<wire, chunks, events, polled, finalUsage>>
    /\ converterFrame

\* chat: the closed channel, whatever closed it, is the end of the answer.
ChatCompletes ==
    /\ protocol = "chat"
    /\ ConverterIdle
    /\ chunks = <<>>
    /\ status["reader"] = "closed"
    /\ Emits(Completed, "returning")
    /\ produced' = IF finalUsage THEN produced ELSE Append(produced, Completed)
    /\ UNCHANGED <<wire, chunks, events, polled, finalUsage>>
    /\ converterFrame

\* What becomes of the goroutine once the event it holds is passed on.
ConverterPassedOn ==
    /\ hand' = [hand EXCEPT !["converter"] = <<>>]
    /\ status' = [status EXCEPT !["converter"] = IF @ = "returning" THEN "closed" ELSE @]
    /\ UNCHANGED <<wire, chunks, polled, finalUsage, produced>>

\* Mutated forms of Emit: an event that finds no room is dropped; the channel
\* has no bound.
EmitOrDrop ==
    /\ hand["converter"] # <<>>
    /\ events' = IF Len(events) < ChanCap THEN events \o hand["converter"] ELSE events
    /\ ConverterPassedOn
    /\ converterFrame

Emit ==
    /\ hand["converter"] # <<>>
    /\ Len(events) < ChanCap
    /\ events' = events \o hand["converter"]
    /\ ConverterPassedOn
    /\ converterFrame

\* Mutated form of ChatEmitCancelled: emit selects on the context only while
\* the handler still serves, as if its own return did not cancel it.
ChatEmitCancelledServing ==
    /\ protocol = "chat"
    /\ hand["converter"] # <<>>
    /\ cancelled
    /\ serving = "range"
    /\ ConverterPassedOn
    /\ UNCHANGED events
    /\ converterFrame

\* chat: emit selects on the context too; its event is lost, the goroutine goes on.
ChatEmitCancelled ==
    /\ protocol = "chat"
    /\ hand["converter"] # <<>>
    /\ cancelled
    /\ ConverterPassedOn
    /\ UNCHANGED events
    /\ converterFrame

Converter ==
    \/ ConverterCancelled
    \/ AnthropicPolls \/ AnthropicNext \/ AnthropicNextFails \/ AnthropicNextEnds
    \/ ChatTakes \/ ChatCompletes
    \/ Emit \/ ChatEmitCancelled

-----------------------------------------------------------------------------
(* loop: OpenAIAdapter.streamLoop.                                         *)

loopFrame == UNCHANGED <<protocol, client, cancelled, upstream, sent, wire, chunks, polled,
                         finalUsage, final, serving, written, produced>>

LoopReceives ==
    /\ hand["loop"] = <<>>
    /\ events # <<>>
    /\ events' = Tail(events)
    /\ hand' = [hand EXCEPT !["loop"] = <<Head(events)>>]
    /\ response' = response \o ContentOf(Head(events))
    /\ UNCHANGED status
    /\ loopFrame

\* Mutated form of LoopCloses: the deferred close of the channel is missing.
LoopEndsSilently ==
    /\ status["loop"] = "open"
    /\ hand["loop"] = <<>>
    /\ events = <<>>
    /\ status["converter"] = "closed"
    /\ UNCHANGED <<status, hand, events, response>>
    /\ loopFrame

LoopCloses ==
    /\ status["loop"] = "open"
    /\ hand["loop"] = <<>>
    /\ events = <<>>
    /\ status["converter"] = "closed"
    /\ status' = [status EXCEPT !["loop"] = "closed"]
    /\ UNCHANGED <<hand, events, response>>
    /\ loopFrame

Loop == LoopReceives \/ LoopCloses

-----------------------------------------------------------------------------
(* handler: the SSE loop of handleAdapterStream and what follows it.       *)

handlerFrame == UNCHANGED <<protocol, client, upstream, sent, wire, chunks, events, polled,
                            finalUsage, response, produced>>

\* The unbuffered channel: loop's send and the handler's receive are one step.
HandlerReceives ==
    /\ serving = "range"
    /\ hand["handler"] = <<>>
    /\ hand["loop"] # <<>>
    /\ hand' = [hand EXCEPT !["handler"] = hand["loop"], !["loop"] = <<>>]
    /\ final' = IF hand["loop"] = <<Completed>> THEN <<response>> ELSE final
    /\ UNCHANGED <<cancelled, status, serving, written>>
    /\ handlerFrame

\* A write to a client that is gone may still be accepted by the kernel.
HandlerWrites ==
    /\ serving = "range"
    /\ hand["handler"] # <<>>
    /\ written' = written \o hand["handler"]
    /\ hand' = [hand EXCEPT !["handler"] = <<>>]
    /\ UNCHANGED <<cancelled, status, final, serving>>
    /\ handlerFrame

HandlerWriteFails ==
    /\ serving = "range"
    /\ hand["handler"] # <<>>
    /\ client = "gone"
    /\ hand' = [hand EXCEPT !["handler"] = <<>>]
    /\ serving' = "finishing"
    /\ UNCHANGED <<cancelled, status, final, written>>
    /\ handlerFrame

HandlerRangeEnds ==
    /\ serving = "range"
    /\ hand["handler"] = <<>>
    /\ status["loop"] = "closed"
    /\ serving' = "finishing"
    /\ UNCHANGED <<cancelled, status, hand, final, written>>
    /\ handlerFrame

\* net/http cancels the context of a request whose handler has returned.
HandlerReturns ==
    /\ serving = "finishing"
    /\ serving' = "returned"
    /\ cancelled' = TRUE
    /\ UNCHANGED <<status, hand, final, written>>
    /\ handlerFrame

Handler == HandlerReceives \/ HandlerWrites \/ HandlerWriteFails \/ HandlerRangeEnds \/ HandlerReturns

-----------------------------------------------------------------------------
Environment ==
    \/ UpstreamSends \/ UpstreamFinishes \/ UpstreamCloses \/ UpstreamBreaks
    \/ ClientLeaves

Next == Environment \/ NoticeGone \/ Reader \/ Converter \/ Loop \/ Handler

\* The Go scheduler runs every goroutine that can run; net/http watches the
\* connection; a client that stays reads what it is sent, so that a write ends.
\* Nothing obliges the upstream to go on or the client to leave.
Fairness ==
    /\ WF_vars(Reader) /\ WF_vars(Converter) /\ WF_vars(Loop) /\ WF_vars(Handler)
    /\ WF_vars(NoticeGone)

Spec == Init /\ [][Next]_vars /\ Fairness

-----------------------------------------------------------------------------
(* Properties.                                                             *)

\* Every variable has its type: in particular no channel is ever over its
\* capacity and a goroutine holds one event at most.
TypeOK ==
    /\ protocol \in Protocols
    /\ client \in {"connected", "gone"}
    /\ cancelled \in BOOLEAN
    /\ upstream \in {"content", "final", "eof", "broken"}
    /\ sent \in 0 .. MaxMessages
    /\ wire \in Seq(Messages)
    /\ hand \in [Goroutines -> Hands]
    /\ chunks \in Seq(Messages) /\ Len(chunks) <= ChanCap
    /\ events \in Seq(Messages) /\ Len(events) <= ChanCap
    /\ status \in [Goroutines -> {"open", "returning", "closed"}]
    /\ polled \in BOOLEAN
    /\ finalUsage \in BOOLEAN
    /\ response \in Seq(Contents)
    /\ final = <<>> \/ (Len(final) = 1 /\ final[1] \in Seq(Contents))
    /\ serving \in {"range", "finishing", "returned"}
    /\ written \in Seq(Messages)
    /\ produced \in Seq(Messages)

\* While the handler serves and the context is alive, the events that have
\* been read from the upstream are all either written or somewhere on their
\* way, none lost, repeated or overtaken and the end behind all others: the
\* goroutines hand them on over buffered and unbuffered channels and close
\* those behind themselves.
NothingLost ==
    /\ TypeOK
    /\ serving = "range" /\ ~cancelled => InFlight = produced

\* What is remembered of a streamed answer, and reported as its final response,
\* is all of the answer that was read, as long as the client did not leave: the
\* handler takes it from response.completed and never looks at the channels.
FinalIsWhole ==
    client = "connected" /\ final # <<>> => final = <<OnlyContents(produced)>>

\* The handler returns once the upstream ends or the client leaves, whatever
\* events are still on their way.
HandlerReturnsInTheEnd ==
    upstream \in {"eof", "broken"} \/ client = "gone" ~> serving = "returned"

\* The one way for a cancelled answer to keep its upstream connection: the
\* handler has gone, so that loop waits for ever to send, events is full, and
\* the anthropic converter's emit waits for room and not for the context.
ConverterStuck ==
    /\ protocol = "anthropic"
    /\ serving = "returned"
    /\ hand["loop"] # <<>>
    /\ hand["converter"] # <<>>
    /\ Len(events) = ChanCap

UpstreamReleased ==
    /\ status["converter"] = "closed"
    /\ protocol = "chat" => status["reader"] = "closed"

\* Once the context is done, the goroutines that hold the upstream connection
\* end, unless they are stuck in the one known way.
ReleasedOrStuck == cancelled ~> UpstreamReleased \/ ConverterStuck

=============================================================================
