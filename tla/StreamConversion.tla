--------------------------- MODULE StreamConversion ---------------------------
(***************************************************************************)
(* The conversion of a streamed answer: what the provider says, in its     *)
(* protocol, becomes core events (ToCoreStream of the provider adapters,   *)
(* or the replay of an answer that was fetched whole), and these become    *)
(* what the client reads (ResponseStream).                                 *)
(*                                                                         *)
(* A provider's goroutine and streamLoop share nothing but the channel     *)
(* between them, so the order of their steps does not matter: a message    *)
(* is taken when the events of the one before it have been converted.      *)
(* What the channels do is the subject of StreamPipeline.                  *)
(*                                                                         *)
(* One choice or candidate per answer, since requests never ask for more.  *)
(* Pings, usage and stop reasons are left out.                             *)
(***************************************************************************)
EXTENDS ResponseStream

CONSTANTS
    Sources,      \* who produces the answer: a protocol, or one of the two replays
    Kinds,        \* the kinds of block that an anthropic answer or a whole answer has
    Chunks,       \* the chunks that a chat provider sends
    MaxBlocks,    \* bound: the blocks of an anthropic answer or a whole answer
    MaxMessages   \* bound: for each source, the messages of a stream

ASSUME SourcesAssumption ==
    Sources \subseteq {"anthropic", "chat", "google", "replay", "visualReplay"}
ASSUME KindsAssumption ==
    Kinds \subseteq {"text", "thinking", "tool_use", "server_tool_use", "web_search_tool_result"}
ASSUME ChunksAssumption ==
    Chunks \subseteq [ role : BOOLEAN, reasoning : BOOLEAN, content : BOOLEAN, finish : BOOLEAN,
                       calls : Seq([call : Nat, named : BOOLEAN, args : BOOLEAN]) ]
ASSUME BoundsAssumption == MaxBlocks \in Nat /\ MaxMessages \in [Sources -> Nat]

VARIABLES
    source,     \* who produces this answer
    upstream,   \* "open", "finished" (chat, google: a finish reason was sent), "closed" or "failed"
    messages,   \* how many messages were taken
    block,      \* anthropic: the kind of the block that is open, or "none"
    blockIndex, \* anthropic: its index, or that of the next
    signatures, \* anthropic: blockSignatures, index -> signature
    suppressed, \* anthropic: suppressText, the indexes of status messages
    choice,     \* chat: the state of the choice
    candidate,  \* google: the state of the candidate
    answer,     \* history: what the provider said, block by block
    regular,    \* history: the provider kept to the orders that the converters expect
    stray       \* history: arguments of a server's tool, which has no item, were sent on

converterVars == <<block, blockIndex, signatures, suppressed, choice, candidate>>
vars == <<streamVars, source, upstream, messages, converterVars, answer, regular, stray>>

-----------------------------------------------------------------------------
(* What the provider says: a sequence of blocks, each with its text so far *)
(* and its signature.  The pieces of a text are numbered by the message    *)
(* that brought them.                                                      *)

Said(type, n) == [type |-> type, n |-> n, text |-> <<>>, signature |-> <<>>]

\* Where the block of a type with a number is, or 0.
BlockOf(a, type, n) ==
    LET places == { i \in DOMAIN a : a[i].type = type /\ a[i].n = n }
    IN  IF places = {} THEN 0 ELSE CHOOSE i \in places : TRUE

Say(a, type, n, d) ==
    LET i == BlockOf(a, type, n)
    IN  IF i = 0 THEN Append(a, [Said(type, n) EXCEPT !.text = d])
        ELSE [a EXCEPT ![i].text = @ \o d]

Piece(field) == << 10 * messages + field >>

-----------------------------------------------------------------------------
(* anthropic: streamConverterState.convertEvent.  The kinds of block that  *)
(* become blocks of the answer, and their types there.                     *)

ItemType(kind) ==
    CASE kind = "text" -> "message"
      [] kind \in {"thinking", "reasoning"} -> "reasoning"
      [] kind = "tool_use" -> "function_call"

CoreKind(kind) == IF kind = "thinking" THEN "reasoning" ELSE kind
Forwarded == {"text", "thinking", "tool_use"}

Emits(events) == coreEvents' = events

Converts ==
    /\ upstream \in {"open", "finished"}
    /\ coreEvents = <<>>
    /\ messages < MaxMessages[source]
    /\ messages' = messages + 1
    /\ UNCHANGED <<contentText, toolCallArgs, outputIndexes, reasonIndexes, toolCallFinalized,
                   output, sent, final, source>>

MessageStart ==
    /\ source = "anthropic"
    /\ messages = 0
    /\ Converts
    /\ Emits(<<Lifecycle("created")>>)
    /\ UNCHANGED <<upstream, converterVars, answer, regular, stray>>

ContentBlockStart ==
    /\ source = "anthropic"
    /\ messages > 0
    /\ block = "none"
    /\ blockIndex < MaxBlocks
    /\ Converts
    /\ \E kind \in Kinds :
          /\ block' = kind
          /\ Emits(IF kind \in Forwarded THEN <<Started(blockIndex, CoreKind(kind))>> ELSE <<>>)
          /\ answer' = IF kind \in Forwarded
                       THEN Append(answer, Said(ItemType(kind), blockIndex)) ELSE answer
    /\ UNCHANGED <<upstream, blockIndex, signatures, suppressed, choice, candidate, regular,
                   stray>>

\* A delta of the open block.
Delta(kinds) ==
    /\ source = "anthropic"
    /\ block \in kinds
    /\ Converts
    /\ UNCHANGED <<upstream, block, blockIndex, choice, candidate>>

\* Text that follows a status message in its block is sent on, and its block is
\* not closed.
TextDeltaOfBlock ==
    /\ Delta({"text"})
    /\ Emits(<<TextDelta(blockIndex, Piece(0))>>)
    /\ answer' = Say(answer, "message", blockIndex, Piece(0))
    /\ regular' = (regular /\ blockIndex \notin suppressed)
    /\ UNCHANGED <<signatures, suppressed, stray>>

\* "Search results for query: ...", a status message of the provider.
StatusDelta ==
    /\ Delta({"text"})
    /\ suppressed' = suppressed \cup {blockIndex}
    /\ Emits(<<>>)
    /\ regular' = (regular /\ answer[BlockOf(answer, "message", blockIndex)].text = <<>>)
    /\ UNCHANGED <<signatures, answer, stray>>

ThinkingDelta ==
    /\ Delta({"thinking"})
    /\ Emits(<<TextDelta(blockIndex, Piece(0))>>)
    /\ answer' = Say(answer, "reasoning", blockIndex, Piece(0))
    /\ UNCHANGED <<signatures, suppressed, regular, stray>>

\* The kind of the block is looked at before the type of the delta, so that a
\* signature is a delta of the thinking block, an empty one, and not kept.
SignatureDelta ==
    /\ Delta({"thinking"})
    /\ Emits(<<TextDelta(blockIndex, <<>>)>>)
    /\ answer' = [answer EXCEPT ![BlockOf(answer, "reasoning", blockIndex)].signature = Piece(0)]
    /\ UNCHANGED <<signatures, suppressed, regular, stray>>

\* input_json_delta, of a server tool's block too: that one was not announced, so
\* that streamLoop sends its arguments with the position of the first item.
InputJSONDelta ==
    /\ Delta({"tool_use", "server_tool_use"})
    /\ Emits(<<ArgsDelta(blockIndex, Piece(0))>>)
    /\ answer' = IF block = "tool_use" THEN Say(answer, "function_call", blockIndex, Piece(0))
                 ELSE answer
    /\ stray' = (stray \/ block = "server_tool_use")
    /\ UNCHANGED <<signatures, suppressed, regular>>

ContentBlockStop ==
    /\ source = "anthropic"
    /\ block # "none"
    /\ Converts
    /\ IF blockIndex \in suppressed
       THEN /\ suppressed' = suppressed \ {blockIndex}
            /\ Emits(<<>>)
       ELSE /\ Emits(<<BlockDone(blockIndex, TextAt(signatures, blockIndex))>>)
            /\ UNCHANGED suppressed
    /\ block' = "none"
    /\ blockIndex' = blockIndex + 1
    /\ UNCHANGED <<upstream, signatures, choice, candidate, answer, regular, stray>>

MessageStop ==
    /\ source = "anthropic"
    /\ messages > 0
    /\ block = "none"
    /\ Converts
    /\ Emits(<<Lifecycle("completed")>>)
    /\ upstream' = "closed"
    /\ UNCHANGED <<converterVars, answer, regular, stray>>

\* message_delta carries the usage and is converted for it.
MessageDelta ==
    /\ source = "anthropic"
    /\ messages > 0
    /\ block = "none"
    /\ Converts
    /\ Emits(<<Lifecycle("in_progress")>>)
    /\ UNCHANGED <<upstream, converterVars, answer, regular, stray>>

\* An error event, or a read that fails.
StreamFails ==
    /\ source = "anthropic"
    /\ Converts
    /\ Emits(<<Lifecycle("failed")>>)
    /\ upstream' = "failed"
    /\ UNCHANGED <<converterVars, answer, regular, stray>>

Anthropic ==
    \/ MessageStart \/ ContentBlockStart \/ ContentBlockStop
    \/ TextDeltaOfBlock \/ StatusDelta \/ ThinkingDelta \/ SignatureDelta \/ InputJSONDelta
    \/ MessageDelta \/ MessageStop \/ StreamFails

-----------------------------------------------------------------------------
(* chat: the choice's state, and the steps that convert one chunk in their *)
(* order.  Each takes and returns the state with the events so far.        *)

NewChoice == [ started |-> FALSE, blockIndex |-> 0, hasReasoning |-> FALSE, reasonIndex |-> 0,
               toolCallIdx |-> 0, callStarted |-> {}, toolCallSlot |-> <<>>, events |-> <<>> ]

ReasoningPiece == Piece(1)
ContentPiece == Piece(2)
CallPiece(call) == Piece(3 + call)

Emitting(s, events) == [s EXCEPT !.events = @ \o events]

ChatRole(c, s) ==
    IF ~c.role \/ s.started THEN s
    ELSE Emitting([s EXCEPT !.started = TRUE,
                            !.hasReasoning = @ \/ c.reasoning,
                            !.reasonIndex = IF c.reasoning THEN s.blockIndex ELSE @],
                  <<Started(s.blockIndex, IF c.reasoning THEN "reasoning" ELSE "text")>>)

\* Reasoning after a text block has started: a new block; the index that is
\* closed is the new one.
OpenReasoning(s) ==
    LET i == s.blockIndex + 1
    IN  Emitting([s EXCEPT !.hasReasoning = TRUE, !.reasonIndex = i, !.blockIndex = i],
                 <<BlockDone(i, <<>>), Started(i, "reasoning")>>)

ChatReasoning(c, s) ==
    IF ~c.reasoning THEN s
    ELSE LET opened == IF s.hasReasoning THEN s ELSE OpenReasoning(s)
         IN  Emitting(opened, <<TextDelta(opened.reasonIndex, ReasoningPiece)>>)

\* Content after reasoning: the reasoning block is closed, a text block opened.
CloseReasoning(s) ==
    LET i == s.reasonIndex + 1
    IN  Emitting([s EXCEPT !.hasReasoning = FALSE, !.blockIndex = i],
                 <<BlockDone(s.reasonIndex, <<>>), Started(i, "text")>>)

ChatContent(c, s) ==
    IF ~c.content THEN s
    ELSE LET opened == IF s.hasReasoning THEN CloseReasoning(s) ELSE s
         IN  Emitting(opened, <<TextDelta(opened.blockIndex, ContentPiece)>>)

\* Mutated form of NextSlot: calls are numbered from the current block on.
NextSlotOnBlock(s) == IF s.toolCallSlot = <<>> THEN s.blockIndex ELSE s.toolCallIdx

\* Calls are numbered from the block on that is current when the first arrives.
NextSlot(s) == IF s.toolCallSlot = <<>> THEN s.blockIndex + 1 ELSE s.toolCallIdx

\* One fragment of a tool call.  A call's block starts with the fragment that
\* names it; arguments that come before are dropped.
ChatCall(s, f) ==
    LET known == f.call \in DOMAIN s.toolCallSlot
        slot == IF known THEN s.toolCallSlot[f.call] ELSE NextSlot(s)
        placed == IF known THEN s
                  ELSE [s EXCEPT !.toolCallSlot = Put(@, f.call, slot), !.toolCallIdx = slot + 1]
        starts == slot \notin s.callStarted /\ f.named
        started == IF starts
                   THEN Emitting([placed EXCEPT !.callStarted = @ \cup {slot}],
                                 <<Started(slot, "tool_use")>>)
                   ELSE placed
    IN  IF f.args /\ slot \in started.callStarted
        THEN Emitting(started, <<ArgsDelta(slot, CallPiece(f.call))>>)
        ELSE started

ChatCalls(c, s) ==
    LET after[n \in 0 .. Len(c.calls)] == IF n = 0 THEN s ELSE ChatCall(after[n - 1], c.calls[n])
    IN  after[Len(c.calls)]

\* Mutated form of CallsBehind: calls that were never announced are among them.
CallsBehindAll(s) == { i \in Range(s.toolCallSlot) : i > s.blockIndex }

CallsBehind(s) == { i \in s.callStarted : i > s.blockIndex }

CallClosed(s, i) ==
    IF i \in CallsBehind(s) THEN <<ArgsDone(i, <<>>), BlockDone(i, <<>>)>> ELSE <<>>

\* The announced tool calls behind the current block, in the order of their slots.
CallsClosed(s) ==
    LET last == IF s.toolCallIdx > s.blockIndex THEN s.toolCallIdx - s.blockIndex - 1 ELSE 0
        upTo[n \in 0 .. last] ==
            IF n = 0 THEN <<>> ELSE upTo[n - 1] \o CallClosed(s, s.blockIndex + n)
    IN  upTo[last]

\* The current block is closed, then the tool calls.
ChatFinish(c, s) ==
    IF c.finish THEN Emitting(s, <<BlockDone(s.blockIndex, <<>>)>> \o CallsClosed(s)) ELSE s

ConvertedChunk(c) ==
    ChatFinish(c, ChatCalls(c, ChatContent(c, ChatReasoning(c, ChatRole(c, choice)))))

\* What the chunk says.
SaidInChunk(c) ==
    LET reasoned == IF c.reasoning THEN Say(answer, "reasoning", 0, ReasoningPiece) ELSE answer
        spoken == IF c.content THEN Say(reasoned, "message", 0, ContentPiece) ELSE reasoned
        after[n \in 0 .. Len(c.calls)] ==
            IF n = 0 THEN spoken
            ELSE Say(after[n - 1], "function_call", c.calls[n].call,
                     IF c.calls[n].args THEN CallPiece(c.calls[n].call) ELSE <<>>)
    IN  after[Len(c.calls)]

\* The role, if at all, then reasoning, then content, then tool calls that start
\* with their name, then the finish reason, once.
Types(a) == { a[i].type : i \in DOMAIN a }
KeepsOrder(c) ==
    /\ c.role => choice.started \/ answer = <<>>
    /\ c.reasoning => Types(answer) \subseteq {"reasoning"}
    /\ c.content => Types(answer) \subseteq {"reasoning", "message"}
    /\ \A i \in DOMAIN c.calls :
          \/ c.calls[i].named
          \/ BlockOf(answer, "function_call", c.calls[i].call) # 0
    /\ upstream = "open"

ChatTakes ==
    /\ source = "chat"
    /\ Converts
    /\ \E c \in Chunks :
          LET s == ConvertedChunk(c)
          IN  /\ choice' = [s EXCEPT !.events = <<>>]
              /\ Emits(s.events)
              /\ answer' = SaidInChunk(c)
              /\ regular' = (regular /\ KeepsOrder(c))
              /\ upstream' = IF c.finish THEN "finished" ELSE upstream
    /\ UNCHANGED <<block, blockIndex, signatures, suppressed, candidate, stray>>

-----------------------------------------------------------------------------
(* google: a chunk holds the whole text so far, to which it may add; what  *)
(* is new is what exceeds the length of the text before.  Nothing but text *)
(* is looked for (extractText): a call that a chunk holds is lost.         *)

ComputeDelta(prev, current) ==
    IF Len(current) <= Len(prev) THEN current ELSE SubSeq(current, Len(prev) + 1, Len(current))

GoogleTakes ==
    /\ source = "google"
    /\ Converts
    /\ \E grows, calls, finishes \in BOOLEAN :
          LET prev == candidate.prevText
              current == IF grows THEN prev \o Piece(0) ELSE prev
              spoken == IF grows THEN Say(answer, "message", 0, Piece(0)) ELSE answer
              delta == ComputeDelta(prev, current)
          IN  /\ Emits( (IF candidate.started THEN <<>> ELSE <<Started(0, "text")>>)
                         \o (IF delta = <<>> THEN <<>> ELSE <<TextDelta(0, delta)>>)
                         \o (IF finishes THEN <<BlockDone(0, <<>>)>> ELSE <<>>) )
              /\ candidate' = [started |-> TRUE, prevText |-> current]
              /\ answer' = IF calls THEN Say(spoken, "function_call", messages, <<>>) ELSE spoken
              /\ regular' = (regular /\ upstream = "open" /\ (grows \/ prev = <<>>))
              /\ upstream' = IF finishes THEN "finished" ELSE upstream
    /\ UNCHANGED <<block, blockIndex, signatures, suppressed, choice, stray>>

\* chat and google: the channel of chunks is closed.  An answer that was cut
\* short, without a finish reason, is completed like any other.
ChannelClosed ==
    /\ source \in {"chat", "google"}
    /\ upstream \in {"open", "finished"}
    /\ coreEvents = <<>>
    /\ Emits(<<Lifecycle("completed")>>)
    /\ upstream' = "closed"
    /\ regular' = (regular /\ upstream = "finished")
    /\ UNCHANGED <<contentText, toolCallArgs, outputIndexes, reasonIndexes, toolCallFinalized,
                   output, sent, final, source, messages, converterVars, answer, stray>>

-----------------------------------------------------------------------------
(* An answer that was fetched whole is replayed as a stream, by            *)
(* coreResponseToCoreStream or, for the visual extension, by               *)
(* coreResponseToStreamEvents, which knows no tool calls.                  *)

Outlines == [type : {"text", "reasoning", "tool_use"}, empty : BOOLEAN]

\* The blocks of an answer: an outline with a text, unless it is empty, and a
\* reasoning block with a signature.
Whole(outlines) ==
    [i \in DOMAIN outlines |->
        [ type |-> outlines[i].type,
          text |-> IF outlines[i].empty THEN <<>> ELSE <<i>>,
          signature |-> IF outlines[i].type = "reasoning" THEN <<i>> ELSE <<>> ]]

ReplayedBlock(b, i) ==
    IF b.type = "tool_use"
    THEN << Started(i, "tool_use"), ArgsDone(i, b.text), BlockDone(i, <<>>) >>
    ELSE <<Started(i, b.type)>>
         \o (IF b.text = <<>> THEN <<>> ELSE <<TextDelta(i, b.text)>>)
         \o <<BlockDone(i, b.signature)>>

Replayed(blocks) ==
    LET upTo[n \in 0 .. Len(blocks)] ==
            IF n = 0 THEN <<>> ELSE upTo[n - 1] \o ReplayedBlock(blocks[n], n)
    IN  upTo[Len(blocks)]

NoToolUse(b) == b.type # "tool_use"

\* The replay for the visual extension numbers the blocks that it knows.
WithoutCalls(blocks) ==
    LET upTo[n \in 0 .. Len(blocks)] ==
            IF n = 0 THEN <<>>
            ELSE IF NoToolUse(blocks[n]) THEN Append(upTo[n - 1], blocks[n]) ELSE upTo[n - 1]
    IN  upTo[Len(blocks)]

ReplayWhole ==
    /\ source \in {"replay", "visualReplay"}
    /\ messages = 0
    /\ Converts
    /\ \E outlines \in BoundedSeq(Outlines, MaxBlocks) :
       \E status \in {"completed", "incomplete", "failed"} :
          LET blocks == Whole(outlines)
          IN  /\ Emits(IF source = "replay"
                       THEN <<Lifecycle("created"), Lifecycle("in_progress")>> \o Replayed(blocks)
                            \o <<Lifecycle(status)>>
                       ELSE <<Lifecycle("created")>> \o Replayed(WithoutCalls(blocks))
                            \o <<Lifecycle(status)>>)
              /\ answer' = [i \in DOMAIN blocks |->
                              [ type |-> ItemType(blocks[i].type), n |-> i,
                                text |-> blocks[i].text, signature |-> blocks[i].signature ]]
    /\ upstream' = "closed"
    /\ UNCHANGED <<converterVars, regular, stray>>

Init ==
    /\ EmptyStream
    /\ source \in Sources
    /\ upstream = "open"
    /\ messages = 0
    /\ block = "none"
    /\ blockIndex = 0
    /\ signatures = <<>>
    /\ suppressed = {}
    /\ choice = NewChoice
    /\ candidate = [started |-> FALSE, prevText |-> <<>>]
    /\ answer = <<>>
    /\ regular = TRUE
    /\ stray = FALSE

Converter == Anthropic \/ ChatTakes \/ GoogleTakes \/ ChannelClosed \/ ReplayWhole

LoopStep ==
    /\ StreamLoop
    /\ UNCHANGED <<source, upstream, messages, converterVars, answer, regular, stray>>

Next == Converter \/ LoopStep

Spec == Init /\ [][Next]_vars

-----------------------------------------------------------------------------
(* Properties.                                                             *)

\* Type correctness, and that the maps of streamLoop lead where there is an
\* item, since it indexes the answer without looking: every index in use has
\* its position in the answer, and a reasoning index is in use.
TypeOK ==
    /\ source \in Sources
    /\ upstream \in {"open", "finished", "closed", "failed"}
    /\ messages \in 0 .. MaxMessages[source]
    /\ block \in Kinds \cup {"none"}
    /\ blockIndex \in 0 .. MaxBlocks
    /\ regular \in BOOLEAN /\ stray \in BOOLEAN
    /\ \A i \in DOMAIN outputIndexes : outputIndexes[i] \in DOMAIN output
    /\ reasonIndexes \subseteq DOMAIN outputIndexes
    /\ \A n \in DOMAIN output : output[n].status \in {"in_progress", "completed"}

\* What a client makes of the events: the announced items, each with its text,
\* which is that of its deltas or, without any, that of its end.  A delta is
\* added to an item of its own type only.
Read(view, e) ==
    IF e.event = "added" THEN Put(view, e.item, [type |-> e.type, text |-> <<>>])
    ELSE IF e.item \notin DOMAIN view THEN view
    ELSE IF e.event = "delta" /\ view[e.item].type = e.type
         THEN [view EXCEPT ![e.item].text = @ \o e.text]
    ELSE IF e.event = "done" /\ view[e.item].text = <<>> THEN [view EXCEPT ![e.item].text = e.text]
    ELSE view

ClientView ==
    LET view == FoldLeft(Read, <<>>, sent)
        positions == SetToSortSeq(DOMAIN view, <)
    IN  [k \in DOMAIN positions |-> view[positions[k]]]

\* An empty text says nothing; a tool call without arguments does.
Saying(items) == SelectSeq(items, LAMBDA b : b.text # <<>> \/ b.type = "function_call")
TypesAndTexts(items) ==
    LET saying == Saying(items)
    IN  [k \in DOMAIN saying |-> [type |-> saying[k].type, text |-> saying[k].text]]

\* What the proxy keeps of an answer: all of it, but for the tool calls that
\* google streams (google/adapter.go:331) and those of a whole answer that is
\* replayed for the visual extension (adapter_dispatch.go:1731), which are lost.
LosesCalls == {"google", "visualReplay"}
Kept(a) == IF source \in LosesCalls THEN SelectSeq(a, LAMBDA b : b.type # "function_call") ELSE a

\* Whenever the goroutines have caught up, a client that follows the events
\* has put together what the provider said, as far as it is kept: every block
\* with its type, its text and its place, though the provider's indexes, the
\* core indexes and the positions of the items are three numberings and items
\* are announced late.  Not of providers that leave the orders the converters
\* expect (regular): text after a status message in its block, a google chunk
\* that repeats the text before it, chat chunks in another order, an answer
\* cut short.  And not when the arguments of a server's tool were added to a
\* client's call: they carry the position of the first item (openai/adapter.go:621).
AnswerRebuilt ==
    /\ regular
    /\ coreEvents = <<>>
    /\ stray => output = <<>> \/ output[1].type # "function_call"
    => TypesAndTexts(ClientView) = TypesAndTexts(Kept(answer))

\* The answer that closes the stream, which the proxy also remembers, is what
\* the provider said, as far as it is kept, with all items completed, also
\* when a server's tool was called.  Of the signatures only those of answers
\* fetched whole: a stream loses them.
Signed(items) == SelectSeq([k \in DOMAIN items |-> items[k].signature], LAMBDA d : d # <<>>)
FinalIsAnswer ==
    regular /\ upstream = "closed" /\ final # <<>> =>
        /\ TypesAndTexts(final[1]) = TypesAndTexts(Kept(answer))
        /\ \A n \in DOMAIN final[1] : final[1][n].status = "completed"
        /\ source # "anthropic" => Signed(final[1]) = Signed(Kept(answer))

\* An item is closed once, with the text of its deltas, and nothing is said
\* of it afterwards, as long as no server's tool has arguments, which are sent
\* with the position of the first item.
Closes(e) == e.event = "itemDone" \/ (e.event = "done" /\ e.type = "reasoning")
DeltasOf(events, item) ==
    LET upTo[n \in 0 .. Len(events)] ==
            IF n = 0 THEN <<>>
            ELSE IF events[n].event = "delta" /\ events[n].item = item
                 THEN upTo[n - 1] \o events[n].text ELSE upTo[n - 1]
    IN  upTo[Len(events)]
ClosedOnce ==
    regular /\ ~stray =>
        \A i \in DOMAIN sent : Closes(sent[i]) =>
            /\ \A j \in i + 1 .. Len(sent) : sent[j].item # sent[i].item
            /\ sent[i].event = "itemDone" => DeltasOf(sent, sent[i].item) \in {<<>>, sent[i].text}

\* However a provider orders its chunks, streamLoop completes only tool calls
\* whose item it has: it indexes the answer without looking (openai/adapter.go:671).
CompletesKnownCalls ==
    coreEvents # <<>> /\ Event.type = "argsDone" /\ Index \notin toolCallFinalized
        => Index \in DOMAIN outputIndexes

=============================================================================
