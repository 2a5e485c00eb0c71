---------------------------- MODULE ResponseStream ----------------------------
(***************************************************************************)
(* OpenAIAdapter.streamLoop: core events of a streamed answer become the   *)
(* events of the Responses protocol that the client reads, and the answer  *)
(* that response.completed carries.                                        *)
(*                                                                         *)
(* Core events name a block by an index that the provider's adapter chose; *)
(* the client's events name an item by its position in the answer.  The    *)
(* goroutine keeps the maps between the two and the text so far.           *)
(*                                                                         *)
(* A text is a sequence of pieces, one per delta of the upstream.          *)
(* Positions count from 1 here, from 0 in the code.                        *)
(***************************************************************************)
EXTENDS Integers, SequencesExt

VARIABLES
    coreEvents,        \* what the provider's adapter emitted and streamLoop has not taken
    contentText,       \* index -> text so far, of text and reasoning blocks
    toolCallArgs,      \* index -> arguments so far
    outputIndexes,     \* index -> position of the block's item
    reasonIndexes,     \* the indexes that are reasoning
    toolCallFinalized, \* the indexes whose tool call is complete
    output,            \* response.Output
    sent,              \* the events sent to the client
    final              \* <<the answer that came with the closing event>>, or <<>>

streamVars == <<coreEvents, contentText, toolCallArgs, outputIndexes, reasonIndexes,
                toolCallFinalized, output, sent, final>>

-----------------------------------------------------------------------------
(* Core events: an index, the kind of a block that starts, and a text,     *)
(* which for the end of a reasoning block is its signature.                *)

CoreEvent(type, index, kind, delta) ==
    [type |-> type, index |-> index, kind |-> kind, delta |-> delta]

Started(i, kind) == CoreEvent("started", i, kind, <<>>)
TextDelta(i, d)  == CoreEvent("textDelta", i, "", d)
ArgsDelta(i, d)  == CoreEvent("argsDelta", i, "", d)
ArgsDone(i, d)   == CoreEvent("argsDone", i, "", d)
BlockDone(i, d)  == CoreEvent("blockDone", i, "", d)
Lifecycle(type)  == CoreEvent(type, 0, "", <<>>)

(* Events of the Responses protocol: the position of the item they are     *)
(* about, the type of item they are for, and a text.                       *)

ClientEvent(event, item, type, text) ==
    [event |-> event, item |-> item, type |-> type, text |-> text]

Item(type) == [type |-> type, status |-> "in_progress", text |-> <<>>, signature |-> <<>>]

-----------------------------------------------------------------------------
(* Go's maps: a missing key reads as the zero value, which for a position  *)
(* is that of the first item.                                              *)

Put(f, i, v) == [j \in DOMAIN f \cup {i} |-> IF j = i THEN v ELSE f[j]]
Delete(f, i) == [j \in DOMAIN f \ {i} |-> f[j]]
TextAt(f, i) == IF i \in DOMAIN f THEN f[i] ELSE <<>>
Position(i) == IF i \in DOMAIN outputIndexes THEN outputIndexes[i] ELSE 1

EmptyStream ==
    /\ coreEvents = <<>>
    /\ contentText = <<>>
    /\ toolCallArgs = <<>>
    /\ outputIndexes = <<>>
    /\ reasonIndexes = {}
    /\ toolCallFinalized = {}
    /\ output = <<>>
    /\ sent = <<>>
    /\ final = <<>>

\* The next core event, of one of some types.
Takes(types) ==
    /\ coreEvents # <<>>
    /\ Head(coreEvents).type \in types
    /\ coreEvents' = Tail(coreEvents)

Event == Head(coreEvents)
Index == Event.index

Send(events) == sent' = sent \o events

\* A new item at the end of the answer, with the events that announce it.
AddItem(type, events) ==
    /\ output' = Append(output, Item(type))
    /\ outputIndexes' = Put(outputIndexes, Index, Len(output) + 1)
    /\ Send(events)

Added(type) == ClientEvent("added", Len(output) + 1, type, <<>>)

-----------------------------------------------------------------------------
(* A block starts.  A text block gets its item with its first delta.       *)

TextStarted ==
    /\ Takes({"started"})
    /\ Event.kind = "text"
    /\ contentText' = Put(contentText, Index, <<>>)
    /\ UNCHANGED <<toolCallArgs, outputIndexes, reasonIndexes, toolCallFinalized, output, sent,
                   final>>

ReasoningStarted ==
    /\ Takes({"started"})
    /\ Event.kind = "reasoning"
    /\ contentText' = Put(contentText, Index, <<>>)
    /\ reasonIndexes' = reasonIndexes \cup {Index}
    /\ AddItem("reasoning", <<Added("reasoning")>>)
    /\ UNCHANGED <<toolCallArgs, toolCallFinalized, final>>

ToolStarted ==
    /\ Takes({"started"})
    /\ Event.kind = "tool_use"
    /\ AddItem("function_call", <<Added("function_call")>>)
    /\ UNCHANGED <<contentText, toolCallArgs, reasonIndexes, toolCallFinalized, final>>

-----------------------------------------------------------------------------
(* Deltas.                                                                 *)

\* Mutated form of ReceiveText: the last delta stands for the text.
ReceiveLastText == contentText' = Put(contentText, Index, Event.delta)

ReceiveText ==
    contentText' = Put(contentText, Index, TextAt(contentText, Index) \o Event.delta)

ReasoningDelta ==
    /\ Takes({"textDelta"})
    /\ Index \in reasonIndexes
    /\ ReceiveText
    /\ Send(<<ClientEvent("delta", Position(Index), "reasoning", Event.delta)>>)
    /\ UNCHANGED <<toolCallArgs, outputIndexes, reasonIndexes, toolCallFinalized, output, final>>

FirstTextDelta ==
    /\ Takes({"textDelta"})
    /\ Index \notin reasonIndexes
    /\ Index \notin DOMAIN outputIndexes
    /\ ReceiveText
    /\ AddItem("message", << Added("message"),
                             ClientEvent("delta", Len(output) + 1, "message", Event.delta) >>)
    /\ UNCHANGED <<toolCallArgs, reasonIndexes, toolCallFinalized, final>>

FurtherTextDelta ==
    /\ Takes({"textDelta"})
    /\ Index \notin reasonIndexes
    /\ Index \in DOMAIN outputIndexes
    /\ ReceiveText
    /\ Send(<<ClientEvent("delta", Position(Index), "message", Event.delta)>>)
    /\ UNCHANGED <<toolCallArgs, outputIndexes, reasonIndexes, toolCallFinalized, output, final>>

\* Sent on whether or not the call was announced.
ToolCallArgsDelta ==
    /\ Takes({"argsDelta"})
    /\ toolCallArgs' = Put(toolCallArgs, Index, TextAt(toolCallArgs, Index) \o Event.delta)
    /\ Send(<<ClientEvent("delta", Position(Index), "function_call", Event.delta)>>)
    /\ UNCHANGED <<contentText, outputIndexes, reasonIndexes, toolCallFinalized, output, final>>

-----------------------------------------------------------------------------
(* A tool call is complete.                                                *)

ToolCallArgsDone ==
    /\ Takes({"argsDone"})
    /\ Index \notin toolCallFinalized
    /\ LET args == IF Event.delta # <<>> THEN Event.delta ELSE TextAt(toolCallArgs, Index)
       IN  /\ output' = IF Index \in DOMAIN outputIndexes
                        THEN [output EXCEPT ![Position(Index)].text = args,
                                            ![Position(Index)].status = "completed"]
                        ELSE output
           /\ Send(<< ClientEvent("done", Position(Index), "function_call", args),
                      ClientEvent("itemDone", Position(Index), output'[Position(Index)].type, args) >>)
    /\ toolCallFinalized' = toolCallFinalized \cup {Index}
    /\ UNCHANGED <<contentText, toolCallArgs, outputIndexes, reasonIndexes, final>>

ToolCallArgsDoneAgain ==
    /\ Takes({"argsDone"})
    /\ Index \in toolCallFinalized
    /\ UNCHANGED <<contentText, toolCallArgs, outputIndexes, reasonIndexes, toolCallFinalized,
                   output, sent, final>>

-----------------------------------------------------------------------------
(* A block is done.                                                        *)

ForgetReasoning ==
    /\ contentText' = Delete(contentText, Index)
    /\ outputIndexes' = Delete(outputIndexes, Index)
    /\ reasonIndexes' = reasonIndexes \ {Index}

ReasoningDone ==
    /\ Takes({"blockDone"})
    /\ Index \in reasonIndexes
    /\ output' = [output EXCEPT ![Position(Index)].status = "completed",
                                ![Position(Index)].text = TextAt(contentText, Index),
                                ![Position(Index)].signature = Event.delta]
    /\ Send(<<ClientEvent("done", Position(Index), "reasoning", <<>>)>>)
    /\ ForgetReasoning
    /\ UNCHANGED <<toolCallArgs, toolCallFinalized, final>>

\* An item is added, without an event, to a block that had no delta.  The text
\* goes to an item with content, which only a message has.
TextDone ==
    /\ Takes({"blockDone"})
    /\ Index \notin reasonIndexes
    /\ Index \in DOMAIN contentText
    /\ LET added == Index \notin DOMAIN outputIndexes
           items == IF added THEN Append(output, Item("message")) ELSE output
           position == IF added THEN Len(items) ELSE Position(Index)
           text == contentText[Index]
       IN  /\ outputIndexes' = Put(outputIndexes, Index, position)
           /\ output' = [items EXCEPT ![position].text = IF items[position].type = "message"
                                                         THEN text ELSE @,
                                      ![position].status = "completed"]
           /\ Send(<< ClientEvent("done", position, "message", text),
                      ClientEvent("itemDone", position, items[position].type, text) >>)
    /\ contentText' = Delete(contentText, Index)
    /\ UNCHANGED <<toolCallArgs, reasonIndexes, toolCallFinalized, final>>

\* Mutated form of ToolIsOpen: a call that is complete is completed again.
ToolIsKnown == Index \in DOMAIN outputIndexes

ToolIsOpen == Index \in DOMAIN outputIndexes \ toolCallFinalized

ToolDone ==
    /\ Takes({"blockDone"})
    /\ Index \notin reasonIndexes \cup DOMAIN contentText
    /\ ToolIsOpen
    /\ LET args == TextAt(toolCallArgs, Index)
       IN  /\ output' = [output EXCEPT ![Position(Index)].text = IF args # <<>> THEN args ELSE @,
                                       ![Position(Index)].status = "completed"]
           /\ Send(<< ClientEvent("done", Position(Index), "function_call", args),
                      ClientEvent("itemDone", Position(Index), output[Position(Index)].type, args) >>)
    /\ toolCallArgs' = Delete(toolCallArgs, Index)
    /\ toolCallFinalized' = toolCallFinalized \cup {Index}
    /\ UNCHANGED <<contentText, outputIndexes, reasonIndexes, final>>

\* The block was never announced, or its tool call is complete already.
NothingDone ==
    /\ Takes({"blockDone"})
    /\ Index \notin reasonIndexes \cup DOMAIN contentText
    /\ ~ToolIsOpen
    /\ UNCHANGED <<contentText, toolCallArgs, outputIndexes, reasonIndexes, toolCallFinalized,
                   output, sent, final>>

-----------------------------------------------------------------------------
(* The life cycle of the response.                                         *)

ResponseGoesOn ==
    /\ Takes({"created", "in_progress"})
    /\ Send(<<ClientEvent(Event.type, 0, "", <<>>)>>)
    /\ UNCHANGED <<contentText, toolCallArgs, outputIndexes, reasonIndexes, toolCallFinalized,
                   output, final>>

\* All three closing events carry the answer.
ResponseCloses ==
    /\ Takes({"completed", "incomplete", "failed"})
    /\ final' = <<output>>
    /\ Send(<<ClientEvent(Event.type, 0, "", <<>>)>>)
    /\ UNCHANGED <<contentText, toolCallArgs, outputIndexes, reasonIndexes, toolCallFinalized,
                   output>>

StreamLoop ==
    \/ TextStarted \/ ReasoningStarted \/ ToolStarted
    \/ ReasoningDelta \/ FirstTextDelta \/ FurtherTextDelta
    \/ ToolCallArgsDelta \/ ToolCallArgsDone \/ ToolCallArgsDoneAgain
    \/ ReasoningDone \/ TextDone \/ ToolDone \/ NothingDone
    \/ ResponseGoesOn \/ ResponseCloses
=============================================================================
