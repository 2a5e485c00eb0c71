---------------------------- MODULE AdapterProofs ----------------------------
(***************************************************************************)
(* What holds of the protocol adapters: of streamLoop's maps and of the    *)
(* calls that it completes, for every provider, every set of chunks and    *)
(* answers of every length; and of the fields that the Google adapter      *)
(* shares between requests.  The lemmas on concatenation and on induction  *)
(* are those of RequestProofs.                                             *)
(***************************************************************************)
EXTENDS StreamConversion, GeminiAdapter, RequestProofs, SequenceTheorems, FiniteSetTheorems, TLAPS

Statuses == {"in_progress", "completed"}
ItemTypes == {"message", "reasoning", "function_call"}
ItemsWith(D) == [type : ItemTypes, status : Statuses, text : D, signature : D]

\* The answer is a sequence of items; nothing is said of the texts.
OutputShape == \E D : output \in Seq(ItemsWith(D))

\* The maps of streamLoop fit the answer.
MapsFit ==
    /\ \A i \in DOMAIN outputIndexes : outputIndexes[i] \in DOMAIN output
    /\ reasonIndexes \subseteq DOMAIN outputIndexes

LoopInv == OutputShape /\ MapsFit

\* The block that is open is one of the blocks allowed.
BlockBound == block # "none" => blockIndex < MaxBlocks

-----------------------------------------------------------------------------
(* Answers.                                                                *)

\* A sequence of items is one of items with more texts.
LEMMA MoreTexts ==
    ASSUME NEW D, NEW E, NEW o \in Seq(ItemsWith(D))
    PROVE  o \in Seq(ItemsWith(D \cup E))
<1>1. ItemsWith(D) \subseteq ItemsWith(D \cup E)
  BY DEF ItemsWith
<1> QED BY <1>1, SeqMonotonic

\* A sequence's domain when an element is added to it.
LEMMA Appended ==
    ASSUME NEW S, NEW o \in Seq(S), NEW x \in S
    PROVE  /\ Append(o, x) \in Seq(S)
           /\ DOMAIN o \subseteq DOMAIN Append(o, x)
           /\ Len(o) + 1 \in DOMAIN Append(o, x)
           /\ Len(Append(o, x)) = Len(o) + 1
OBVIOUS

\* A new item makes an answer longer by one.
LEMMA ItemAppended ==
    ASSUME NEW D, NEW o \in Seq(ItemsWith(D)), NEW t \in ItemTypes
    PROVE  /\ Append(o, Item(t)) \in Seq(ItemsWith(D \cup {<<>>}))
           /\ DOMAIN o \subseteq DOMAIN Append(o, Item(t))
           /\ Len(o) + 1 \in DOMAIN Append(o, Item(t))
           /\ Len(Append(o, Item(t))) = Len(o) + 1
<1>1. o \in Seq(ItemsWith(D \cup {<<>>}))
  BY MoreTexts
<1>2. Item(t) \in ItemsWith(D \cup {<<>>})
  BY DEF Item, ItemsWith, Statuses
<1> QED BY <1>1, <1>2, Appended

\* Replacing an item keeps an answer's length.
LEMMA ItemReplaced ==
    ASSUME NEW D, NEW o \in Seq(ItemsWith(D)), NEW p \in DOMAIN o, NEW r \in ItemsWith(D)
    PROVE  /\ [o EXCEPT ![p] = r] \in Seq(ItemsWith(D))
           /\ DOMAIN [o EXCEPT ![p] = r] = DOMAIN o
OBVIOUS

\* Closing an item with a text, or with the text it has, yields an item.
LEMMA ItemClosed ==
    ASSUME NEW D, NEW r \in ItemsWith(D), NEW d
    PROVE  /\ [r EXCEPT !.text = d, !.status = "completed"] \in ItemsWith(D \cup {d})
           /\ [r EXCEPT !.status = "completed", !.text = d] \in ItemsWith(D \cup {d})
           /\ r.text \in D
BY DEF ItemsWith, Statuses

-----------------------------------------------------------------------------
(* The steps that touch the answer or its map.                             *)

\* An item is added, and its index put into the map.
LEMMA AddedKeepsMaps ==
    ASSUME LoopInv, NEW t \in ItemTypes, NEW i,
           output' = Append(output, Item(t)),
           outputIndexes' = Put(outputIndexes, i, Len(output) + 1),
           reasonIndexes' \subseteq reasonIndexes \cup {i}
    PROVE  LoopInv'
<1>1. PICK D : output \in Seq(ItemsWith(D))
  BY DEF LoopInv, OutputShape
<1>2. /\ output' \in Seq(ItemsWith(D \cup {<<>>}))
      /\ DOMAIN output \subseteq DOMAIN output'
      /\ Len(output) + 1 \in DOMAIN output'
  BY <1>1, ItemAppended
<1>3. OutputShape'
  BY <1>2 DEF OutputShape
<1>4. /\ DOMAIN outputIndexes' = DOMAIN outputIndexes \cup {i}
      /\ \A j \in DOMAIN outputIndexes' :
            outputIndexes'[j] = IF j = i THEN Len(output) + 1 ELSE outputIndexes[j]
  BY DEF Put
<1>5. MapsFit'
  BY <1>2, <1>4 DEF LoopInv, MapsFit
<1> QED BY <1>3, <1>5 DEF LoopInv

\* An item is replaced, and indexes are dropped from the map at most.
LEMMA ReplacedKeepsMaps ==
    ASSUME LoopInv, NEW E, NEW o, NEW p \in DOMAIN o, NEW r \in ItemsWith(E),
           o \in Seq(ItemsWith(E)), output' = [o EXCEPT ![p] = r],
           \A j \in DOMAIN outputIndexes' : outputIndexes'[j] \in DOMAIN o,
           reasonIndexes' \subseteq DOMAIN outputIndexes'
    PROVE  LoopInv'
<1>1. /\ output' \in Seq(ItemsWith(E))
      /\ DOMAIN output' = DOMAIN o
  BY ItemReplaced
<1>2. OutputShape'
  BY <1>1 DEF OutputShape
<1>3. MapsFit'
  BY <1>1 DEF MapsFit
<1> QED BY <1>2, <1>3 DEF LoopInv

\* Nothing of what the invariant speaks of changes.
LEMMA UnchangedKeepsMaps ==
    ASSUME LoopInv, UNCHANGED <<output, outputIndexes, reasonIndexes>>
    PROVE  LoopInv'
BY DEF LoopInv, OutputShape, MapsFit

LEMMA ToolArgsDoneKeepsMaps ==
    ASSUME LoopInv, ToolCallArgsDone
    PROVE  LoopInv'
<1>1. PICK D : output \in Seq(ItemsWith(D))
  BY DEF LoopInv, OutputShape
<1>2. UNCHANGED <<outputIndexes, reasonIndexes>>
  BY DEF ToolCallArgsDone
<1> DEFINE args == IF Event.delta # <<>> THEN Event.delta ELSE TextAt(toolCallArgs, Index)
           p == Position(Index)
           r == [output[p] EXCEPT !.text = args, !.status = "completed"]
<1>3. CASE Index \in DOMAIN outputIndexes
  <2>1. output' = [output EXCEPT ![p].text = args, ![p].status = "completed"]
    BY <1>3 DEF ToolCallArgsDone
  <2>2. p \in DOMAIN output
    BY <1>3 DEF LoopInv, MapsFit, Position
  <2>3. output[p] \in ItemsWith(D)
    BY <1>1, <2>2
  <2>4. r \in ItemsWith(D \cup {args})
    BY <2>3, ItemClosed
  <2>5. output \in Seq(ItemsWith(D \cup {args}))
    BY <1>1, MoreTexts
  <2>6. output' = [output EXCEPT ![p] = r]
    BY <2>1, <2>2, <2>5
  <2>7. /\ \A j \in DOMAIN outputIndexes' : outputIndexes'[j] \in DOMAIN output
        /\ reasonIndexes' \subseteq DOMAIN outputIndexes'
    BY <1>2 DEF LoopInv, MapsFit
  <2> HIDE DEF args, p, r
  <2> QED BY <2>2, <2>4, <2>5, <2>6, <2>7, ReplacedKeepsMaps
<1>4. CASE Index \notin DOMAIN outputIndexes
  <2>1. output' = output
    BY <1>4 DEF ToolCallArgsDone
  <2> QED BY <1>2, <2>1, UnchangedKeepsMaps
<1> QED BY <1>3, <1>4

LEMMA ReasoningDoneKeepsMaps ==
    ASSUME LoopInv, ReasoningDone
    PROVE  LoopInv'
<1>1. PICK D : output \in Seq(ItemsWith(D))
  BY DEF LoopInv, OutputShape
<1> DEFINE p == Position(Index)
           E == D \cup {TextAt(contentText, Index)} \cup {Event.delta}
           r == [output[p] EXCEPT !.status = "completed", !.text = TextAt(contentText, Index),
                                  !.signature = Event.delta]
<1>2. p \in DOMAIN output
  BY DEF LoopInv, MapsFit, Position, ReasoningDone
<1>3. output[p] \in ItemsWith(D)
  BY <1>1, <1>2
<1>4. r \in ItemsWith(E)
  BY <1>3 DEF ItemsWith, Statuses
<1>5. output \in Seq(ItemsWith(E))
  <2>1. output \in Seq(ItemsWith(D \cup {TextAt(contentText, Index)}))
    BY <1>1, MoreTexts
  <2> QED BY <2>1, MoreTexts
<1>6. output' = [output EXCEPT ![p] = r]
  <2>1. output' = [output EXCEPT ![p].status = "completed", ![p].text = TextAt(contentText, Index),
                                 ![p].signature = Event.delta]
    BY DEF ReasoningDone
  <2> QED BY <2>1, <1>2, <1>5
<1>7. /\ outputIndexes' = Delete(outputIndexes, Index)
      /\ reasonIndexes' = reasonIndexes \ {Index}
  BY DEF ReasoningDone, ForgetReasoning
<1>8. /\ \A j \in DOMAIN outputIndexes' : outputIndexes'[j] \in DOMAIN output
      /\ reasonIndexes' \subseteq DOMAIN outputIndexes'
  BY <1>7 DEF LoopInv, MapsFit, Delete
<1> HIDE DEF p, E, r
<1> QED BY <1>2, <1>4, <1>5, <1>6, <1>8, ReplacedKeepsMaps

LEMMA TextDoneKeepsMaps ==
    ASSUME LoopInv, TextDone
    PROVE  LoopInv'
<1>1. PICK D : output \in Seq(ItemsWith(D))
  BY DEF LoopInv, OutputShape
<1> DEFINE added == Index \notin DOMAIN outputIndexes
           items == IF added THEN Append(output, Item("message")) ELSE output
           p == IF added THEN Len(items) ELSE Position(Index)
           t == IF items[p].type = "message" THEN contentText[Index] ELSE items[p].text
           r == [items[p] EXCEPT !.text = t, !.status = "completed"]
           C == D \cup {<<>>}
           E == C \cup {t}
<1>2. /\ items \in Seq(ItemsWith(C))
      /\ p \in DOMAIN items
      /\ DOMAIN output \subseteq DOMAIN items
  <2>1. CASE added
    <3>1. items = Append(output, Item("message"))
      BY <2>1
    <3>2. /\ items \in Seq(ItemsWith(C))
          /\ DOMAIN output \subseteq DOMAIN items
          /\ Len(output) + 1 \in DOMAIN items
          /\ Len(items) = Len(output) + 1
      <4>1. "message" \in ItemTypes
        BY DEF ItemTypes
      <4> HIDE DEF items
      <4> QED BY <1>1, <3>1, <4>1, ItemAppended
    <3>3. p = Len(items)
      BY <2>1
    <3> HIDE DEF items, p, C, added
    <3> QED BY <3>2, <3>3
  <2>2. CASE ~added
    <3>1. output \in Seq(ItemsWith(C))
      BY <1>1, MoreTexts
    <3>2. Position(Index) \in DOMAIN output
      BY <2>2 DEF LoopInv, MapsFit, Position
    <3> QED BY <2>2, <3>1, <3>2
  <2> QED BY <2>1, <2>2
<1>3. /\ outputIndexes' = Put(outputIndexes, Index, p)
      /\ output' = [items EXCEPT ![p].text = IF items[p].type = "message"
                                             THEN contentText[Index] ELSE @,
                                 ![p].status = "completed"]
      /\ reasonIndexes' = reasonIndexes
  BY DEF TextDone
<1>4. items[p] \in ItemsWith(C)
  BY <1>2
<1>5. r \in ItemsWith(E)
  <2> HIDE DEF t, items, p, C
  <2> QED BY <1>4, ItemClosed
<1>6. items \in Seq(ItemsWith(E))
  <2> HIDE DEF t, items, p, C
  <2> QED BY <1>2, MoreTexts
<1>7. output' = [items EXCEPT ![p] = r]
  <2> HIDE DEF items, p, C, E
  <2> QED BY <1>3, <1>2, <1>6
<1>8. /\ \A j \in DOMAIN outputIndexes' : outputIndexes'[j] \in DOMAIN items
      /\ reasonIndexes' \subseteq DOMAIN outputIndexes'
  <2> HIDE DEF items, p, C, E
  <2> QED BY <1>2, <1>3 DEF LoopInv, MapsFit, Put
<1> HIDE DEF added, items, p, t, r, C, E
<1> QED BY <1>2, <1>5, <1>6, <1>7, <1>8, ReplacedKeepsMaps

LEMMA ToolDoneKeepsMaps ==
    ASSUME LoopInv, ToolDone
    PROVE  LoopInv'
<1>1. PICK D : output \in Seq(ItemsWith(D))
  BY DEF LoopInv, OutputShape
<1> DEFINE args == TextAt(toolCallArgs, Index)
           p == Position(Index)
           t == IF args # <<>> THEN args ELSE output[p].text
           r == [output[p] EXCEPT !.text = t, !.status = "completed"]
<1>2. p \in DOMAIN output
  BY DEF LoopInv, MapsFit, Position, ToolDone, ToolIsOpen
<1>3. output[p] \in ItemsWith(D)
  BY <1>1, <1>2
<1>4. r \in ItemsWith(D \cup {t})
  BY <1>3, ItemClosed
<1>5. output \in Seq(ItemsWith(D \cup {t}))
  BY <1>1, MoreTexts
<1>6. output' = [output EXCEPT ![p] = r]
  <2>1. output' = [output EXCEPT ![p].text = IF args # <<>> THEN args ELSE @,
                                 ![p].status = "completed"]
    BY DEF ToolDone
  <2> HIDE DEF args, p
  <2> QED BY <2>1, <1>2, <1>5
<1>7. /\ \A j \in DOMAIN outputIndexes' : outputIndexes'[j] \in DOMAIN output
      /\ reasonIndexes' \subseteq DOMAIN outputIndexes'
  BY DEF LoopInv, MapsFit, ToolDone
<1> HIDE DEF args, p, t, r
<1> QED BY <1>2, <1>4, <1>5, <1>6, <1>7, ReplacedKeepsMaps

\* Every step of streamLoop keeps its maps in order.
LEMMA StreamLoopKeepsMaps ==
    ASSUME LoopInv, StreamLoop
    PROVE  LoopInv'
<1>1. CASE ReasoningStarted
  <2>1. /\ output' = Append(output, Item("reasoning"))
        /\ "reasoning" \in ItemTypes
        /\ outputIndexes' = Put(outputIndexes, Index, Len(output) + 1)
        /\ reasonIndexes' \subseteq reasonIndexes \cup {Index}
    BY <1>1 DEF ReasoningStarted, AddItem, ItemTypes
  <2> QED BY <2>1, AddedKeepsMaps
<1>2. CASE ToolStarted
  <2>1. /\ output' = Append(output, Item("function_call"))
        /\ "function_call" \in ItemTypes
        /\ outputIndexes' = Put(outputIndexes, Index, Len(output) + 1)
        /\ reasonIndexes' \subseteq reasonIndexes \cup {Index}
    BY <1>2 DEF ToolStarted, AddItem, ItemTypes
  <2> QED BY <2>1, AddedKeepsMaps
<1>3. CASE FirstTextDelta
  <2>1. /\ output' = Append(output, Item("message"))
        /\ "message" \in ItemTypes
        /\ outputIndexes' = Put(outputIndexes, Index, Len(output) + 1)
        /\ reasonIndexes' \subseteq reasonIndexes \cup {Index}
    BY <1>3 DEF FirstTextDelta, AddItem, ItemTypes
  <2> QED BY <2>1, AddedKeepsMaps
<1>4. CASE TextStarted \/ ReasoningDelta \/ FurtherTextDelta \/ ToolCallArgsDelta
  BY <1>4, UnchangedKeepsMaps
  DEF TextStarted, ReasoningDelta, FurtherTextDelta, ToolCallArgsDelta
<1>5. CASE ToolCallArgsDoneAgain \/ NothingDone \/ ResponseGoesOn \/ ResponseCloses
  BY <1>5, UnchangedKeepsMaps
  DEF ToolCallArgsDoneAgain, NothingDone, ResponseGoesOn, ResponseCloses
<1> QED
  BY <1>1, <1>2, <1>3, <1>4, <1>5, ToolArgsDoneKeepsMaps, ReasoningDoneKeepsMaps,
     TextDoneKeepsMaps, ToolDoneKeepsMaps
  DEF StreamLoop

-----------------------------------------------------------------------------
(* The converters, and the theorem.                                        *)

ConverterTypes ==
    /\ source \in Sources
    /\ upstream \in {"open", "finished", "closed", "failed"}
    /\ messages \in 0 .. MaxMessages[source]
    /\ block \in Kinds \cup {"none"}
    /\ blockIndex \in 0 .. MaxBlocks
    /\ regular \in BOOLEAN /\ stray \in BOOLEAN

Inv == ConverterTypes /\ BlockBound /\ LoopInv

\* The invariant implies the type invariant.
LEMMA InvTypes == Inv => TypeOK
<1> SUFFICES ASSUME Inv PROVE TypeOK
  OBVIOUS
<1>1. PICK D : output \in Seq(ItemsWith(D))
  BY DEF Inv, LoopInv, OutputShape
<1>2. \A n \in DOMAIN output : output[n] \in ItemsWith(D)
  BY <1>1
<1>3. \A n \in DOMAIN output : output[n].status \in {"in_progress", "completed"}
  BY <1>2 DEF ItemsWith, Statuses
<1> QED BY <1>3 DEF TypeOK, Inv, ConverterTypes, LoopInv, MapsFit

LEMMA InvInit == Init => Inv
<1> SUFFICES ASSUME Init PROVE Inv
  OBVIOUS
<1>1. ConverterTypes /\ BlockBound
  <2>1. MaxMessages[source] \in Nat /\ MaxBlocks \in Nat /\ source \in Sources
    BY BoundsAssumption DEF Init, BoundsAssumption
  <2>2. 0 \in 0 .. MaxMessages[source] /\ 0 \in 0 .. MaxBlocks
    BY <2>1
  <2> QED BY <2>1, <2>2 DEF Init, ConverterTypes, BlockBound
<1>2. output \in Seq(ItemsWith({}))
  BY EmptySeq DEF Init, EmptyStream
<1>3. MapsFit
  BY DEF Init, EmptyStream, MapsFit
<1> QED BY <1>1, <1>2, <1>3 DEF Inv, LoopInv, OutputShape

\* A step of a converter leaves the maps alone and keeps to the bounds.
LEMMA ConverterKeepsInv ==
    ASSUME Inv, Converter
    PROVE  Inv'
<1> USE DEF Inv, ConverterTypes, BlockBound, Converts
<1>0. messages < MaxMessages[source] => messages + 1 \in 0 .. MaxMessages[source]
  BY BoundsAssumption DEF BoundsAssumption
<1>1. UNCHANGED <<output, outputIndexes, reasonIndexes, source>>
  BY DEF Converter, Anthropic, MessageStart, ContentBlockStart, ContentBlockStop, Delta,
         TextDeltaOfBlock, StatusDelta, ThinkingDelta, SignatureDelta, InputJSONDelta,
         MessageDelta, MessageStop, StreamFails, ChatTakes, GoogleTakes, ChannelClosed,
         ReplayWhole
<1>2. LoopInv'
  BY <1>1, UnchangedKeepsMaps
<1>3. CASE MessageStart \/ MessageDelta \/ MessageStop \/ StreamFails
  BY <1>0, <1>1, <1>2, <1>3
  DEF MessageStart, MessageDelta, MessageStop, StreamFails, converterVars
<1>4. CASE ContentBlockStart
  BY <1>0, <1>1, <1>2, <1>4 DEF ContentBlockStart
<1>5. CASE ContentBlockStop
  BY <1>0, <1>1, <1>2, <1>5, BoundsAssumption DEF ContentBlockStop, BoundsAssumption
<1>6. CASE TextDeltaOfBlock \/ StatusDelta \/ ThinkingDelta \/ SignatureDelta \/ InputJSONDelta
  BY <1>0, <1>1, <1>2, <1>6
  DEF TextDeltaOfBlock, StatusDelta, ThinkingDelta, SignatureDelta, InputJSONDelta, Delta
<1>7. CASE ChatTakes
  BY <1>0, <1>1, <1>2, <1>7 DEF ChatTakes
<1>8. CASE GoogleTakes
  BY <1>0, <1>1, <1>2, <1>8 DEF GoogleTakes
<1>9. CASE ChannelClosed
  BY <1>1, <1>2, <1>9 DEF ChannelClosed, converterVars
<1>10. CASE ReplayWhole
  BY <1>0, <1>1, <1>2, <1>10 DEF ReplayWhole, converterVars
<1> QED BY <1>3, <1>4, <1>5, <1>6, <1>7, <1>8, <1>9, <1>10 DEF Converter, Anthropic

LEMMA InvAlways == Spec => []Inv
<1>1. ASSUME Inv, [Next]_vars
      PROVE  Inv'
  <2>1. CASE Converter
    BY <1>1, <2>1, ConverterKeepsInv
  <2>2. CASE LoopStep
    <3>1. LoopInv'
      BY <1>1, <2>2, StreamLoopKeepsMaps DEF LoopStep, Inv
    <3> QED BY <1>1, <2>2, <3>1 DEF LoopStep, Inv, ConverterTypes, BlockBound, converterVars
  <2>3. CASE UNCHANGED vars
    <3>1. LoopInv'
      BY <1>1, <2>3, UnchangedKeepsMaps DEF vars, streamVars, Inv
    <3> QED BY <1>1, <2>3, <3>1 DEF vars, Inv, ConverterTypes, BlockBound, converterVars
  <2> QED BY <1>1, <2>1, <2>2, <2>3 DEF Next
<1> QED BY InvInit, <1>1, PTL DEF Spec

\* streamLoop always knows the items that it writes to, whatever a provider of
\* any of the protocols sends and in whatever order: the type invariant.
THEOREM IndexesLeadToItems == Spec => []TypeOK
BY InvAlways, InvTypes, PTL

-----------------------------------------------------------------------------
(***************************************************************************)
(* Tool calls are announced before they are completed.                     *)
(***************************************************************************)

\* e[j] starts a block of a kind with an index.
StartsAt(e, j, i, kind) == e[j].type = "started" /\ e[j].index = i /\ e[j].kind = kind

\* Every call that is completed in e is known, or starts before in e; none of
\* its indexes is that of a reasoning block that starts in e.
Announced(e, known) ==
    \A k \in 1 .. Len(e) : e[k].type = "argsDone" =>
        /\ \A j \in 1 .. Len(e) : ~StartsAt(e, j, e[k].index, "reasoning")
        /\ \/ e[k].index \in known
           \/ \E j \in 1 .. Len(e) : j < k /\ StartsAt(e, j, e[k].index, "tool_use")

\* No call is completed in e.
Quiet(e) == \A k \in 1 .. Len(e) : e[k].type # "argsDone"

\* Of the events under way, and the maps of streamLoop.
CallsAnnounced ==
    /\ IsSeq(coreEvents)
    /\ Announced(coreEvents, DOMAIN outputIndexes)
    /\ \A k \in 1 .. Len(coreEvents) :
          coreEvents[k].type = "argsDone" => coreEvents[k].index \notin reasonIndexes

\* A chat choice: reasoning blocks have indexes up to the current block's, and
\* a call behind it that was announced, in e at the latest, is known.
ChatKnows(s, e, known) ==
    /\ s.hasReasoning => s.reasonIndex = s.blockIndex
    /\ \A j \in 1 .. Len(e) :
          e[j].type = "started" /\ e[j].kind = "reasoning" => e[j].index <= s.blockIndex
    /\ \A i \in s.callStarted : i > s.blockIndex =>
          \/ i \in known
          \/ \E j \in 1 .. Len(e) : StartsAt(e, j, i, "tool_use")

EventTypes == {"started", "textDelta", "argsDelta", "argsDone", "blockDone", "completed"}
BlockKinds == {"", "text", "reasoning", "tool_use"}
CoreEvents == [type : EventTypes, index : Nat, kind : BlockKinds, delta : Seq(Nat)]
Slots == UNION { [D -> Nat] : D \in SUBSET Nat }
ChatStates ==
    [ started : BOOLEAN, blockIndex : Nat, hasReasoning : BOOLEAN, reasonIndex : Nat,
      toolCallIdx : Nat, callStarted : SUBSET Nat, toolCallSlot : Slots, events : Seq(CoreEvents) ]

ChatInv ==
    /\ choice \in ChatStates
    /\ choice.events = <<>>
    /\ source = "chat" =>
          /\ reasonIndexes \subseteq 0 .. choice.blockIndex
          /\ coreEvents \in Seq(CoreEvents)
          /\ ChatKnows(choice, coreEvents, DOMAIN outputIndexes)

\* Before an answer is replayed there is no block.
ReplayInv ==
    source \in {"replay", "visualReplay"} /\ messages = 0 => coreEvents = <<>> /\ reasonIndexes = {}

CallsInv == CallsAnnounced /\ ChatInv /\ ReplayInv

-----------------------------------------------------------------------------
(* Sequences of events.                                                    *)

LEMMA NoEvents == IsSeq(<<>>) /\ Len(<<>>) = 0 /\ Quiet(<<>>)
BY EmptyIsSeq DEF Quiet

LEMMA OneEvent ==
    ASSUME NEW x, x.type # "argsDone"
    PROVE  IsSeq(<<x>>) /\ Quiet(<<x>>)
<1>1. <<x>> \in Seq({x}) /\ Len(<<x>>) = 1 /\ <<x>>[1] = x
  OBVIOUS
<1>2. IsSeq(<<x>>)
  BY <1>1 DEF IsSeq
<1> QED BY <1>1, <1>2 DEF Quiet

LEMMA InOneOfTwo ==
    ASSUME NEW front, NEW back, NEW whole, Joined(front, back, whole), NEW place \in 1 .. Len(whole)
    PROVE  \/ place \in 1 .. Len(front) /\ whole[place] = front[place]
           \/ \E n \in 1 .. Len(back) : place = Len(front) + n /\ whole[place] = back[n]
<1>1. FromOne(front, back, whole, place)
  BY ElementOfBoth, Zenon
<1> QED BY <1>1, Zenon DEF FromOne

\* The same of all its elements.
FromBoth(a, b, ab) == \A k \in 1 .. Len(ab) : FromOne(a, b, ab, k)

LEMMA ElementsOfBoth ==
    ASSUME NEW front, NEW back, NEW whole, Joined(front, back, whole)
    PROVE  FromBoth(front, back, whole)
BY ElementOfBoth, Zenon DEF FromBoth

LEMMA QuietTogether ==
    ASSUME NEW a, NEW b, IsSeq(a), IsSeq(b), Quiet(a), Quiet(b)
    PROVE  IsSeq(a \o b) /\ Quiet(a \o b)
<1>1. IsSeq(a \o b) /\ Joined(a, b, a \o b)
  BY JoinedSeqs
<1>2. ASSUME NEW k \in 1 .. Len(a \o b) PROVE (a \o b)[k].type # "argsDone"
  BY <1>1, InOneOfTwo DEF Quiet
<1> QED BY <1>1, <1>2 DEF Quiet

-----------------------------------------------------------------------------
(* The steps of streamLoop.                                                *)

\* What a step does to the events and to the indexes.
LoopEffect ==
    /\ coreEvents # <<>> /\ coreEvents' = Tail(coreEvents)
    /\ reasonIndexes' \subseteq
          reasonIndexes \cup { i \in {Index} : Event.type = "started" /\ Event.kind = "reasoning" }
    /\ DOMAIN outputIndexes \ reasonIndexes \subseteq DOMAIN outputIndexes'
    /\ Event.type = "started" /\ Event.kind = "tool_use" => Index \in DOMAIN outputIndexes'

LEMMA StreamLoopEffect == ASSUME StreamLoop PROVE LoopEffect
<1> USE DEF LoopEffect, Takes, Event
<1>1. CASE TextStarted
  BY <1>1 DEF TextStarted
<1>2. CASE ReasoningStarted
  BY <1>2 DEF ReasoningStarted, AddItem, Put
<1>3. CASE ToolStarted
  BY <1>3 DEF ToolStarted, AddItem, Put
<1>4. CASE ReasoningDelta \/ FurtherTextDelta \/ ToolCallArgsDelta
  BY <1>4 DEF ReasoningDelta, FurtherTextDelta, ToolCallArgsDelta
<1>5. CASE FirstTextDelta
  BY <1>5 DEF FirstTextDelta, AddItem, Put
<1>6. CASE ToolCallArgsDone \/ ToolCallArgsDoneAgain
  BY <1>6 DEF ToolCallArgsDone, ToolCallArgsDoneAgain
<1>7. CASE ReasoningDone
  BY <1>7 DEF ReasoningDone, ForgetReasoning, Delete
<1>8. CASE TextDone
  <2>1. \E p : outputIndexes' = Put(outputIndexes, Index, p)
    BY <1>8 DEF TextDone
  <2>2. DOMAIN outputIndexes \subseteq DOMAIN outputIndexes'
    BY <2>1 DEF Put
  <2>3. Takes({"blockDone"}) /\ reasonIndexes' = reasonIndexes
    BY <1>8 DEF TextDone
  <2> QED BY <2>2, <2>3
<1>9. CASE ToolDone \/ NothingDone
  BY <1>9 DEF ToolDone, NothingDone
<1>10. CASE ResponseGoesOn \/ ResponseCloses
  BY <1>10 DEF ResponseGoesOn, ResponseCloses
<1> QED BY <1>1, <1>2, <1>3, <1>4, <1>5, <1>6, <1>7, <1>8, <1>9, <1>10 DEF StreamLoop

LEMMA FirstTaken ==
    ASSUME NEW e, IsSeq(e), e # <<>>
    PROVE  /\ IsSeq(Tail(e)) /\ Len(e) \in Nat \ {0} /\ Len(Tail(e)) = Len(e) - 1
           /\ Head(e) = e[1] /\ \A k \in 1 .. Len(e) - 1 : Tail(e)[k] = e[k + 1]
<1>1. PICK S : e \in Seq(S)
  BY DEF IsSeq
<1>2. /\ Tail(e) \in Seq(S) /\ Len(Tail(e)) = Len(e) - 1 /\ Head(e) = e[1]
      /\ \A k \in 1 .. Len(e) - 1 : Tail(e)[k] = e[k + 1]
  BY <1>1, HeadTailProperties
<1>3. Len(e) \in Nat \ {0}
  BY <1>1, EmptySeq, LenProperties
<1> QED BY <1>2, <1>3 DEF IsSeq

LEMMA LoopKeepsAnnounced ==
    ASSUME CallsAnnounced, LoopEffect
    PROVE  CallsAnnounced'
<1> DEFINE e == coreEvents
           left == coreEvents'
<1>1. /\ IsSeq(left) /\ Len(e) \in Nat \ {0} /\ Len(left) = Len(e) - 1
      /\ Event = e[1] /\ \A k \in 1 .. Len(e) - 1 : left[k] = e[k + 1]
  BY FirstTaken DEF CallsAnnounced, LoopEffect, Event
<1>2. ASSUME NEW k \in 1 .. Len(left), left[k].type = "argsDone"
      PROVE  /\ \A j \in 1 .. Len(left) : ~StartsAt(left, j, left[k].index, "reasoning")
             /\ \/ left[k].index \in DOMAIN outputIndexes'
                \/ \E j \in 1 .. Len(left) : j < k /\ StartsAt(left, j, left[k].index, "tool_use")
             /\ left[k].index \notin reasonIndexes'
  <2> DEFINE i == left[k].index
  <2>1. /\ k + 1 \in 1 .. Len(e) /\ e[k + 1].type = "argsDone" /\ e[k + 1].index = i
        /\ 1 \in 1 .. Len(e)
    BY <1>1, <1>2
  <2>2. /\ \A j \in 1 .. Len(e) : ~StartsAt(e, j, i, "reasoning")
        /\ \/ i \in DOMAIN outputIndexes
           \/ \E j \in 1 .. Len(e) : j < k + 1 /\ StartsAt(e, j, i, "tool_use")
        /\ i \notin reasonIndexes
    BY <2>1 DEF CallsAnnounced, Announced
  <2> HIDE DEF i
  <2>3. \A j \in 1 .. Len(left) : ~StartsAt(left, j, i, "reasoning")
    <3> SUFFICES ASSUME NEW j \in 1 .. Len(left), StartsAt(left, j, i, "reasoning") PROVE FALSE
      OBVIOUS
    <3>1. j + 1 \in 1 .. Len(e) /\ left[j] = e[j + 1]
      BY <1>1
    <3> QED BY <2>2, <3>1 DEF StartsAt
  <2>4. i \notin reasonIndexes'
    <3>1. ~StartsAt(e, 1, i, "reasoning")
      BY <2>1, <2>2
    <3> QED BY <1>1, <2>2, <3>1 DEF LoopEffect, StartsAt, Index
  <2>5. \/ i \in DOMAIN outputIndexes'
        \/ \E j \in 1 .. Len(left) : j < k /\ StartsAt(left, j, i, "tool_use")
    <3>1. CASE i \in DOMAIN outputIndexes
      BY <2>2, <3>1 DEF LoopEffect
    <3>2. CASE \E j \in 1 .. Len(e) : j < k + 1 /\ StartsAt(e, j, i, "tool_use")
      <4>1. PICK j \in 1 .. Len(e) : j < k + 1 /\ StartsAt(e, j, i, "tool_use")
        BY <3>2
      <4>2. CASE j = 1
        BY <1>1, <4>1, <4>2 DEF LoopEffect, StartsAt, Index
      <4>3. CASE j # 1
        <5>1. j - 1 \in 1 .. Len(left) /\ j - 1 < k /\ left[j - 1] = e[j]
          BY <1>1, <4>1, <4>3
        <5> QED BY <4>1, <5>1 DEF StartsAt
      <4> QED BY <4>2, <4>3
    <3> QED BY <2>2, <3>1, <3>2
  <2> QED BY <2>3, <2>4, <2>5 DEF i
<1>3. Announced(coreEvents', DOMAIN outputIndexes')
  BY <1>2 DEF Announced
<1> QED BY <1>1, <1>2, <1>3 DEF CallsAnnounced

LEMMA LoopKeepsChat ==
    ASSUME CallsAnnounced, ChatInv, LoopEffect, UNCHANGED <<source, choice>>
    PROVE  ChatInv'
<1> SUFFICES ASSUME source = "chat"
             PROVE  /\ reasonIndexes' \subseteq 0 .. choice.blockIndex
                    /\ coreEvents' \in Seq(CoreEvents)
                    /\ ChatKnows(choice, coreEvents', DOMAIN outputIndexes')
  BY DEF ChatInv
<1> DEFINE e == coreEvents
           left == coreEvents'
<1>1. /\ Len(e) \in Nat \ {0} /\ Len(left) = Len(e) - 1
      /\ Event = e[1] /\ \A k \in 1 .. Len(e) - 1 : left[k] = e[k + 1]
  BY FirstTaken DEF CallsAnnounced, LoopEffect, Event
<1>2. /\ choice.blockIndex \in Nat /\ choice.callStarted \subseteq Nat
      /\ reasonIndexes \subseteq 0 .. choice.blockIndex
      /\ e \in Seq(CoreEvents) /\ ChatKnows(choice, e, DOMAIN outputIndexes)
  BY DEF ChatInv, ChatStates
<1>3. e[1] \in CoreEvents
  <2>1. 1 \in 1 .. Len(e)
    BY <1>1
  <2> QED BY <1>2, <2>1, ElementOfSeq
<1>4. coreEvents' \in Seq(CoreEvents)
  BY <1>2, HeadTailProperties DEF LoopEffect
<1>5. reasonIndexes' \subseteq 0 .. choice.blockIndex
  <2>1. Event.type = "started" /\ Event.kind = "reasoning" => Index <= choice.blockIndex
    BY <1>1, <1>2 DEF ChatKnows, Index
  <2>2. Index \in Nat
    BY <1>1, <1>3 DEF CoreEvents, Index
  <2>3. Event.type = "started" /\ Event.kind = "reasoning" => Index \in 0 .. choice.blockIndex
    BY <1>2, <2>1, <2>2
  <2> QED BY <1>2, <2>3 DEF LoopEffect
<1>6. ASSUME NEW j \in 1 .. Len(left), left[j].type = "started", left[j].kind = "reasoning"
      PROVE  left[j].index <= choice.blockIndex
  <2>1. j + 1 \in 1 .. Len(e) /\ left[j] = e[j + 1]
    BY <1>1
  <2> QED BY <1>2, <1>6, <2>1 DEF ChatKnows
<1>7. ASSUME NEW i \in choice.callStarted, i > choice.blockIndex
      PROVE  \/ i \in DOMAIN outputIndexes'
             \/ \E j \in 1 .. Len(left) : StartsAt(left, j, i, "tool_use")
  <2>1. i \notin reasonIndexes
    BY <1>2, <1>7
  <2>2. CASE i \in DOMAIN outputIndexes
    BY <2>1, <2>2 DEF LoopEffect
  <2>3. CASE \E j \in 1 .. Len(e) : StartsAt(e, j, i, "tool_use")
    <3>1. PICK j \in 1 .. Len(e) : StartsAt(e, j, i, "tool_use")
      BY <2>3
    <3>2. CASE j = 1
      BY <1>1, <3>1, <3>2 DEF LoopEffect, StartsAt, Index
    <3>3. CASE j # 1
      <4>1. j - 1 \in 1 .. Len(left) /\ left[j - 1] = e[j]
        BY <1>1, <3>3
      <4> QED BY <3>1, <4>1 DEF StartsAt
    <3> QED BY <3>2, <3>3
  <2> QED BY <1>2, <1>7, <2>2, <2>3 DEF ChatKnows
<1> QED BY <1>2, <1>4, <1>5, <1>6, <1>7 DEF ChatKnows

-----------------------------------------------------------------------------
(* The converters that complete no call.                                   *)

\* Events that complete no call keep what is announced.
LEMMA QuietIsAnnounced ==
    ASSUME IsSeq(coreEvents'), Quiet(coreEvents')
    PROVE  CallsAnnounced'
BY DEF CallsAnnounced, Announced, Quiet

LEMMA QuietEvent ==
    ASSUME NEW type, type # "argsDone", NEW i, NEW kind, NEW d
    PROVE  IsSeq(<<CoreEvent(type, i, kind, d)>>) /\ Quiet(<<CoreEvent(type, i, kind, d)>>)
<1>1. CoreEvent(type, i, kind, d).type # "argsDone"
  BY DEF CoreEvent
<1> QED BY <1>1, OneEvent

LEMMA AnthropicIsQuiet == ASSUME Anthropic PROVE IsSeq(coreEvents') /\ Quiet(coreEvents')
<1> USE DEF Emits, Delta
<1>1. CASE MessageStart
  <2>1. coreEvents' = <<CoreEvent("created", 0, "", <<>>)>>
    BY <1>1 DEF MessageStart, Lifecycle
  <2> QED BY <2>1, QuietEvent
<1>2. CASE ContentBlockStart
  <2>1. \/ coreEvents' = <<>>
        \/ \E kind : coreEvents' = <<CoreEvent("started", blockIndex, kind, <<>>)>>
    BY <1>2 DEF ContentBlockStart, Started
  <2> QED BY <2>1, QuietEvent, NoEvents
<1>3. CASE TextDeltaOfBlock \/ ThinkingDelta
  <2>1. coreEvents' = <<CoreEvent("textDelta", blockIndex, "", Piece(0))>>
    BY <1>3 DEF TextDeltaOfBlock, ThinkingDelta, TextDelta
  <2> QED BY <2>1, QuietEvent
<1>4. CASE StatusDelta
  BY <1>4, NoEvents DEF StatusDelta
<1>5. CASE SignatureDelta
  <2>1. coreEvents' = <<CoreEvent("textDelta", blockIndex, "", <<>>)>>
    BY <1>5 DEF SignatureDelta, TextDelta
  <2> QED BY <2>1, QuietEvent
<1>6. CASE InputJSONDelta
  <2>1. coreEvents' = <<CoreEvent("argsDelta", blockIndex, "", Piece(0))>>
    BY <1>6 DEF InputJSONDelta, ArgsDelta
  <2> QED BY <2>1, QuietEvent
<1>7. CASE ContentBlockStop
  <2>1. \/ coreEvents' = <<>>
        \/ \E d : coreEvents' = <<CoreEvent("blockDone", blockIndex, "", d)>>
    BY <1>7 DEF ContentBlockStop, BlockDone
  <2> QED BY <2>1, QuietEvent, NoEvents
<1>8. CASE MessageDelta
  <2>1. coreEvents' = <<CoreEvent("in_progress", 0, "", <<>>)>>
    BY <1>8 DEF MessageDelta, Lifecycle
  <2> QED BY <2>1, QuietEvent
<1>9. CASE MessageStop
  <2>1. coreEvents' = <<CoreEvent("completed", 0, "", <<>>)>>
    BY <1>9 DEF MessageStop, Lifecycle
  <2> QED BY <2>1, QuietEvent
<1>10. CASE StreamFails
  <2>1. coreEvents' = <<CoreEvent("failed", 0, "", <<>>)>>
    BY <1>10 DEF StreamFails, Lifecycle
  <2> QED BY <2>1, QuietEvent
<1> QED BY <1>1, <1>2, <1>3, <1>4, <1>5, <1>6, <1>7, <1>8, <1>9, <1>10 DEF Anthropic

LEMMA GoogleIsQuiet == ASSUME GoogleTakes PROVE IsSeq(coreEvents') /\ Quiet(coreEvents')
<1>1. PICK grows \in BOOLEAN, calls \in BOOLEAN, finishes \in BOOLEAN :
          LET current == IF grows THEN candidate.prevText \o Piece(0) ELSE candidate.prevText
              delta == ComputeDelta(candidate.prevText, current)
          IN  coreEvents' = (IF candidate.started THEN <<>> ELSE <<Started(0, "text")>>)
                            \o (IF delta = <<>> THEN <<>> ELSE <<TextDelta(0, delta)>>)
                            \o (IF finishes THEN <<BlockDone(0, <<>>)>> ELSE <<>>)
  BY DEF GoogleTakes, Emits
<1> DEFINE current == IF grows THEN candidate.prevText \o Piece(0) ELSE candidate.prevText
           delta == ComputeDelta(candidate.prevText, current)
           opening == IF candidate.started THEN <<>> ELSE <<Started(0, "text")>>
           piece == IF delta = <<>> THEN <<>> ELSE <<TextDelta(0, delta)>>
           closing == IF finishes THEN <<BlockDone(0, <<>>)>> ELSE <<>>
<1>2. coreEvents' = (opening \o piece) \o closing
  BY <1>1
<1> HIDE DEF delta
<1>3. IsSeq(opening) /\ Quiet(opening)
  BY NoEvents, QuietEvent DEF Started
<1>4. IsSeq(piece) /\ Quiet(piece)
  BY NoEvents, QuietEvent DEF TextDelta
<1>5. IsSeq(closing) /\ Quiet(closing)
  BY NoEvents, QuietEvent DEF BlockDone
<1> HIDE DEF opening, piece, closing
<1>6. IsSeq(opening \o piece) /\ Quiet(opening \o piece)
  BY <1>3, <1>4, QuietTogether
<1> QED BY <1>2, <1>5, <1>6, QuietTogether

LEMMA ClosedIsQuiet ==
    ASSUME ChannelClosed
    PROVE  IsSeq(coreEvents') /\ Quiet(coreEvents') /\ coreEvents' = <<Lifecycle("completed")>>
<1>1. coreEvents' = <<CoreEvent("completed", 0, "", <<>>)>>
  BY DEF ChannelClosed, Emits, Lifecycle
<1> QED BY <1>1, QuietEvent DEF Lifecycle

-----------------------------------------------------------------------------
(* The replay of a whole answer.                                           *)

WholeBlocks == [type : {"text", "reasoning", "tool_use"}, text : Seq(Nat), signature : Seq(Nat)]

LEMMA WholeTyped ==
    ASSUME NEW outlines \in Seq(Outlines)
    PROVE  Whole(outlines) \in Seq(WholeBlocks)
<1>1. outlines \in [1 .. Len(outlines) -> Outlines] /\ Len(outlines) \in Nat
  BY LenProperties
<1>2. ASSUME NEW i \in 1 .. Len(outlines)
      PROVE  [ type |-> outlines[i].type,
               text |-> IF outlines[i].empty THEN <<>> ELSE <<i>>,
               signature |-> IF outlines[i].type = "reasoning" THEN <<i>> ELSE <<>> ] \in WholeBlocks
  <2>1. outlines[i].type \in {"text", "reasoning", "tool_use"} /\ i \in Nat
    BY <1>1 DEF Outlines
  <2>2. <<i>> \in Seq(Nat) /\ <<>> \in Seq(Nat)
    BY <2>1
  <2> QED BY <2>1, <2>2 DEF WholeBlocks
<1>3. Whole(outlines) \in [1 .. Len(outlines) -> WholeBlocks]
  BY <1>1, <1>2 DEF Whole
<1> QED BY <1>1, <1>3

\* f is the function that Replayed(blocks) chooses.
IsReplay(f, m, blocks) ==
    f = [n \in 0 .. m |->
            IF n = 0 THEN <<>> ELSE f[n - 1] \o ReplayedBlock(blocks[n], n)]

\* Every call that is completed in e is that of a block and starts before; only
\* reasoning blocks start as such.
OfBlocks(e, blocks, n) ==
    \A k \in 1 .. Len(e) :
        /\ e[k].type = "argsDone" =>
              /\ e[k].index \in 1 .. n /\ blocks[e[k].index].type = "tool_use"
              /\ \E j \in 1 .. Len(e) : j < k /\ StartsAt(e, j, e[k].index, "tool_use")
        /\ e[k].type = "started" /\ e[k].kind = "reasoning" =>
              e[k].index \in 1 .. n /\ blocks[e[k].index].type = "reasoning"

LEMMA SingleElement == ASSUME NEW S, NEW x \in S PROVE <<x>> \in Seq(S)
OBVIOUS

LEMMA BlockReplayed ==
    ASSUME NEW b \in WholeBlocks, NEW i \in Nat
    PROVE  LET e == ReplayedBlock(b, i)
           IN  /\ e \in Seq(CoreEvents)
               /\ \A k \in 1 .. Len(e) :
                     /\ e[k].type = "argsDone" =>
                           /\ e[k].index = i /\ b.type = "tool_use"
                           /\ \E j \in 1 .. Len(e) : j < k /\ StartsAt(e, j, i, "tool_use")
                     /\ e[k].type = "started" /\ e[k].kind = "reasoning" =>
                           e[k].index = i /\ b.type = "reasoning"
<1> DEFINE e == ReplayedBlock(b, i)
           start == Started(i, b.type)
           delta == TextDelta(i, b.text)
           done == BlockDone(i, b.signature)
           args == ArgsDone(i, b.text)
           end == BlockDone(i, <<>>)
<1>1. b.text \in Seq(Nat) /\ b.signature \in Seq(Nat) /\ <<>> \in Seq(Nat)
  BY DEF WholeBlocks
<1>2. b.type \in {"text", "reasoning", "tool_use"}
  BY DEF WholeBlocks
<1>3. start \in CoreEvents /\ start.type = "started" /\ start.index = i /\ start.kind = b.type
  <2>1. "started" \in EventTypes /\ b.type \in BlockKinds
    BY <1>2 DEF EventTypes, BlockKinds
  <2> QED BY <1>1, <2>1 DEF Started, CoreEvent, CoreEvents
<1>3a. delta \in CoreEvents /\ delta.type = "textDelta"
  <2>1. "textDelta" \in EventTypes /\ "" \in BlockKinds
    BY DEF EventTypes, BlockKinds
  <2> QED BY <1>1, <2>1 DEF TextDelta, CoreEvent, CoreEvents
<1>3b. done \in CoreEvents /\ done.type = "blockDone"
  <2>1. "blockDone" \in EventTypes /\ "" \in BlockKinds
    BY DEF EventTypes, BlockKinds
  <2> QED BY <1>1, <2>1 DEF BlockDone, CoreEvent, CoreEvents
<1>3c. args \in CoreEvents /\ args.type = "argsDone" /\ args.index = i
  <2>1. "argsDone" \in EventTypes /\ "" \in BlockKinds
    BY DEF EventTypes, BlockKinds
  <2> QED BY <1>1, <2>1 DEF ArgsDone, CoreEvent, CoreEvents
<1>3d. end \in CoreEvents /\ end.type = "blockDone"
  <2>1. "blockDone" \in EventTypes /\ "" \in BlockKinds
    BY DEF EventTypes, BlockKinds
  <2> QED BY <1>1, <2>1 DEF BlockDone, CoreEvent, CoreEvents
<1>4. e = IF b.type = "tool_use" THEN <<start, args, end>>
          ELSE <<start>> \o (IF b.text = <<>> THEN <<>> ELSE <<delta>>) \o <<done>>
  BY DEF ReplayedBlock
<1> HIDE DEF e, start, delta, done, args, end
<1>5. CASE b.type = "tool_use"
  <2>1. e = <<start, args, end>>
    BY <1>4, <1>5
  <2>2. e \in Seq(CoreEvents) /\ Len(e) = 3 /\ e[1] = start /\ e[2] = args /\ e[3] = end
    BY <2>1, <1>3, <1>3c, <1>3d
  <2>3. StartsAt(e, 1, i, "tool_use")
    BY <2>2, <1>3, <1>5 DEF StartsAt
  <2>4. 1 .. Len(e) = {1, 2, 3}
    BY <2>2
  <2>5. ASSUME NEW k \in 1 .. Len(e)
        PROVE  /\ e[k].type = "argsDone" =>
                     /\ e[k].index = i /\ b.type = "tool_use"
                     /\ \E j \in 1 .. Len(e) : j < k /\ StartsAt(e, j, i, "tool_use")
               /\ e[k].type = "started" /\ e[k].kind = "reasoning" =>
                     e[k].index = i /\ b.type = "reasoning"
    BY <2>2, <2>3, <2>4, <1>3, <1>3c, <1>3d, <1>5
  <2> QED BY <2>2, <2>5 DEF e
<1>6. CASE b.type # "tool_use"
  <2>1. e = <<start>> \o (IF b.text = <<>> THEN <<>> ELSE <<delta>>) \o <<done>>
    BY <1>4, <1>6
  <2> DEFINE S == {start, delta, done}
             middle == IF b.text = <<>> THEN <<>> ELSE <<delta>>
  <2>2. <<start>> \in Seq(S) /\ middle \in Seq(S) /\ <<done>> \in Seq(S)
    <3>1. start \in S /\ delta \in S /\ done \in S /\ <<>> \in Seq(S)
      OBVIOUS
    <3> HIDE DEF S
    <3> QED BY <3>1, SingleElement
  <2>3. \A x \in S : x \in CoreEvents /\ x.type # "argsDone"
                    /\ (x.type = "started" => x.kind = b.type /\ x.index = i)
    BY <1>3, <1>3a, <1>3b
  <2> HIDE DEF S, middle
  <2>4. <<start>> \o middle \in Seq(S)
    BY <2>2, ConcatProperties
  <2>5. (<<start>> \o middle) \o <<done>> \in Seq(S)
    BY <2>2, <2>4, ConcatProperties
  <2>6. e \in Seq(S)
    BY <2>1, <2>5 DEF middle
  <2>7. e \in Seq(CoreEvents)
    <3>1. S \subseteq CoreEvents
      BY <2>3
    <3> QED BY <2>6, <3>1, SeqMonotonic
  <2>8. \A k \in 1 .. Len(e) : e[k] \in S
    BY <2>6, ElementOfSeq
  <2> QED BY <2>3, <2>7, <2>8 DEF e
<1> QED BY <1>5, <1>6

LEMMA ReplayExists ==
    ASSUME NEW blocks, NEW m \in Nat
    PROVE  \E f : IsReplay(f, m, blocks)
<1> DEFINE Good == { k \in Nat : \E f : IsReplay(f, k, blocks) }
<1>1. 0 \in Good
  <2> DEFINE f == [n \in 0 .. 0 |-> <<>>]
  <2>1. f = [n \in 0 .. 0 |-> IF n = 0 THEN <<>> ELSE f[n - 1] \o ReplayedBlock(blocks[n], n)]
    OBVIOUS
  <2> HIDE DEF f
  <2> QED BY <2>1 DEF IsReplay
<1>2. ASSUME NEW k \in 1 .. m, k - 1 \in Good PROVE k \in Good
  <2>0. k \in Nat /\ k # 0
    BY <1>2
  <2>1. PICK f : IsReplay(f, k - 1, blocks)
    BY <1>2
  <2>2. PICK g : IsLonger(g, f, k, f[k - 1] \o ReplayedBlock(blocks[k], k))
    BY <2>0, Longer, Zenon
  <2>3. \A n \in 0 .. k - 1 : f[n] = IF n = 0 THEN <<>> ELSE f[n - 1] \o ReplayedBlock(blocks[n], n)
    BY <2>1, Zenon DEF IsReplay
  <2>4. \A n \in 0 .. k : g[n] = IF n = 0 THEN <<>> ELSE g[n - 1] \o ReplayedBlock(blocks[n], n)
    BY <2>2, <2>3 DEF IsLonger
  <2>5. g = [n \in 0 .. k |-> IF n = 0 THEN <<>> ELSE g[n - 1] \o ReplayedBlock(blocks[n], n)]
    BY <2>2, <2>4 DEF IsLonger
  <2> QED BY <2>0, <2>5, Zenon DEF IsReplay
<1>3. m \in Good
  <2> HIDE DEF Good
  <2> QED BY <1>1, <1>2, InductionUpTo
<1> QED BY <1>3

LEMMA ReplayOfBlocks ==
    ASSUME NEW blocks \in Seq(WholeBlocks)
    PROVE  Replayed(blocks) \in Seq(CoreEvents) /\ OfBlocks(Replayed(blocks), blocks, Len(blocks))
<1> DEFINE m == Len(blocks)
           f == CHOOSE f : IsReplay(f, Len(blocks), blocks)
           Good == { n \in Nat : f[n] \in Seq(CoreEvents) /\ OfBlocks(f[n], blocks, n) }
<1>0. m \in Nat
  BY LenProperties
<1>1. IsReplay(f, Len(blocks), blocks)
  BY <1>0, ReplayExists
<1>2. Replayed(blocks) = f[m]
  BY DEF Replayed, IsReplay
<1> HIDE DEF f
<1>3. f[0] = <<>>
  BY <1>0, <1>1 DEF IsReplay
<1>4. ASSUME NEW n \in 1 .. m PROVE f[n] = f[n - 1] \o ReplayedBlock(blocks[n], n)
  <2>1. n \in 0 .. Len(blocks) /\ n # 0
    BY <1>0
  <2> QED BY <1>1, <2>1, Zenon DEF IsReplay
<1>5. 0 \in Good
  <2>1. f[0] \in Seq(CoreEvents) /\ Len(f[0]) = 0
    BY <1>3
  <2> QED BY <2>1 DEF OfBlocks
<1>6. ASSUME NEW n \in 1 .. m, n - 1 \in Good PROVE n \in Good
  <2> DEFINE a == f[n - 1]
             b == ReplayedBlock(blocks[n], n)
             ab == f[n]
  <2>1. a \in Seq(CoreEvents) /\ OfBlocks(a, blocks, n - 1) /\ n \in Nat
    BY <1>0, <1>6
  <2>2. /\ b \in Seq(CoreEvents)
        /\ \A k \in 1 .. Len(b) :
              /\ b[k].type = "argsDone" =>
                    /\ b[k].index = n /\ blocks[n].type = "tool_use"
                    /\ \E j \in 1 .. Len(b) : j < k /\ StartsAt(b, j, n, "tool_use")
              /\ b[k].type = "started" /\ b[k].kind = "reasoning" =>
                    b[k].index = n /\ blocks[n].type = "reasoning"
    <3>1. blocks[n] \in WholeBlocks
      BY ElementOfSeq
    <3> QED BY <2>1, <3>1, BlockReplayed, SMTT(30)
  <2>3. ab = a \o b
    BY <1>4
  <2> HIDE DEF a, b, ab
  <2>4. ab \in Seq(CoreEvents) /\ Joined(a, b, ab)
    BY <2>1, <2>2, <2>3, JoinedTyped
  <2>5. ASSUME NEW k \in 1 .. Len(ab)
        PROVE  /\ ab[k].type = "argsDone" =>
                     /\ ab[k].index \in 1 .. n /\ blocks[ab[k].index].type = "tool_use"
                     /\ \E j \in 1 .. Len(ab) : j < k /\ StartsAt(ab, j, ab[k].index, "tool_use")
               /\ ab[k].type = "started" /\ ab[k].kind = "reasoning" =>
                     ab[k].index \in 1 .. n /\ blocks[ab[k].index].type = "reasoning"
    <3>1. CASE k \in 1 .. Len(a) /\ ab[k] = a[k]
      <4>1. 1 .. n - 1 \subseteq 1 .. n
        BY <2>1
      <4>2. ASSUME NEW j \in 1 .. Len(a), NEW i, StartsAt(a, j, i, "tool_use")
            PROVE  j \in 1 .. Len(ab) /\ StartsAt(ab, j, i, "tool_use")
        BY <2>4, <4>2 DEF Joined, StartsAt
      <4> QED BY <2>1, <3>1, <4>1, <4>2 DEF OfBlocks
    <3>2. ASSUME NEW l \in 1 .. Len(b), k = Len(a) + l, ab[k] = b[l]
          PROVE  /\ ab[k].type = "argsDone" =>
                       /\ ab[k].index \in 1 .. n /\ blocks[ab[k].index].type = "tool_use"
                       /\ \E j \in 1 .. Len(ab) : j < k /\ StartsAt(ab, j, ab[k].index, "tool_use")
                 /\ ab[k].type = "started" /\ ab[k].kind = "reasoning" =>
                       ab[k].index \in 1 .. n /\ blocks[ab[k].index].type = "reasoning"
      <4>1. n \in 1 .. n
        BY <2>1
      <4>2. ASSUME NEW j \in 1 .. Len(b), j < l, StartsAt(b, j, n, "tool_use")
            PROVE  Len(a) + j \in 1 .. Len(ab) /\ Len(a) + j < k /\ StartsAt(ab, Len(a) + j, n, "tool_use")
        BY <2>4, <3>2, <4>2 DEF Joined, StartsAt
      <4> QED BY <2>2, <3>2, <4>1, <4>2
    <3> QED BY <2>4, <3>1, <3>2, InOneOfTwo
  <2>6. OfBlocks(ab, blocks, n)
    BY <2>5 DEF OfBlocks
  <2> QED BY <2>1, <2>4, <2>6 DEF ab
<1>7. m \in Good
  <2> HIDE DEF Good
  <2> QED BY <1>0, <1>5, <1>6, InductionUpTo
<1> QED BY <1>2, <1>7

\* f is the function that WithoutCalls(blocks) chooses.
IsFiltered(f, m, blocks) ==
    f = [n \in 0 .. m |->
            IF n = 0 THEN <<>>
            ELSE IF NoToolUse(blocks[n]) THEN Append(f[n - 1], blocks[n]) ELSE f[n - 1]]

LEMMA FilteredExists ==
    ASSUME NEW blocks, NEW m \in Nat
    PROVE  \E f : IsFiltered(f, m, blocks)
<1> DEFINE Good == { k \in Nat : \E f : IsFiltered(f, k, blocks) }
<1>1. 0 \in Good
  <2> DEFINE f == [n \in 0 .. 0 |-> <<>>]
  <2>1. f = [n \in 0 .. 0 |-> IF n = 0 THEN <<>> ELSE IF NoToolUse(blocks[n]) THEN Append(f[n - 1], blocks[n]) ELSE f[n - 1]]
    OBVIOUS
  <2> HIDE DEF f
  <2> QED BY <2>1 DEF IsFiltered
<1>2. ASSUME NEW k \in 1 .. m, k - 1 \in Good PROVE k \in Good
  <2>0. k \in Nat /\ k # 0
    BY <1>2
  <2>1. PICK f : IsFiltered(f, k - 1, blocks)
    BY <1>2
  <2>2. PICK g : IsLonger(g, f, k, IF NoToolUse(blocks[k]) THEN Append(f[k - 1], blocks[k]) ELSE f[k - 1])
    BY <2>0, Longer, Zenon
  <2>3. \A n \in 0 .. k - 1 : f[n] = IF n = 0 THEN <<>> ELSE IF NoToolUse(blocks[n]) THEN Append(f[n - 1], blocks[n]) ELSE f[n - 1]
    BY <2>1, Zenon DEF IsFiltered
  <2>4. \A n \in 0 .. k : g[n] = IF n = 0 THEN <<>> ELSE IF NoToolUse(blocks[n]) THEN Append(g[n - 1], blocks[n]) ELSE g[n - 1]
    BY <2>2, <2>3 DEF IsLonger
  <2>5. g = [n \in 0 .. k |-> IF n = 0 THEN <<>> ELSE IF NoToolUse(blocks[n]) THEN Append(g[n - 1], blocks[n]) ELSE g[n - 1]]
    BY <2>2, <2>4 DEF IsLonger
  <2> QED BY <2>0, <2>5, Zenon DEF IsFiltered
<1>3. m \in Good
  <2> HIDE DEF Good
  <2> QED BY <1>1, <1>2, InductionUpTo
<1> QED BY <1>3

LEMMA FilteredHasNoCalls ==
    ASSUME NEW blocks \in Seq(WholeBlocks)
    PROVE  WithoutCalls(blocks) \in Seq({ b \in WholeBlocks : NoToolUse(b) })
<1> DEFINE m == Len(blocks)
           Quieter == { b \in WholeBlocks : NoToolUse(b) }
           f == CHOOSE f : IsFiltered(f, Len(blocks), blocks)
           Good == { n \in Nat : f[n] \in Seq(Quieter) }
<1>0. m \in Nat
  BY LenProperties
<1>1. IsFiltered(f, Len(blocks), blocks)
  BY <1>0, FilteredExists
<1>2. WithoutCalls(blocks) = f[m]
  BY DEF WithoutCalls, IsFiltered
<1> HIDE DEF f
<1>3. f[0] = <<>>
  BY <1>0, <1>1 DEF IsFiltered
<1>4. ASSUME NEW n \in 1 .. m
      PROVE  f[n] = IF NoToolUse(blocks[n]) THEN Append(f[n - 1], blocks[n]) ELSE f[n - 1]
  <2>1. n \in 0 .. Len(blocks) /\ n # 0
    BY <1>0
  <2> QED BY <1>1, <2>1, Zenon DEF IsFiltered
<1>5. 0 \in Good
  <2>1. <<>> \in Seq(Quieter)
    OBVIOUS
  <2> QED BY <1>3, <2>1
<1>6. ASSUME NEW n \in 1 .. m, n - 1 \in Good PROVE n \in Good
  <2>1. n \in Nat /\ f[n - 1] \in Seq(Quieter)
    BY <1>0, <1>6
  <2>2. NoToolUse(blocks[n]) => blocks[n] \in Quieter
    BY ElementOfSeq
  <2> HIDE DEF Quieter
  <2>3. NoToolUse(blocks[n]) => Append(f[n - 1], blocks[n]) \in Seq(Quieter)
    BY <2>1, <2>2, AppendProperties
  <2> QED BY <1>4, <2>1, <2>3
<1>7. m \in Good
  <2> HIDE DEF Good
  <2> QED BY <1>0, <1>5, <1>6, InductionUpTo
<1> QED BY <1>2, <1>7

\* Events that neither start a block nor complete a call.
Plain(e) == \A k \in 1 .. Len(e) : e[k].type \notin {"argsDone", "started"}

LEMMA PlainAround ==
    ASSUME NEW a, NEW b, NEW known, IsSeq(a), IsSeq(b),
           Announced(a, known), Announced(b, known), Plain(a) \/ Plain(b)
    PROVE  IsSeq(a \o b) /\ Announced(a \o b, known)
<1> DEFINE ab == a \o b
<1>1. IsSeq(ab) /\ Joined(a, b, ab)
  BY JoinedSeqs
<1> HIDE DEF ab
<1>2. ASSUME NEW k \in 1 .. Len(a), a[k].type = "argsDone"
      PROVE  /\ \A j \in 1 .. Len(ab) : ~StartsAt(ab, j, a[k].index, "reasoning")
             /\ \/ a[k].index \in known
                \/ \E j \in 1 .. Len(ab) : j < k /\ StartsAt(ab, j, a[k].index, "tool_use")
  <2>1. /\ \A j \in 1 .. Len(a) : ~StartsAt(a, j, a[k].index, "reasoning")
        /\ \/ a[k].index \in known
           \/ \E j \in 1 .. Len(a) : j < k /\ StartsAt(a, j, a[k].index, "tool_use")
        /\ Plain(b)
    BY <1>2 DEF Announced, Plain
  <2>2. ASSUME NEW j \in 1 .. Len(ab), StartsAt(ab, j, a[k].index, "reasoning") PROVE FALSE
    <3>1. \/ j \in 1 .. Len(a) /\ ab[j] = a[j]
          \/ \E l \in 1 .. Len(b) : j = Len(a) + l /\ ab[j] = b[l]
      BY <1>1, InOneOfTwo
    <3> QED BY <2>1, <2>2, <3>1 DEF Plain, StartsAt
  <2>3. ASSUME NEW j \in 1 .. Len(a), StartsAt(a, j, a[k].index, "tool_use")
        PROVE  j \in 1 .. Len(ab) /\ StartsAt(ab, j, a[k].index, "tool_use")
    BY <1>1, <2>3 DEF Joined, StartsAt
  <2> QED BY <2>1, <2>2, <2>3
<1>3. ASSUME NEW k \in 1 .. Len(b), b[k].type = "argsDone"
      PROVE  /\ \A j \in 1 .. Len(ab) : ~StartsAt(ab, j, b[k].index, "reasoning")
             /\ \/ b[k].index \in known
                \/ \E j \in 1 .. Len(ab) : j < Len(a) + k /\ StartsAt(ab, j, b[k].index, "tool_use")
  <2>1. /\ \A j \in 1 .. Len(b) : ~StartsAt(b, j, b[k].index, "reasoning")
        /\ \/ b[k].index \in known
           \/ \E j \in 1 .. Len(b) : j < k /\ StartsAt(b, j, b[k].index, "tool_use")
        /\ Plain(a)
    BY <1>3 DEF Announced, Plain
  <2>2. ASSUME NEW j \in 1 .. Len(ab), StartsAt(ab, j, b[k].index, "reasoning") PROVE FALSE
    <3>1. \/ j \in 1 .. Len(a) /\ ab[j] = a[j]
          \/ \E l \in 1 .. Len(b) : j = Len(a) + l /\ ab[j] = b[l]
      BY <1>1, InOneOfTwo
    <3> QED BY <2>1, <2>2, <3>1 DEF Plain, StartsAt
  <2>3. ASSUME NEW j \in 1 .. Len(b), j < k, StartsAt(b, j, b[k].index, "tool_use")
        PROVE  /\ Len(a) + j \in 1 .. Len(ab) /\ Len(a) + j < Len(a) + k
               /\ StartsAt(ab, Len(a) + j, b[k].index, "tool_use")
    BY <1>1, <2>3 DEF Joined, StartsAt
  <2> QED BY <2>1, <2>2, <2>3
<1>4. Announced(ab, known)
  <2> SUFFICES ASSUME NEW k \in 1 .. Len(ab), ab[k].type = "argsDone"
               PROVE  /\ \A j \in 1 .. Len(ab) : ~StartsAt(ab, j, ab[k].index, "reasoning")
                      /\ \/ ab[k].index \in known
                         \/ \E j \in 1 .. Len(ab) : j < k /\ StartsAt(ab, j, ab[k].index, "tool_use")
    BY DEF Announced
  <2>1. \/ k \in 1 .. Len(a) /\ ab[k] = a[k]
        \/ \E l \in 1 .. Len(b) : k = Len(a) + l /\ ab[k] = b[l]
    BY <1>1, InOneOfTwo
  <2>2. CASE k \in 1 .. Len(a) /\ ab[k] = a[k]
    BY <1>2, <2>2
  <2>3. CASE \E l \in 1 .. Len(b) : k = Len(a) + l /\ ab[k] = b[l]
    BY <1>3, <2>3
  <2> QED BY <2>1, <2>2, <2>3
<1> QED BY <1>1, <1>4 DEF ab

LEMMA ReplayIsAnnounced ==
    ASSUME NEW blocks \in Seq(WholeBlocks), NEW known
    PROVE  IsSeq(Replayed(blocks)) /\ Announced(Replayed(blocks), known)
<1> DEFINE e == Replayed(blocks)
<1>1. e \in Seq(CoreEvents) /\ OfBlocks(e, blocks, Len(blocks))
  BY ReplayOfBlocks
<1> HIDE DEF e
<1>2. Announced(e, known)
  BY <1>1 DEF OfBlocks, Announced, StartsAt
<1> QED BY <1>1, <1>2 DEF IsSeq, e

LEMMA PlainEvent ==
    ASSUME NEW type \in {"created", "in_progress", "completed", "incomplete", "failed"}, NEW known
    PROVE  /\ IsSeq(<<Lifecycle(type)>>)
           /\ Announced(<<Lifecycle(type)>>, known)
           /\ Plain(<<Lifecycle(type)>>)
<1> DEFINE x == Lifecycle(type)
<1>1. x.type = type
  BY DEF Lifecycle, CoreEvent
<1> HIDE DEF x
<1>2. IsSeq(<<x>>) /\ Quiet(<<x>>)
  BY <1>1, OneEvent
<1>3. Len(<<x>>) = 1 /\ <<x>>[1] = x
  OBVIOUS
<1>4. Plain(<<x>>) /\ Announced(<<x>>, known)
  BY <1>1, <1>3 DEF Plain, Announced
<1> QED BY <1>2, <1>4 DEF x

LEMMA ReplayKeepsAnnounced ==
    ASSUME ReplayWhole, ReplayInv
    PROVE  CallsAnnounced'
<1>1. /\ source \in {"replay", "visualReplay"} /\ messages = 0
      /\ UNCHANGED <<outputIndexes, reasonIndexes>>
  BY DEF ReplayWhole, Converts
<1>2. PICK outlines \in BoundedSeq(Outlines, MaxBlocks),
           status \in {"completed", "incomplete", "failed"} :
         LET blocks == Whole(outlines)
         IN
         coreEvents' = IF source = "replay"
                       THEN <<Lifecycle("created"), Lifecycle("in_progress")>> \o Replayed(blocks)
                            \o <<Lifecycle(status)>>
                       ELSE <<Lifecycle("created")>> \o Replayed(WithoutCalls(blocks))
                            \o <<Lifecycle(status)>>
  BY DEF ReplayWhole, Emits
<1> DEFINE blocks == Whole(outlines)
<1>3. blocks \in Seq(WholeBlocks)
  <2>1. outlines \in Seq(Outlines)
    BY BoundsAssumption DEF BoundsAssumption, BoundedSeq, SeqOf
  <2> QED BY <2>1, WholeTyped
<1> DEFINE known == DOMAIN outputIndexes
           shown == IF source = "replay" THEN blocks ELSE WithoutCalls(blocks)
           begin == IF source = "replay" THEN <<Lifecycle("created"), Lifecycle("in_progress")>>
                    ELSE <<Lifecycle("created")>>
           e == Replayed(shown)
<1>4. shown \in Seq(WholeBlocks)
  <2>1. { b \in WholeBlocks : NoToolUse(b) } \subseteq WholeBlocks
    OBVIOUS
  <2>2. WithoutCalls(blocks) \in Seq(WholeBlocks)
    BY <1>3, <2>1, FilteredHasNoCalls, SeqMonotonic
  <2> QED BY <1>3, <2>2
<1>5. coreEvents' = (begin \o e) \o <<Lifecycle(status)>>
  BY <1>2
<1>6. IsSeq(begin) /\ Announced(begin, known) /\ Plain(begin)
  <2> DEFINE one == <<Lifecycle("created")>>
             two == <<Lifecycle("in_progress")>>
  <2>1. IsSeq(one) /\ Announced(one, known) /\ Plain(one)
    BY PlainEvent
  <2>2. IsSeq(two) /\ Announced(two, known) /\ Plain(two)
    BY PlainEvent
  <2>3. begin = one \/ begin = one \o two
    OBVIOUS
  <2> HIDE DEF one, two, begin, known
  <2>4. IsSeq(one \o two) /\ Announced(one \o two, known) /\ Joined(one, two, one \o two)
    BY <2>1, <2>2, PlainAround, JoinedSeqs
  <2>5. Plain(one \o two)
    BY <2>1, <2>2, <2>4, InOneOfTwo DEF Plain
  <2> QED BY <2>1, <2>3, <2>4, <2>5
<1>7. IsSeq(e) /\ Announced(e, known)
  <2> HIDE DEF shown, known
  <2> QED BY <1>4, ReplayIsAnnounced
<1>8. /\ IsSeq(<<Lifecycle(status)>>) /\ Announced(<<Lifecycle(status)>>, known)
      /\ Plain(<<Lifecycle(status)>>)
  BY PlainEvent
<1> HIDE DEF begin, e, shown, known
<1>9. IsSeq(begin \o e) /\ Announced(begin \o e, known)
  BY <1>6, <1>7, PlainAround
<1>10. IsSeq(coreEvents') /\ Announced(coreEvents', known)
  BY <1>5, <1>8, <1>9, PlainAround
<1>11. reasonIndexes' = {}
  BY <1>1 DEF ReplayInv
<1> QED BY <1>1, <1>10, <1>11 DEF CallsAnnounced, known

-----------------------------------------------------------------------------
(* The conversion of a chunk of the chat protocol.                         *)

Known == DOMAIN outputIndexes
Fragments == [call : Nat, named : BOOLEAN, args : BOOLEAN]

\* While a chunk is converted.
ChatGood(s) ==
    /\ s \in ChatStates
    /\ Quiet(s.events)
    /\ ChatKnows(s, s.events, Known)
    /\ choice.blockIndex \in 0 .. s.blockIndex

LEMMA NewChoiceTyped == NewChoice \in ChatStates /\ NewChoice.events = <<>>
<1>1. <<>> \in Slots
  <2>1. <<>> \in [{} -> Nat] /\ {} \in SUBSET Nat
    OBVIOUS
  <2> QED BY <2>1 DEF Slots
<1>2. <<>> \in Seq(CoreEvents)
  OBVIOUS
<1> QED BY <1>1, <1>2 DEF NewChoice, ChatStates

LEMMA SlotPut ==
    ASSUME NEW f \in Slots, NEW i \in Nat, NEW v \in Nat
    PROVE  Put(f, i, v) \in Slots
<1>1. PICK D \in SUBSET Nat : f \in [D -> Nat]
  BY DEF Slots
<1>2. Put(f, i, v) \in [D \cup {i} -> Nat]
  BY <1>1 DEF Put
<1>3. D \cup {i} \in SUBSET Nat
  OBVIOUS
<1> QED BY <1>2, <1>3 DEF Slots

LEMMA SlotTyped == ASSUME NEW f \in Slots, NEW i \in DOMAIN f PROVE f[i] \in Nat
BY DEF Slots

\* The choice moves on to another block.
LEMMA MovedOn ==
    ASSUME NEW s, ChatGood(s), NEW r \in ChatStates,
           r.events = s.events, r.callStarted = s.callStarted, s.blockIndex <= r.blockIndex,
           r.hasReasoning => r.reasonIndex = r.blockIndex
    PROVE  ChatGood(r)
<1>1. /\ s.blockIndex \in Nat /\ r.blockIndex \in Nat /\ s.callStarted \subseteq Nat
      /\ choice.blockIndex \in 0 .. s.blockIndex
      /\ s.events \in Seq(CoreEvents)
  BY DEF ChatGood, ChatStates
<1>2. \A j \in 1 .. Len(s.events) : s.events[j].index \in Nat
  <2>1. \A j \in 1 .. Len(s.events) : s.events[j] \in CoreEvents
    BY <1>1, ElementOfSeq
  <2> QED BY <2>1 DEF CoreEvents
<1>3. ASSUME NEW j \in 1 .. Len(r.events), r.events[j].type = "started", r.events[j].kind = "reasoning"
      PROVE  r.events[j].index <= r.blockIndex
  <2>1. r.events[j].index <= s.blockIndex /\ r.events[j].index \in Nat
    BY <1>2, <1>3 DEF ChatGood, ChatKnows
  <2> QED BY <1>1, <2>1
<1>4. ASSUME NEW i \in r.callStarted, i > r.blockIndex
      PROVE  i \in Known \/ \E j \in 1 .. Len(r.events) : StartsAt(r.events, j, i, "tool_use")
  <2>1. i \in s.callStarted /\ i > s.blockIndex
    BY <1>1, <1>4
  <2> QED BY <2>1 DEF ChatGood, ChatKnows
<1>5. choice.blockIndex \in 0 .. r.blockIndex
  BY <1>1
<1>6. Quiet(r.events)
  BY DEF ChatGood
<1> QED BY <1>3, <1>4, <1>5, <1>6 DEF ChatGood, ChatKnows

LEMMA EmittedTyped ==
    ASSUME NEW s \in ChatStates, NEW new \in Seq(CoreEvents)
    PROVE  /\ Emitting(s, new) \in ChatStates
           /\ Emitting(s, new).events = s.events \o new
           /\ Joined(s.events, new, s.events \o new)
           /\ Emitting(s, new).callStarted = s.callStarted
           /\ Emitting(s, new).blockIndex = s.blockIndex
           /\ Emitting(s, new).hasReasoning = s.hasReasoning
           /\ Emitting(s, new).reasonIndex = s.reasonIndex
<1>1. s.events \in Seq(CoreEvents)
  BY DEF ChatStates
<1>2. s.events \o new \in Seq(CoreEvents) /\ Joined(s.events, new, s.events \o new)
  BY <1>1, JoinedTyped
<1>3. Emitting(s, new) \in ChatStates
  BY <1>2 DEF Emitting, ChatStates
<1>4. /\ Emitting(s, new).events = s.events \o new
      /\ Emitting(s, new).callStarted = s.callStarted
      /\ Emitting(s, new).blockIndex = s.blockIndex
      /\ Emitting(s, new).hasReasoning = s.hasReasoning
      /\ Emitting(s, new).reasonIndex = s.reasonIndex
  BY DEF Emitting, ChatStates
<1> QED BY <1>2, <1>3, <1>4

\* An event other than the end of a call is emitted.
LEMMA EmittedKeeps ==
    ASSUME NEW s, ChatGood(s), NEW x \in CoreEvents, x.type # "argsDone",
           x.type = "started" /\ x.kind = "reasoning" => x.index <= s.blockIndex
    PROVE  ChatGood(Emitting(s, <<x>>))
<1> DEFINE new == <<x>>
           r == Emitting(s, new)
           all == s.events \o new
<1>0. new \in Seq(CoreEvents) /\ Len(new) = 1 /\ new[1] = x
  OBVIOUS
<1> HIDE DEF new
<1>1. /\ r \in ChatStates /\ r.events = all /\ Joined(s.events, new, all)
      /\ r.callStarted = s.callStarted /\ r.blockIndex = s.blockIndex
      /\ r.hasReasoning = s.hasReasoning /\ r.reasonIndex = s.reasonIndex
  BY <1>0, EmittedTyped DEF ChatGood
<1> HIDE DEF r, all
<1>2. ASSUME NEW k \in 1 .. Len(all)
      PROVE  (k \in 1 .. Len(s.events) /\ all[k] = s.events[k]) \/ all[k] = x
  <2>1. \/ k \in 1 .. Len(s.events) /\ all[k] = s.events[k]
        \/ \E l \in 1 .. Len(new) : k = Len(s.events) + l /\ all[k] = new[l]
    <3>1. FromBoth(s.events, new, all)
      BY <1>1, ElementsOfBoth
    <3> QED BY <3>1 DEF FromBoth, FromOne
  <2> QED BY <1>0, <2>1
<1>3. Quiet(r.events)
  BY <1>1, <1>2 DEF Quiet, ChatGood
<1>4. ASSUME NEW j \in 1 .. Len(all), all[j].type = "started", all[j].kind = "reasoning"
      PROVE  all[j].index <= r.blockIndex
  BY <1>1, <1>2, <1>4 DEF ChatGood, ChatKnows
<1>5. ASSUME NEW i \in r.callStarted, i > r.blockIndex
      PROVE  i \in Known \/ \E j \in 1 .. Len(all) : StartsAt(all, j, i, "tool_use")
  <2>1. i \in Known \/ \E j \in 1 .. Len(s.events) : StartsAt(s.events, j, i, "tool_use")
    BY <1>1, <1>5 DEF ChatGood, ChatKnows
  <2>2. ASSUME NEW j \in 1 .. Len(s.events), StartsAt(s.events, j, i, "tool_use")
        PROVE  j \in 1 .. Len(all) /\ StartsAt(all, j, i, "tool_use")
    BY <1>1, <2>2 DEF Joined, StartsAt
  <2> QED BY <2>1, <2>2
<1>6. r.hasReasoning => r.reasonIndex = r.blockIndex
  BY <1>1 DEF ChatGood, ChatKnows
<1>7. choice.blockIndex \in 0 .. r.blockIndex
  BY <1>1 DEF ChatGood
<1>8. ChatKnows(r, r.events, Known)
  BY <1>1, <1>4, <1>5, <1>6 DEF ChatKnows
<1>9. ChatGood(r)
  BY <1>1, <1>3, <1>7, <1>8 DEF ChatGood
<1> QED BY <1>9 DEF r, new

\* A call is announced.
LEMMA AnnouncedKeeps ==
    ASSUME NEW s, ChatGood(s), NEW slot \in Nat
    PROVE  ChatGood(Emitting([s EXCEPT !.callStarted = @ \cup {slot}], <<Started(slot, "tool_use")>>))
<1> DEFINE x == Started(slot, "tool_use")
           new == <<x>>
           p == [s EXCEPT !.callStarted = @ \cup {slot}]
           r == Emitting(p, new)
           all == s.events \o new
<1>0. /\ x \in CoreEvents /\ x.type = "started" /\ x.index = slot /\ x.kind = "tool_use"
      /\ new \in Seq(CoreEvents) /\ Len(new) = 1 /\ new[1] = x
  <2>1. x \in CoreEvents /\ x.type = "started" /\ x.index = slot /\ x.kind = "tool_use"
    BY DEF Started, CoreEvent, CoreEvents, EventTypes, BlockKinds
  <2> HIDE DEF x
  <2> QED BY <2>1
<1> HIDE DEF x, new
<1>1. /\ p \in ChatStates /\ p.events = s.events /\ p.callStarted = s.callStarted \cup {slot}
      /\ p.blockIndex = s.blockIndex /\ p.hasReasoning = s.hasReasoning
      /\ p.reasonIndex = s.reasonIndex
  BY DEF ChatGood, ChatStates
<1> HIDE DEF p
<1>2. /\ r \in ChatStates /\ r.events = all /\ Joined(s.events, new, all)
      /\ r.callStarted = s.callStarted \cup {slot} /\ r.blockIndex = s.blockIndex
      /\ r.hasReasoning = s.hasReasoning /\ r.reasonIndex = s.reasonIndex
  BY <1>0, <1>1, EmittedTyped
<1> HIDE DEF r, all
<1>3. ASSUME NEW k \in 1 .. Len(all)
      PROVE  (k \in 1 .. Len(s.events) /\ all[k] = s.events[k]) \/ all[k] = x
  <2>1. \/ k \in 1 .. Len(s.events) /\ all[k] = s.events[k]
        \/ \E l \in 1 .. Len(new) : k = Len(s.events) + l /\ all[k] = new[l]
    <3>1. FromBoth(s.events, new, all)
      BY <1>2, ElementsOfBoth
    <3> QED BY <3>1 DEF FromBoth, FromOne
  <2> QED BY <1>0, <2>1
<1>4. Quiet(r.events)
  BY <1>0, <1>2, <1>3 DEF Quiet, ChatGood
<1>5. ASSUME NEW j \in 1 .. Len(all), all[j].type = "started", all[j].kind = "reasoning"
      PROVE  all[j].index <= r.blockIndex
  BY <1>0, <1>2, <1>3, <1>5 DEF ChatGood, ChatKnows
<1>6. ASSUME NEW i \in r.callStarted, i > r.blockIndex
      PROVE  i \in Known \/ \E j \in 1 .. Len(all) : StartsAt(all, j, i, "tool_use")
  <2>1. CASE i = slot
    <3>1. Len(s.events) + 1 \in 1 .. Len(all) /\ all[Len(s.events) + 1] = x
      BY <1>0, <1>2 DEF Joined
    <3> QED BY <1>0, <2>1, <3>1 DEF StartsAt
  <2>2. CASE i # slot
    <3>1. i \in Known \/ \E j \in 1 .. Len(s.events) : StartsAt(s.events, j, i, "tool_use")
      BY <1>2, <1>6, <2>2 DEF ChatGood, ChatKnows
    <3>2. ASSUME NEW j \in 1 .. Len(s.events), StartsAt(s.events, j, i, "tool_use")
          PROVE  j \in 1 .. Len(all) /\ StartsAt(all, j, i, "tool_use")
      BY <1>2, <3>2 DEF Joined, StartsAt
    <3> QED BY <3>1, <3>2
  <2> QED BY <2>1, <2>2
<1>7. r.hasReasoning => r.reasonIndex = r.blockIndex
  BY <1>2 DEF ChatGood, ChatKnows
<1>8. choice.blockIndex \in 0 .. r.blockIndex
  BY <1>2 DEF ChatGood
<1>9. ChatKnows(r, r.events, Known)
  BY <1>2, <1>5, <1>6, <1>7 DEF ChatKnows
<1>10. ChatGood(r)
  BY <1>2, <1>4, <1>8, <1>9 DEF ChatGood
<1> QED BY <1>10 DEF r, p, new, x

LEMMA EventsOfAChunk ==
    ASSUME NEW i \in Nat, NEW d \in Seq(Nat), NEW kind \in {"text", "reasoning"}
    PROVE  /\ /\ Started(i, kind) \in CoreEvents /\ Started(i, kind).type = "started"
              /\ Started(i, kind).index = i
           /\ TextDelta(i, d) \in CoreEvents /\ TextDelta(i, d).type = "textDelta"
           /\ ArgsDelta(i, d) \in CoreEvents /\ ArgsDelta(i, d).type = "argsDelta"
           /\ BlockDone(i, <<>>) \in CoreEvents /\ BlockDone(i, <<>>).type = "blockDone"
           /\ ArgsDone(i, <<>>) \in CoreEvents /\ ArgsDone(i, <<>>).type = "argsDone"
           /\ ArgsDone(i, <<>>).index = i
<1>1. <<>> \in Seq(Nat)
  OBVIOUS
<1> QED
  BY <1>1 DEF Started, TextDelta, ArgsDelta, BlockDone, ArgsDone, CoreEvent, CoreEvents, EventTypes,
              BlockKinds

LEMMA PiecesTyped ==
    ASSUME messages \in Nat, NEW call \in Nat
    PROVE  /\ ReasoningPiece \in Seq(Nat) /\ ContentPiece \in Seq(Nat) /\ CallPiece(call) \in Seq(Nat)
<1>1. 10 * messages + 1 \in Nat /\ 10 * messages + 2 \in Nat /\ 10 * messages + (3 + call) \in Nat
  OBVIOUS
<1> QED BY <1>1, SingleElement DEF ReasoningPiece, ContentPiece, CallPiece, Piece

\* Two sequences of one event each.
LEMMA EmittedTwo ==
    ASSUME NEW s \in ChatStates, NEW x \in CoreEvents, NEW y \in CoreEvents
    PROVE  Emitting(s, <<x, y>>) = Emitting(Emitting(s, <<x>>), <<y>>)
<1>1. s.events \in Seq(CoreEvents)
  BY DEF ChatStates
<1>2. s.events \o <<x, y>> = (s.events \o <<x>>) \o <<y>>
  <2>1. <<x>> \in Seq(CoreEvents) /\ <<y>> \in Seq(CoreEvents)
    BY SingleElement
  <2>2. <<x, y>> = <<x>> \o <<y>>
    <3>1. <<x, y>> = Append(<<x>>, y)
      OBVIOUS
    <3> QED BY <2>1, <3>1, AppendIsConcat
  <2>3. (s.events \o <<x>>) \o <<y>> = s.events \o (<<x>> \o <<y>>)
    BY <1>1, <2>1, ConcatAssociative
  <2> QED BY <2>2, <2>3
<1> QED BY <1>2 DEF Emitting, ChatStates

LEMMA RoleKeeps ==
    ASSUME NEW c \in Chunks, NEW s, ChatGood(s)
    PROVE  ChatGood(ChatRole(c, s))
<1>1. CASE ~c.role \/ s.started
  BY <1>1 DEF ChatRole
<1>2. CASE ~(~c.role \/ s.started)
  <2> DEFINE r == [s EXCEPT !.started = TRUE,
                            !.hasReasoning = @ \/ c.reasoning,
                            !.reasonIndex = IF c.reasoning THEN s.blockIndex ELSE @]
             x == Started(s.blockIndex, IF c.reasoning THEN "reasoning" ELSE "text")
  <2>1. c.reasoning \in BOOLEAN /\ s \in ChatStates
    BY ChunksAssumption DEF ChunksAssumption, ChatGood
  <2>2. /\ r \in ChatStates /\ r.events = s.events /\ r.callStarted = s.callStarted
        /\ r.blockIndex = s.blockIndex /\ s.blockIndex <= r.blockIndex
    <3>1. (s.hasReasoning \/ c.reasoning) \in BOOLEAN
      BY <2>1
    <3>2. (IF c.reasoning THEN s.blockIndex ELSE s.reasonIndex) \in Nat /\ s.blockIndex \in Nat
      BY <2>1 DEF ChatStates
    <3>3. r \in ChatStates
      BY <2>1, <3>1, <3>2 DEF ChatStates
    <3>4. r.events = s.events /\ r.callStarted = s.callStarted /\ r.blockIndex = s.blockIndex
      BY <2>1 DEF ChatStates
    <3> QED BY <3>2, <3>3, <3>4
  <2>3. r.hasReasoning => r.reasonIndex = r.blockIndex
    BY <2>1 DEF ChatGood, ChatKnows, ChatStates
  <2>4. x \in CoreEvents /\ x.type # "argsDone" /\ x.index = s.blockIndex
    <3>1. s.blockIndex \in Nat /\ <<>> \in Seq(Nat)
      BY <2>1 DEF ChatStates
    <3> QED BY <3>1, EventsOfAChunk
  <2>5. ChatRole(c, s) = Emitting(r, <<x>>)
    BY <1>2 DEF ChatRole
  <2> HIDE DEF r, x
  <2>6. ChatGood(r)
    BY <2>2, <2>3, MovedOn
  <2>7. x.index <= r.blockIndex
    BY <2>1, <2>2, <2>4 DEF ChatStates
  <2> QED BY <2>4, <2>5, <2>6, <2>7, EmittedKeeps
<1> QED BY <1>1, <1>2

LEMMA OpenedReasoning ==
    ASSUME NEW s, ChatGood(s)
    PROVE  ChatGood(OpenReasoning(s)) /\ OpenReasoning(s).reasonIndex \in Nat
<1> DEFINE i == s.blockIndex + 1
           r == [s EXCEPT !.hasReasoning = TRUE, !.reasonIndex = i, !.blockIndex = i]
           x == BlockDone(i, <<>>)
           y == Started(i, "reasoning")
<1>1. s \in ChatStates /\ s.blockIndex \in Nat /\ i \in Nat /\ <<>> \in Seq(Nat)
  BY DEF ChatGood, ChatStates
<1>2. /\ r \in ChatStates /\ r.events = s.events /\ r.callStarted = s.callStarted
      /\ s.blockIndex <= r.blockIndex /\ r.reasonIndex = r.blockIndex /\ r.blockIndex = i
  <2>1. s.blockIndex <= i
    BY <1>1
  <2> HIDE DEF i
  <2>2. r \in ChatStates
    BY <1>1 DEF ChatStates
  <2>3. /\ r.events = s.events /\ r.callStarted = s.callStarted
        /\ r.reasonIndex = i /\ r.blockIndex = i
    BY <1>1 DEF ChatStates
  <2> QED BY <2>1, <2>2, <2>3
<1>3. /\ x \in CoreEvents /\ x.type = "blockDone"
      /\ y \in CoreEvents /\ y.type = "started" /\ y.index = i
  BY <1>1, EventsOfAChunk
<1>4. OpenReasoning(s) = Emitting(r, <<x, y>>)
  BY DEF OpenReasoning
<1> HIDE DEF r, x, y
<1>5. ChatGood(r)
  BY <1>2, MovedOn
<1>6. ChatGood(Emitting(r, <<x>>))
  BY <1>3, <1>5, EmittedKeeps
<1>7. Emitting(r, <<x>>).blockIndex = i
  BY <1>2 DEF Emitting, ChatStates
<1>8. ChatGood(Emitting(Emitting(r, <<x>>), <<y>>))
  <2> DEFINE p == Emitting(r, <<x>>)
  <2>1. ChatGood(p) /\ p.blockIndex = i
    BY <1>6, <1>7
  <2>2. y.index <= p.blockIndex /\ y.type # "argsDone"
    BY <1>1, <1>3, <2>1
  <2> HIDE DEF p
  <2>3. ChatGood(Emitting(p, <<y>>))
    BY <1>3, <2>1, <2>2, EmittedKeeps
  <2> QED BY <2>3 DEF p
<1>9. ChatGood(OpenReasoning(s))
  BY <1>2, <1>3, <1>4, <1>8, EmittedTwo
<1> QED BY <1>9 DEF ChatGood, ChatStates

LEMMA ReasoningKeeps ==
    ASSUME messages \in Nat, NEW c \in Chunks, NEW s, ChatGood(s)
    PROVE  ChatGood(ChatReasoning(c, s))
<1>1. CASE ~c.reasoning
  BY <1>1 DEF ChatReasoning
<1>2. CASE c.reasoning
  <2> DEFINE opened == IF s.hasReasoning THEN s ELSE OpenReasoning(s)
             x == TextDelta(opened.reasonIndex, ReasoningPiece)
  <2>1. ChatGood(opened)
    BY OpenedReasoning
  <2>2. ChatReasoning(c, s) = Emitting(opened, <<x>>)
    BY <1>2 DEF ChatReasoning
  <2>3. opened.reasonIndex \in Nat
    <3> HIDE DEF opened
    <3> QED BY <2>1 DEF ChatGood, ChatStates
  <2>4. x \in CoreEvents /\ x.type = "textDelta"
    <3> HIDE DEF opened
    <3>1. 0 \in Nat
      OBVIOUS
    <3>2. ReasoningPiece \in Seq(Nat)
      BY <3>1, PiecesTyped
    <3> QED BY <2>3, <3>2, EventsOfAChunk
  <2> HIDE DEF opened, x
  <2> QED BY <2>1, <2>2, <2>4, EmittedKeeps
<1> QED BY <1>1, <1>2

LEMMA ClosedReasoning ==
    ASSUME NEW s, ChatGood(s), s.hasReasoning
    PROVE  ChatGood(CloseReasoning(s))
<1> DEFINE i == s.reasonIndex + 1
           r == [s EXCEPT !.hasReasoning = FALSE, !.blockIndex = i]
           x == BlockDone(s.reasonIndex, <<>>)
           y == Started(i, "text")
<1>1. /\ s \in ChatStates /\ s.blockIndex \in Nat /\ s.reasonIndex = s.blockIndex /\ i \in Nat
      /\ <<>> \in Seq(Nat)
  BY DEF ChatGood, ChatKnows, ChatStates
<1>2. /\ r \in ChatStates /\ r.events = s.events /\ r.callStarted = s.callStarted
      /\ s.blockIndex <= r.blockIndex /\ ~r.hasReasoning /\ r.blockIndex = i
  <2>1. s.blockIndex <= i
    BY <1>1
  <2> HIDE DEF i
  <2>2. r \in ChatStates
    BY <1>1 DEF ChatStates
  <2>3. /\ r.events = s.events /\ r.callStarted = s.callStarted
        /\ ~r.hasReasoning /\ r.blockIndex = i
    BY <1>1 DEF ChatStates
  <2> QED BY <2>1, <2>2, <2>3
<1>3. /\ x \in CoreEvents /\ x.type = "blockDone"
      /\ y \in CoreEvents /\ y.type = "started" /\ y.index = i
  BY <1>1, EventsOfAChunk
<1>4. CloseReasoning(s) = Emitting(r, <<x, y>>)
  BY DEF CloseReasoning
<1> HIDE DEF r, x, y
<1>5. ChatGood(r)
  BY <1>2, MovedOn
<1>6. ChatGood(Emitting(r, <<x>>))
  BY <1>3, <1>5, EmittedKeeps
<1>7. Emitting(r, <<x>>).blockIndex = i
  BY <1>2 DEF Emitting, ChatStates
<1>8. ChatGood(Emitting(Emitting(r, <<x>>), <<y>>))
  <2> DEFINE p == Emitting(r, <<x>>)
  <2>1. ChatGood(p) /\ p.blockIndex = i
    BY <1>6, <1>7
  <2>2. y.index <= p.blockIndex /\ y.type # "argsDone"
    BY <1>1, <1>3, <2>1
  <2> HIDE DEF p
  <2>3. ChatGood(Emitting(p, <<y>>))
    BY <1>3, <2>1, <2>2, EmittedKeeps
  <2> QED BY <2>3 DEF p
<1> QED BY <1>2, <1>3, <1>4, <1>8, EmittedTwo

LEMMA ContentKeeps ==
    ASSUME messages \in Nat, NEW c \in Chunks, NEW s, ChatGood(s)
    PROVE  ChatGood(ChatContent(c, s))
<1>1. CASE ~c.content
  BY <1>1 DEF ChatContent
<1>2. CASE c.content
  <2> DEFINE opened == IF s.hasReasoning THEN CloseReasoning(s) ELSE s
             x == TextDelta(opened.blockIndex, ContentPiece)
  <2>1. ChatGood(opened)
    BY ClosedReasoning
  <2>2. ChatContent(c, s) = Emitting(opened, <<x>>)
    BY <1>2 DEF ChatContent
  <2>3. opened.blockIndex \in Nat
    <3> HIDE DEF opened
    <3> QED BY <2>1 DEF ChatGood, ChatStates
  <2>4. x \in CoreEvents /\ x.type = "textDelta"
    <3> HIDE DEF opened
    <3>1. 0 \in Nat
      OBVIOUS
    <3>2. ContentPiece \in Seq(Nat)
      BY <3>1, PiecesTyped
    <3> QED BY <2>3, <3>2, EventsOfAChunk
  <2> HIDE DEF opened, x
  <2> QED BY <2>1, <2>2, <2>4, EmittedKeeps
<1> QED BY <1>1, <1>2

LEMMA SlotChosen ==
    ASSUME NEW s \in ChatStates, NEW call \in Nat
    PROVE  /\ NextSlot(s) \in Nat
           /\ call \in DOMAIN s.toolCallSlot => s.toolCallSlot[call] \in Nat
BY SlotTyped DEF ChatStates, NextSlot

LEMMA SlotPlaced ==
    ASSUME NEW s, ChatGood(s), NEW call \in Nat, NEW slot \in Nat
    PROVE  ChatGood([s EXCEPT !.toolCallSlot = Put(@, call, slot), !.toolCallIdx = slot + 1])
<1> DEFINE slots == Put(s.toolCallSlot, call, slot)
           next == slot + 1
           r == [s EXCEPT !.toolCallSlot = slots, !.toolCallIdx = next]
<1>1. s \in ChatStates /\ s.toolCallSlot \in Slots
  BY DEF ChatGood, ChatStates
<1>2. slots \in Slots /\ next \in Nat
  BY <1>1, SlotPut
<1> HIDE DEF slots, next
<1>3. r \in ChatStates
  BY <1>1, <1>2 DEF ChatStates
<1>4. /\ r.events = s.events /\ r.callStarted = s.callStarted /\ r.blockIndex = s.blockIndex
      /\ r.hasReasoning = s.hasReasoning /\ r.reasonIndex = s.reasonIndex
  BY <1>1 DEF ChatStates
<1> HIDE DEF r
<1>5. s.blockIndex <= r.blockIndex /\ (r.hasReasoning => r.reasonIndex = r.blockIndex)
  BY <1>1, <1>4 DEF ChatGood, ChatKnows, ChatStates
<1>6. ChatGood(r)
  BY <1>3, <1>4, <1>5, MovedOn
<1> QED BY <1>6 DEF r, slots, next

\* ChatCall, piece by piece.
LEMMA CallKeeps ==
    ASSUME messages \in Nat, NEW s, ChatGood(s), NEW f \in Fragments
    PROVE  ChatGood(ChatCall(s, f))
<1> DEFINE known == f.call \in DOMAIN s.toolCallSlot
           slot == IF known THEN s.toolCallSlot[f.call] ELSE NextSlot(s)
           placed == IF known THEN s
                     ELSE [s EXCEPT !.toolCallSlot = Put(@, f.call, slot), !.toolCallIdx = slot + 1]
           starts == slot \notin s.callStarted /\ f.named
           begun == IF starts
                    THEN Emitting([placed EXCEPT !.callStarted = @ \cup {slot}],
                                  <<Started(slot, "tool_use")>>)
                    ELSE placed
           x == ArgsDelta(slot, CallPiece(f.call))
<1>1. f.call \in Nat /\ s \in ChatStates
  BY DEF Fragments, ChatGood
<1>2. slot \in Nat
  BY <1>1, SlotChosen
<1>3. ChatCall(s, f) = IF f.args /\ slot \in begun.callStarted THEN Emitting(begun, <<x>>) ELSE begun
  BY DEF ChatCall
<1>4. ChatGood(placed)
  <2> HIDE DEF slot, known
  <2> QED BY <1>1, <1>2, SlotPlaced
<1> HIDE DEF placed, slot, starts
<1>5. ChatGood(begun)
  BY <1>2, <1>4, AnnouncedKeeps
<1>6. x \in CoreEvents /\ x.type = "argsDelta"
  <2>1. CallPiece(f.call) \in Seq(Nat)
    BY <1>1, PiecesTyped
  <2> QED BY <1>2, <2>1, EventsOfAChunk
<1> HIDE DEF begun, x
<1>7. ChatGood(Emitting(begun, <<x>>))
  BY <1>5, <1>6, EmittedKeeps
<1> QED BY <1>3, <1>5, <1>7

\* g is the function that ChatCalls(c, s) chooses.
IsCalls(g, m, c, s) ==
    g = [n \in 0 .. m |-> IF n = 0 THEN s ELSE ChatCall(g[n - 1], c.calls[n])]

LEMMA CallsOfAChunk ==
    ASSUME NEW c \in Chunks
    PROVE  /\ Len(c.calls) \in Nat
           /\ \A n \in 1 .. Len(c.calls) : c.calls[n] \in Fragments
<1>1. c.calls \in Seq([call : Nat, named : BOOLEAN, args : BOOLEAN])
  BY ChunksAssumption DEF ChunksAssumption
<1> QED BY <1>1, ElementOfSeq, LenProperties DEF Fragments

LEMMA CallsExist ==
    ASSUME NEW c, NEW s, NEW m \in Nat
    PROVE  \E g : IsCalls(g, m, c, s)
<1> DEFINE Good == { k \in Nat : \E g : IsCalls(g, k, c, s) }
<1>1. 0 \in Good
  <2> DEFINE g == [n \in 0 .. 0 |-> s]
  <2>1. g = [n \in 0 .. 0 |-> IF n = 0 THEN s ELSE ChatCall(g[n - 1], c.calls[n])]
    OBVIOUS
  <2> HIDE DEF g
  <2> QED BY <2>1 DEF IsCalls
<1>2. ASSUME NEW k \in 1 .. m, k - 1 \in Good PROVE k \in Good
  <2>0. k \in Nat /\ k # 0
    BY <1>2
  <2>1. PICK g : IsCalls(g, k - 1, c, s)
    BY <1>2
  <2>2. PICK h : IsLonger(h, g, k, ChatCall(g[k - 1], c.calls[k]))
    BY <2>0, Longer, Zenon
  <2>3. \A n \in 0 .. k - 1 : g[n] = IF n = 0 THEN s ELSE ChatCall(g[n - 1], c.calls[n])
    BY <2>1, Zenon DEF IsCalls
  <2>4. \A n \in 0 .. k : h[n] = IF n = 0 THEN s ELSE ChatCall(h[n - 1], c.calls[n])
    BY <2>2, <2>3 DEF IsLonger
  <2>5. h = [n \in 0 .. k |-> IF n = 0 THEN s ELSE ChatCall(h[n - 1], c.calls[n])]
    BY <2>2, <2>4 DEF IsLonger
  <2> QED BY <2>0, <2>5, Zenon DEF IsCalls
<1>3. m \in Good
  <2> HIDE DEF Good
  <2> QED BY <1>1, <1>2, InductionUpTo
<1> QED BY <1>3

LEMMA CallsKeep ==
    ASSUME messages \in Nat, NEW c \in Chunks, NEW s, ChatGood(s)
    PROVE  ChatGood(ChatCalls(c, s))
<1> DEFINE m == Len(c.calls)
           g == CHOOSE g : IsCalls(g, Len(c.calls), c, s)
           Good == { n \in Nat : ChatGood(g[n]) }
<1>0. m \in Nat
  BY CallsOfAChunk
<1>1. IsCalls(g, Len(c.calls), c, s)
  BY <1>0, CallsExist
<1>2. ChatCalls(c, s) = g[m]
  BY DEF ChatCalls, IsCalls
<1> HIDE DEF g
<1>3. g[0] = s
  BY <1>0, <1>1 DEF IsCalls
<1>4. ASSUME NEW n \in 1 .. m PROVE g[n] = ChatCall(g[n - 1], c.calls[n])
  <2>1. n \in 0 .. Len(c.calls) /\ n # 0
    BY <1>0
  <2> QED BY <1>1, <2>1, Zenon DEF IsCalls
<1>5. 0 \in Good
  BY <1>3
<1>6. ASSUME NEW n \in 1 .. m, n - 1 \in Good PROVE n \in Good
  <2>1. n \in Nat /\ ChatGood(g[n - 1]) /\ c.calls[n] \in Fragments
    BY <1>0, <1>6, CallsOfAChunk
  <2>2. ChatGood(ChatCall(g[n - 1], c.calls[n]))
    BY <2>1, CallKeeps
  <2> QED BY <1>4, <2>1, <2>2
<1>7. m \in Good
  <2> HIDE DEF Good
  <2> QED BY <1>0, <1>5, <1>6, InductionUpTo
<1> QED BY <1>2, <1>7

\* How many slots there are behind the current block.
Behind(s) == IF s.toolCallIdx > s.blockIndex THEN s.toolCallIdx - s.blockIndex - 1 ELSE 0

\* f is the function that CallsClosed(s) chooses.
IsClosed(f, m, s) ==
    f = [n \in 0 .. m |->
            IF n = 0 THEN <<>> ELSE f[n - 1] \o CallClosed(s, s.blockIndex + n)]

\* What closes the calls: events of their ends, of calls behind the block only.
ClosingEvents(s) ==
    { x \in CoreEvents : \/ x.type = "argsDone" /\ x.index \in CallsBehind(s)
                         \/ x.type = "blockDone" }

LEMMA ClosedTyped ==
    ASSUME NEW s \in ChatStates, NEW i \in Nat
    PROVE  CallClosed(s, i) \in Seq(ClosingEvents(s))
<1> DEFINE x == ArgsDone(i, <<>>)
           y == BlockDone(i, <<>>)
           S == ClosingEvents(s)
<1>1. /\ x \in CoreEvents /\ x.type = "argsDone" /\ x.index = i
      /\ y \in CoreEvents /\ y.type = "blockDone"
  <2>1. <<>> \in Seq(Nat)
    OBVIOUS
  <2> QED BY <2>1 DEF ArgsDone, BlockDone, CoreEvent, CoreEvents, EventTypes, BlockKinds
<1>2. CallClosed(s, i) = IF i \in CallsBehind(s) THEN <<x, y>> ELSE <<>>
  BY DEF CallClosed
<1> HIDE DEF x, y
<1>3. y \in S /\ (i \in CallsBehind(s) => x \in S)
  BY <1>1 DEF ClosingEvents
<1> HIDE DEF S
<1>4. <<>> \in Seq(S) /\ (i \in CallsBehind(s) => <<x, y>> \in Seq(S))
  BY <1>3
<1> QED BY <1>2, <1>4 DEF S

LEMMA BehindTyped == ASSUME NEW s \in ChatStates PROVE Behind(s) \in Nat /\ s.blockIndex \in Nat
BY DEF ChatStates, Behind

LEMMA ClosedExists ==
    ASSUME NEW s, NEW m \in Nat
    PROVE  \E f : IsClosed(f, m, s)
<1> DEFINE Good == { k \in Nat : \E f : IsClosed(f, k, s) }
<1>1. 0 \in Good
  <2> DEFINE f == [n \in 0 .. 0 |-> <<>>]
  <2>1. f = [n \in 0 .. 0 |-> IF n = 0 THEN <<>> ELSE f[n - 1] \o CallClosed(s, s.blockIndex + n)]
    OBVIOUS
  <2> HIDE DEF f
  <2> QED BY <2>1 DEF IsClosed
<1>2. ASSUME NEW k \in 1 .. m, k - 1 \in Good PROVE k \in Good
  <2>0. k \in Nat /\ k # 0
    BY <1>2
  <2>1. PICK f : IsClosed(f, k - 1, s)
    BY <1>2
  <2>2. PICK g : IsLonger(g, f, k, f[k - 1] \o CallClosed(s, s.blockIndex + k))
    BY <2>0, Longer, Zenon
  <2>3. \A n \in 0 .. k - 1 : f[n] = IF n = 0 THEN <<>> ELSE f[n - 1] \o CallClosed(s, s.blockIndex + n)
    BY <2>1, Zenon DEF IsClosed
  <2>4. \A n \in 0 .. k : g[n] = IF n = 0 THEN <<>> ELSE g[n - 1] \o CallClosed(s, s.blockIndex + n)
    BY <2>2, <2>3 DEF IsLonger
  <2>5. g = [n \in 0 .. k |-> IF n = 0 THEN <<>> ELSE g[n - 1] \o CallClosed(s, s.blockIndex + n)]
    BY <2>2, <2>4 DEF IsLonger
  <2> QED BY <2>0, <2>5, Zenon DEF IsClosed
<1>3. m \in Good
  <2> HIDE DEF Good
  <2> QED BY <1>1, <1>2, InductionUpTo
<1> QED BY <1>3

LEMMA CallsClosedTyped ==
    ASSUME NEW s \in ChatStates
    PROVE  CallsClosed(s) \in Seq(ClosingEvents(s))
<1> DEFINE m == Behind(s)
           X == Seq(ClosingEvents(s))
           f == CHOOSE f : IsClosed(f, Behind(s), s)
           Good == { n \in Nat : f[n] \in X }
<1>0. m \in Nat
  BY BehindTyped
<1>1. IsClosed(f, Behind(s), s)
  BY <1>0, ClosedExists
<1>2. CallsClosed(s) = f[m]
  BY DEF CallsClosed, IsClosed, Behind
<1> HIDE DEF f
<1>3. f[0] = <<>>
  BY <1>0, <1>1 DEF IsClosed
<1>4. ASSUME NEW n \in 1 .. m PROVE f[n] = f[n - 1] \o CallClosed(s, s.blockIndex + n)
  <2>1. n \in 0 .. Behind(s) /\ n # 0
    BY <1>0
  <2> QED BY <1>1, <2>1, Zenon DEF IsClosed
<1>5. 0 \in Good
  <2>1. <<>> \in X
    OBVIOUS
  <2> QED BY <1>3, <2>1
<1>6. ASSUME NEW n \in 1 .. m, n - 1 \in Good PROVE n \in Good
  <2>1. n \in Nat /\ f[n - 1] \in X /\ s.blockIndex + n \in Nat
    BY <1>0, <1>6, BehindTyped
  <2>2. CallClosed(s, s.blockIndex + n) \in X
    BY <2>1, ClosedTyped
  <2>3. f[n - 1] \o CallClosed(s, s.blockIndex + n) \in X
    BY <2>1, <2>2, ConcatProperties
  <2> QED BY <1>4, <2>1, <2>3
<1>7. m \in Good
  <2> HIDE DEF Good
  <2> QED BY <1>0, <1>5, <1>6, InductionUpTo
<1> QED BY <1>2, <1>7

\* A converted chunk, the finish reason included.
ChatDone(r) ==
    /\ r \in ChatStates
    /\ ChatKnows(r, r.events, Known)
    /\ Announced(r.events, Known)
    /\ \A k \in 1 .. Len(r.events) : r.events[k].type = "argsDone" => r.events[k].index > r.blockIndex
    /\ choice.blockIndex \in 0 .. r.blockIndex

LEMMA UnfinishedDone == ASSUME NEW s, ChatGood(s) PROVE ChatDone(s)
BY DEF ChatGood, ChatDone, Quiet, Announced

LEMMA FinishDone ==
    ASSUME NEW s, ChatGood(s)
    PROVE  ChatDone(Emitting(s, <<BlockDone(s.blockIndex, <<>>)>> \o CallsClosed(s)))
<1> DEFINE x == BlockDone(s.blockIndex, <<>>)
           S == ClosingEvents(s)
           new == <<x>> \o CallsClosed(s)
           r == Emitting(s, new)
           old == s.events
           all == old \o new
<1>1. s \in ChatStates /\ s.blockIndex \in Nat /\ s.callStarted \subseteq Nat /\ old \in Seq(CoreEvents)
  BY DEF ChatGood, ChatStates
<1>2. new \in Seq(S)
  <2>1. <<>> \in Seq(Nat)
    OBVIOUS
  <2>2. x \in CoreEvents /\ x.type = "blockDone"
    BY <1>1, <2>1, EventsOfAChunk
  <2> HIDE DEF x
  <2>3. x \in S
    BY <2>2 DEF ClosingEvents
  <2>4. CallsClosed(s) \in Seq(S)
    BY <1>1, CallsClosedTyped
  <2> HIDE DEF S
  <2>5. <<x>> \in Seq(S)
    BY <2>3, SingleElement
  <2> QED BY <2>4, <2>5, ConcatProperties
<1> HIDE DEF new, x
<1>3. S \subseteq CoreEvents
  BY DEF ClosingEvents
<1>4. new \in Seq(CoreEvents)
  <2> HIDE DEF S
  <2> QED BY <1>2, <1>3, SeqMonotonic
<1>5. ASSUME NEW k \in 1 .. Len(new)
      PROVE  /\ new[k].type # "started"
             /\ new[k].type = "argsDone" => new[k].index \in CallsBehind(s)
  <2>1. new[k] \in S
    <3> HIDE DEF S
    <3> QED BY <1>2, ElementOfSeq
  <2> QED BY <2>1 DEF ClosingEvents
<1> HIDE DEF S
<1>6. /\ r \in ChatStates /\ r.events = all /\ Joined(old, new, all)
      /\ r.callStarted = s.callStarted /\ r.blockIndex = s.blockIndex
      /\ r.hasReasoning = s.hasReasoning /\ r.reasonIndex = s.reasonIndex
  BY <1>1, <1>4, EmittedTyped
<1>7. /\ Quiet(old) /\ ChatKnows(s, old, Known) /\ choice.blockIndex \in 0 .. s.blockIndex
  BY DEF ChatGood
<1> HIDE DEF r, old, all
<1>8. ASSUME NEW k \in 1 .. Len(all)
      PROVE  \/ k \in 1 .. Len(old) /\ all[k] = old[k]
             \/ /\ k > Len(old) /\ all[k].type # "started"
                /\ all[k].type = "argsDone" => all[k].index \in CallsBehind(s)
  <2>1. \/ k \in 1 .. Len(old) /\ all[k] = old[k]
        \/ \E l \in 1 .. Len(new) : k = Len(old) + l /\ all[k] = new[l]
    BY <1>6, InOneOfTwo
  <2>2. ASSUME NEW l \in 1 .. Len(new), k = Len(old) + l, all[k] = new[l]
        PROVE  /\ k > Len(old) /\ all[k].type # "started"
               /\ all[k].type = "argsDone" => all[k].index \in CallsBehind(s)
    BY <1>5, <1>6, <2>2 DEF Joined
  <2> QED BY <2>1, <2>2
<1>9. ASSUME NEW j \in 1 .. Len(all), all[j].type = "started", all[j].kind = "reasoning"
      PROVE  all[j].index <= s.blockIndex
  BY <1>7, <1>8, <1>9 DEF ChatKnows
<1>10. ASSUME NEW i, \E j \in 1 .. Len(old) : StartsAt(old, j, i, "tool_use")
       PROVE  \E j \in 1 .. Len(all) : j <= Len(old) /\ StartsAt(all, j, i, "tool_use")
  <2>1. PICK j \in 1 .. Len(old) : StartsAt(old, j, i, "tool_use")
    BY <1>10
  <2>2. j \in 1 .. Len(all) /\ j <= Len(old) /\ all[j] = old[j]
    BY <1>6 DEF Joined
  <2> QED BY <2>1, <2>2 DEF StartsAt
<1>11. ASSUME NEW i \in s.callStarted, i > s.blockIndex
       PROVE  i \in Known \/ \E j \in 1 .. Len(all) : j <= Len(old) /\ StartsAt(all, j, i, "tool_use")
  BY <1>7, <1>10, <1>11 DEF ChatKnows
<1>12. ChatKnows(r, all, Known)
  BY <1>6, <1>7, <1>9, <1>11 DEF ChatKnows
<1>13. ASSUME NEW k \in 1 .. Len(all), all[k].type = "argsDone"
       PROVE  /\ all[k].index > s.blockIndex
              /\ \A j \in 1 .. Len(all) : ~StartsAt(all, j, all[k].index, "reasoning")
              /\ \/ all[k].index \in Known
                 \/ \E j \in 1 .. Len(all) : j < k /\ StartsAt(all, j, all[k].index, "tool_use")
  <2>1. k > Len(old) /\ all[k].index \in CallsBehind(s)
    BY <1>7, <1>8, <1>13 DEF Quiet
  <2>2. all[k].index \in s.callStarted /\ all[k].index > s.blockIndex /\ all[k].index \in Nat
    BY <1>1, <2>1 DEF CallsBehind
  <2>3. \A j \in 1 .. Len(all) : ~StartsAt(all, j, all[k].index, "reasoning")
    <3> SUFFICES ASSUME NEW j \in 1 .. Len(all), StartsAt(all, j, all[k].index, "reasoning") PROVE FALSE
      OBVIOUS
    <3>1. all[k].index <= s.blockIndex
      BY <1>9 DEF StartsAt
    <3> QED BY <1>1, <2>2, <3>1
  <2>4. \/ all[k].index \in Known
        \/ \E j \in 1 .. Len(all) : j < k /\ StartsAt(all, j, all[k].index, "tool_use")
    <3>1. Len(old) \in Nat /\ Len(all) \in Nat
      BY <1>6 DEF Joined
    <3> QED BY <1>11, <2>1, <2>2, <3>1
  <2> QED BY <2>2, <2>3, <2>4
<1>14. Announced(all, Known)
  BY <1>13 DEF Announced
<1>15. ChatDone(r)
  BY <1>6, <1>7, <1>12, <1>13, <1>14 DEF ChatDone
<1> QED BY <1>15 DEF r, new, x

LEMMA ChatTakesKeeps ==
    ASSUME CallsInv, messages \in Nat, ChatTakes
    PROVE  CallsAnnounced' /\ ChatInv'
<1>1. /\ source = "chat" /\ source' = "chat" /\ coreEvents = <<>>
      /\ UNCHANGED <<outputIndexes, reasonIndexes>>
  BY DEF ChatTakes, Converts
<1>2. ChatGood(choice)
  <2>1. choice \in ChatStates /\ choice.events = <<>> /\ ChatKnows(choice, <<>>, Known)
    BY <1>1 DEF CallsInv, ChatInv, Known
  <2>2. choice.blockIndex \in 0 .. choice.blockIndex
    BY <2>1 DEF ChatStates
  <2> QED BY <2>1, <2>2, NoEvents DEF ChatGood
<1>3. PICK c \in Chunks :
         choice' = [ConvertedChunk(c) EXCEPT !.events = <<>>] /\ coreEvents' = ConvertedChunk(c).events
  BY DEF ChatTakes, Emits
<1> DEFINE s == ChatCalls(c, ChatContent(c, ChatReasoning(c, ChatRole(c, choice))))
           r == ConvertedChunk(c)
<1>4. ChatGood(s)
  <2>1. ChatGood(ChatRole(c, choice))
    BY <1>2, RoleKeeps
  <2>2. ChatGood(ChatReasoning(c, ChatRole(c, choice)))
    BY <2>1, ReasoningKeeps
  <2>3. ChatGood(ChatContent(c, ChatReasoning(c, ChatRole(c, choice))))
    BY <2>2, ContentKeeps
  <2> QED BY <2>3, CallsKeep
<1>5. r = ChatFinish(c, s)
  BY DEF ConvertedChunk
<1> HIDE DEF r, s
<1>6. ChatDone(r)
  BY <1>4, <1>5, UnfinishedDone, FinishDone DEF ChatFinish
<1>7. /\ choice' \in ChatStates /\ choice'.events = <<>> /\ choice'.blockIndex = r.blockIndex
      /\ choice'.hasReasoning = r.hasReasoning /\ choice'.reasonIndex = r.reasonIndex
      /\ choice'.callStarted = r.callStarted
  <2>1. r \in ChatStates /\ <<>> \in Seq(CoreEvents)
    BY <1>6 DEF ChatDone
  <2>2. choice' = [r EXCEPT !.events = <<>>]
    BY <1>3 DEF r
  <2> QED BY <2>1, <2>2 DEF ChatStates
<1>8. coreEvents' = r.events /\ Known' = Known
  BY <1>1, <1>3 DEF r, Known
<1>9. /\ r.events \in Seq(CoreEvents) /\ r.blockIndex \in Nat
      /\ choice.blockIndex \in 0 .. r.blockIndex /\ reasonIndexes \subseteq 0 .. choice.blockIndex
  BY <1>1, <1>6 DEF ChatDone, ChatStates, CallsInv, ChatInv
<1>10. reasonIndexes' \subseteq 0 .. choice'.blockIndex
  BY <1>1, <1>7, <1>9
<1>11. ChatKnows(choice', coreEvents', Known')
  BY <1>6, <1>7, <1>8 DEF ChatDone, ChatKnows
<1>12. ChatInv'
  BY <1>7, <1>8, <1>9, <1>10, <1>11 DEF ChatInv, Known
<1>13. CallsAnnounced'
  <2>1. IsSeq(coreEvents') /\ Announced(coreEvents', Known')
    BY <1>6, <1>8, <1>9 DEF ChatDone, IsSeq
  <2>2. \A k \in 1 .. Len(coreEvents') :
           coreEvents'[k].type = "argsDone" => coreEvents'[k].index \notin reasonIndexes'
    <3> SUFFICES ASSUME NEW k \in 1 .. Len(r.events), r.events[k].type = "argsDone"
                 PROVE  r.events[k].index \notin reasonIndexes
      BY <1>1, <1>8
    <3>1. r.events[k].index > r.blockIndex
      BY <1>6 DEF ChatDone
    <3>2. r.events[k] \in CoreEvents
      BY <1>9, ElementOfSeq
    <3>3. r.events[k].index \in Nat /\ choice.blockIndex \in Nat
      BY <1>9, <3>2 DEF CoreEvents
    <3>4. ~(r.events[k].index \in 0 .. choice.blockIndex)
      BY <1>9, <3>1, <3>3
    <3> QED BY <1>9, <3>4
  <2> QED BY <2>1, <2>2 DEF CallsAnnounced, Known
<1> QED BY <1>12, <1>13

-----------------------------------------------------------------------------

LEMMA CallsInit == Init => CallsInv
<1> SUFFICES ASSUME Init PROVE CallsInv
  OBVIOUS
<1>1. coreEvents = <<>> /\ reasonIndexes = {} /\ choice = NewChoice /\ messages = 0
  BY DEF Init, EmptyStream
<1>2. CallsAnnounced
  BY <1>1, NoEvents DEF CallsAnnounced, Announced
<1>3. ChatInv
  <2>1. ChatKnows(NewChoice, <<>>, Known)
    BY NoEvents DEF ChatKnows, NewChoice
  <2>2. <<>> \in Seq(CoreEvents)
    OBVIOUS
  <2> QED BY <1>1, <2>1, <2>2, NewChoiceTyped DEF ChatInv, Known
<1>4. ReplayInv
  BY <1>1 DEF ReplayInv
<1> QED BY <1>2, <1>3, <1>4 DEF CallsInv

LEMMA MessagesTyped == ConverterTypes => messages \in Nat
BY BoundsAssumption DEF ConverterTypes, BoundsAssumption

LEMMA ConverterKeepsCalls ==
    ASSUME ConverterTypes, CallsInv, Converter
    PROVE  CallsInv'
<1>0. messages \in Nat
  BY MessagesTyped
<1>1. ReplayInv'
  <2>1. CASE Anthropic
    BY <2>1 DEF Anthropic, MessageStart, ContentBlockStart, ContentBlockStop, Delta,
         TextDeltaOfBlock, StatusDelta, ThinkingDelta, SignatureDelta, InputJSONDelta,
         MessageDelta, MessageStop, StreamFails, Converts, ReplayInv
  <2>2. CASE ChatTakes \/ GoogleTakes \/ ChannelClosed
    BY <2>2 DEF ChatTakes, GoogleTakes, ChannelClosed, Converts, ReplayInv
  <2>3. CASE ReplayWhole
    <3>1. messages' = messages + 1
      BY <2>3 DEF ReplayWhole, Converts
    <3> QED BY <1>0, <3>1 DEF ReplayInv
  <2> QED BY <2>1, <2>2, <2>3 DEF Converter
<1>2. CASE Anthropic
  <2>1. CallsAnnounced'
    BY <1>2, AnthropicIsQuiet, QuietIsAnnounced
  <2>2. source = "anthropic" /\ UNCHANGED <<source, choice>>
    BY <1>2 DEF Anthropic, MessageStart, ContentBlockStart, ContentBlockStop, Delta,
         TextDeltaOfBlock, StatusDelta, ThinkingDelta, SignatureDelta, InputJSONDelta,
         MessageDelta, MessageStop, StreamFails, Converts, converterVars
  <2> QED BY <1>1, <2>1, <2>2 DEF CallsInv, ChatInv
<1>3. CASE ChatTakes
  BY <1>0, <1>1, <1>3, ChatTakesKeeps DEF CallsInv
<1>4. CASE GoogleTakes
  <2>1. CallsAnnounced'
    BY <1>4, GoogleIsQuiet, QuietIsAnnounced
  <2>2. source = "google" /\ UNCHANGED <<source, choice>>
    BY <1>4 DEF GoogleTakes, Converts
  <2> QED BY <1>1, <2>1, <2>2 DEF CallsInv, ChatInv
<1>5. CASE ChannelClosed
  <2>1. CallsAnnounced'
    BY <1>5, ClosedIsQuiet, QuietIsAnnounced
  <2>2. /\ UNCHANGED <<source, choice, outputIndexes, reasonIndexes>>
        /\ coreEvents = <<>>
    BY <1>5 DEF ChannelClosed, converterVars
  <2>3. ASSUME source = "chat"
        PROVE  coreEvents' \in Seq(CoreEvents) /\ ChatKnows(choice, coreEvents', Known)
    <3> DEFINE x == Lifecycle("completed")
    <3>1. coreEvents' = <<x>>
      BY <1>5, ClosedIsQuiet
    <3>2. x \in CoreEvents /\ x.type = "completed"
      <4>1. <<>> \in Seq(Nat)
        OBVIOUS
      <4> QED BY <4>1 DEF Lifecycle, CoreEvent, CoreEvents, EventTypes, BlockKinds
    <3>3. ChatKnows(choice, <<>>, Known)
      BY <2>2, <2>3 DEF CallsInv, ChatInv, Known
    <3> HIDE DEF x
    <3>4. <<x>> \in Seq(CoreEvents) /\ Len(<<x>>) = 1 /\ <<x>>[1] = x
      BY <3>2
    <3>5. ChatKnows(choice, <<x>>, Known)
      BY <3>2, <3>3, <3>4, NoEvents DEF ChatKnows
    <3> QED BY <3>1, <3>4, <3>5
  <2>4. ChatInv'
    BY <2>2, <2>3 DEF CallsInv, ChatInv, Known
  <2> QED BY <1>1, <2>1, <2>4 DEF CallsInv
<1>6. CASE ReplayWhole
  <2>1. CallsAnnounced'
    BY <1>6, ReplayKeepsAnnounced DEF CallsInv
  <2>2. source # "chat" /\ UNCHANGED <<source, choice>>
    BY <1>6 DEF ReplayWhole, Converts, converterVars
  <2> QED BY <1>1, <2>1, <2>2 DEF CallsInv, ChatInv
<1> QED BY <1>2, <1>3, <1>4, <1>5, <1>6 DEF Converter


\* The head of the events, when it ends a call, is of a call that is known.
LEMMA KnownAtTheHead == CallsAnnounced => CompletesKnownCalls
<1> SUFFICES ASSUME CallsAnnounced, coreEvents # <<>>, Event.type = "argsDone"
             PROVE  Index \in DOMAIN outputIndexes
  BY DEF CompletesKnownCalls
<1>1. Len(coreEvents) \in Nat \ {0} /\ Event = coreEvents[1]
  BY FirstTaken DEF CallsAnnounced, Event
<1>2. 1 \in 1 .. Len(coreEvents) /\ ~(\E j \in 1 .. Len(coreEvents) : j < 1)
  BY <1>1
<1>3. coreEvents[1].index \in DOMAIN outputIndexes
  BY <1>1, <1>2 DEF CallsAnnounced, Announced
<1> QED BY <1>1, <1>3 DEF Index, Event

LEMMA LoopStepKeepsCalls == ASSUME CallsInv, LoopStep PROVE CallsInv'
<1>1. LoopEffect /\ UNCHANGED <<source, choice, messages>>
  BY StreamLoopEffect DEF LoopStep, converterVars
<1>2. CallsAnnounced' /\ ChatInv'
  BY <1>1, LoopKeepsAnnounced, LoopKeepsChat DEF CallsInv
<1>3. ReplayInv'
  BY <1>1 DEF CallsInv, ReplayInv, LoopEffect
<1> QED BY <1>2, <1>3 DEF CallsInv

LEMMA StutterKeepsCalls == ASSUME CallsInv, UNCHANGED vars PROVE CallsInv'
BY DEF CallsInv, CallsAnnounced, Announced, StartsAt, IsSeq, ChatInv, ChatKnows, ReplayInv,
       vars, streamVars, converterVars

\* streamLoop completes only tool calls whose item it has, however a provider
\* orders the chunks of a call and however many there are: ToCoreStream ends
\* only calls that it has announced, behind the current block, before it ends
\* them, and streamLoop never takes a position from a call.
THEOREM OnlyKnownCallsCompleted == Spec => []CompletesKnownCalls
<1>1. Inv => ConverterTypes
  BY DEF Inv
<1>2. ASSUME Inv, CallsInv, [Next]_vars
      PROVE  CallsInv'
  <2>1. CASE Converter
    BY <1>1, <1>2, <2>1, ConverterKeepsCalls
  <2>2. CASE LoopStep
    BY <1>2, <2>2, LoopStepKeepsCalls
  <2>3. CASE UNCHANGED vars
    BY <1>2, <2>3, StutterKeepsCalls
  <2> QED BY <1>2, <2>1, <2>2, <2>3 DEF Next
<1>3. CallsInv => CompletesKnownCalls
  BY KnownAtTheHead DEF CallsInv
<1> QED BY InvAlways, CallsInit, <1>2, <1>3, PTL DEF Spec

-----------------------------------------------------------------------------
(***************************************************************************)
(* Items are closed once, with all that was said of them.                  *)
(***************************************************************************)

\* How far a block is for streamLoop: not begun, a text that goes on, reasoning
\* that goes on, a call that was announced, one that has arguments, one that is
\* complete, and a block that is over.
BlockStatuses == {"new", "text", "reasoning", "call", "calling", "called", "over"}
Boards == [Nat -> BlockStatuses]
AllNew == [i \in Nat |-> "new"]
Lifecycles == {"created", "in_progress", "completed", "incomplete", "failed"}

\* What an event of a block makes of its status.
Goes(x, from, to) ==
    \/ /\ x.type = "started" /\ from = "new"
       /\ \/ x.kind = "text" /\ to = "text"
          \/ x.kind = "reasoning" /\ to = "reasoning"
          \/ x.kind = "tool_use" /\ to = "call"
    \/ x.type = "textDelta" /\ from \in {"new", "text"} /\ to = "text"
    \/ x.type = "textDelta" /\ from = "reasoning" /\ to = "reasoning"
    \/ x.type = "argsDelta" /\ from \in {"call", "calling"} /\ to = "calling"
    \/ /\ x.type = "argsDone" /\ to = "called"
       /\ from = "call" \/ (from = "calling" /\ x.delta = <<>>)
    \/ x.type = "blockDone" /\ from = "new" /\ to = "new"
    \/ /\ x.type = "blockDone" /\ to = "over"
       /\ from \in {"text", "reasoning", "call", "calling", "called"}

\* An event in its turn.
Turns(a, x, z) ==
    \/ x.type \in Lifecycles /\ z = a
    \/ x.index \in Nat /\ \E to \in BlockStatuses :
          Goes(x, a[x.index], to) /\ z = [a EXCEPT ![x.index] = to]

\* Events in their turn, one after the other, from a to z.
IsRun(g, a, e, z) ==
    /\ g \in [0 .. Len(e) -> Boards]
    /\ g[0] = a /\ g[Len(e)] = z
    /\ \A k \in 1 .. Len(e) : Turns(g[k - 1], e[k], g[k])
Runs(a, e, z) == IsSeq(e) /\ \E g : IsRun(g, a, e, z)

LEMMA RunsTyped == ASSUME NEW a, NEW e, NEW z, Runs(a, e, z) PROVE a \in Boards /\ z \in Boards
<1>1. PICK g : IsRun(g, a, e, z)
  BY DEF Runs
<1>2. Len(e) \in Nat
  BY LenProperties DEF Runs, IsSeq
<1>3. 0 \in 0 .. Len(e) /\ Len(e) \in 0 .. Len(e)
  BY <1>2
<1> QED BY <1>1, <1>3 DEF IsRun

LEMMA RunsNothing == ASSUME NEW a \in Boards PROVE Runs(a, <<>>, a)
<1> DEFINE g == [k \in 0 .. 0 |-> a]
<1>1. Len(<<>>) = 0 /\ g \in [0 .. 0 -> Boards] /\ g[0] = a
  OBVIOUS
<1> HIDE DEF g
<1>2. IsRun(g, a, <<>>, a)
  BY <1>1 DEF IsRun
<1> QED BY <1>2, NoEvents DEF Runs

LEMMA NothingRuns == ASSUME NEW a, NEW z, Runs(a, <<>>, z) PROVE z = a
<1>1. PICK g : IsRun(g, a, <<>>, z)
  BY DEF Runs
<1>2. Len(<<>>) = 0
  OBVIOUS
<1> QED BY <1>1, <1>2 DEF IsRun

LEMMA RunsOne ==
    ASSUME NEW a \in Boards, NEW x, NEW z \in Boards, Turns(a, x, z)
    PROVE  Runs(a, <<x>>, z)
<1> DEFINE g == [k \in 0 .. 1 |-> IF k = 0 THEN a ELSE z]
           e == <<x>>
<1>1. Len(e) = 1 /\ e[1] = x /\ e \in Seq({x})
  OBVIOUS
<1>2. g \in [0 .. 1 -> Boards] /\ g[0] = a /\ g[1] = z
  OBVIOUS
<1> HIDE DEF g, e
<1>3. \A k \in 1 .. 1 : k = 1 /\ k - 1 = 0
  OBVIOUS
<1>4. IsRun(g, a, e, z)
  BY <1>1, <1>2, <1>3 DEF IsRun
<1>5. IsSeq(e)
  BY <1>1 DEF IsSeq
<1> QED BY <1>4, <1>5 DEF Runs, e

LEMMA RunsTogether ==
    ASSUME NEW a, NEW e, NEW b, NEW f, NEW z, Runs(a, e, b), Runs(b, f, z)
    PROVE  Runs(a, e \o f, z)
<1> DEFINE ef == e \o f
<1>1. PICK g : IsRun(g, a, e, b)
  BY DEF Runs
<1>2. PICK h : IsRun(h, b, f, z)
  BY DEF Runs
<1>3. IsSeq(e) /\ IsSeq(f)
  BY DEF Runs
<1>4. IsSeq(ef) /\ Joined(e, f, ef)
  BY <1>3, JoinedSeqs
<1> HIDE DEF ef
<1> DEFINE r == [k \in 0 .. Len(ef) |-> IF k <= Len(e) THEN g[k] ELSE h[k - Len(e)]]
<1>5. Len(e) \in Nat /\ Len(f) \in Nat /\ Len(ef) = Len(e) + Len(f)
  BY <1>4 DEF Joined
<1>6. \A k \in 0 .. Len(e) : r[k] = g[k]
  BY <1>5
<1>7. \A k \in 0 .. Len(f) : r[Len(e) + k] = h[k]
  <2>1. g[Len(e)] = h[0]
    BY <1>1, <1>2 DEF IsRun
  <2>2. r[Len(e)] = h[0]
    BY <2>1, <1>5, <1>6
  <2>3. ASSUME NEW k \in 1 .. Len(f) PROVE r[Len(e) + k] = h[k]
    <3>1. Len(e) + k \in 0 .. Len(ef) /\ ~(Len(e) + k <= Len(e)) /\ Len(e) + k - Len(e) = k
      BY <1>5
    <3> QED BY <3>1
  <2> HIDE DEF r
  <2>4. \A k \in 0 .. Len(f) : k = 0 \/ k \in 1 .. Len(f)
    BY <1>5
  <2>5. Len(e) + 0 = Len(e)
    BY <1>5
  <2> QED BY <2>2, <2>3, <2>4, <2>5
<1>8. r \in [0 .. Len(ef) -> Boards]
  <2>1. ASSUME NEW k \in 0 .. Len(ef) PROVE (IF k <= Len(e) THEN g[k] ELSE h[k - Len(e)]) \in Boards
    <3>1. k <= Len(e) => k \in 0 .. Len(e)
      BY <1>5
    <3>2. ~(k <= Len(e)) => k - Len(e) \in 0 .. Len(f)
      BY <1>5
    <3> QED BY <1>1, <1>2, <3>1, <3>2 DEF IsRun
  <2> QED BY <2>1
<1> HIDE DEF r
<1>9. r[0] = a /\ r[Len(ef)] = z
  <2>1. 0 \in 0 .. Len(e) /\ Len(f) \in 0 .. Len(f)
    BY <1>5
  <2> QED BY <1>1, <1>2, <1>5, <1>6, <1>7, <2>1 DEF IsRun
<1>10. ASSUME NEW k \in 1 .. Len(ef) PROVE Turns(r[k - 1], ef[k], r[k])
  <2>1. CASE k \in 1 .. Len(e)
    <3>1. k \in 0 .. Len(e) /\ k - 1 \in 0 .. Len(e)
      BY <1>5, <2>1
    <3>2. r[k] = g[k] /\ r[k - 1] = g[k - 1] /\ ef[k] = e[k]
      BY <1>4, <1>6, <2>1, <3>1 DEF Joined
    <3> QED BY <1>1, <2>1, <3>2 DEF IsRun
  <2>2. CASE k \notin 1 .. Len(e)
    <3>1. PICK l \in 1 .. Len(f) : k = Len(e) + l
      <4>1. k - Len(e) \in 1 .. Len(f) /\ k = Len(e) + (k - Len(e))
        BY <1>5, <2>2
      <4> QED BY <4>1
    <3>2. l \in 0 .. Len(f) /\ l - 1 \in 0 .. Len(f) /\ k - 1 = Len(e) + (l - 1)
      BY <1>5, <3>1
    <3>3. r[k] = h[l] /\ r[k - 1] = h[l - 1] /\ ef[k] = f[l]
      BY <1>4, <1>7, <3>1, <3>2 DEF Joined
    <3> QED BY <1>2, <3>3 DEF IsRun
  <2> QED BY <2>1, <2>2
<1>11. IsRun(r, a, ef, z)
  BY <1>8, <1>9, <1>10 DEF IsRun
<1> QED BY <1>4, <1>11 DEF Runs, ef

LEMMA RunsFirst ==
    ASSUME NEW a, NEW e, NEW z, Runs(a, e, z), e # <<>>
    PROVE  \E b \in Boards : Turns(a, Head(e), b) /\ Runs(b, Tail(e), z)
<1>1. PICK g : IsRun(g, a, e, z)
  BY DEF Runs
<1> DEFINE t == Tail(e)
<1>2. /\ IsSeq(t) /\ Len(e) \in Nat \ {0} /\ Len(t) = Len(e) - 1
      /\ Head(e) = e[1] /\ \A k \in 1 .. Len(e) - 1 : t[k] = e[k + 1]
  BY FirstTaken DEF Runs
<1> HIDE DEF t
<1> DEFINE h == [k \in 0 .. Len(t) |-> g[k + 1]]
<1>3. /\ \A k \in 0 .. Len(t) : k + 1 \in 0 .. Len(e) /\ h[k] = g[k + 1]
      /\ h \in [0 .. Len(t) -> Boards]
  <2>1. \A k \in 0 .. Len(t) : k + 1 \in 0 .. Len(e)
    BY <1>2
  <2> QED BY <1>1, <2>1 DEF IsRun
<1> HIDE DEF h
<1>4. h[0] = g[1] /\ h[Len(t)] = z
  <2>1. 0 \in 0 .. Len(t) /\ 0 + 1 = 1 /\ Len(t) \in 0 .. Len(t) /\ Len(t) + 1 = Len(e)
    BY <1>2
  <2> QED BY <1>1, <1>3, <2>1 DEF IsRun
<1>5. ASSUME NEW k \in 1 .. Len(t) PROVE Turns(h[k - 1], t[k], h[k])
  <2>1. k \in 0 .. Len(t) /\ k - 1 \in 0 .. Len(t) /\ k + 1 \in 1 .. Len(e) /\ (k + 1) - 1 = k /\ (k - 1) + 1 = k
    BY <1>2
  <2>2. h[k] = g[k + 1] /\ h[k - 1] = g[k] /\ t[k] = e[k + 1]
    BY <1>2, <1>3, <2>1
  <2>3. Turns(g[(k + 1) - 1], e[k + 1], g[k + 1])
    BY <1>1, <2>1 DEF IsRun
  <2> QED BY <2>1, <2>2, <2>3
<1>6. Runs(g[1], t, z)
  <2>1. IsRun(h, g[1], t, z)
    BY <1>3, <1>4, <1>5 DEF IsRun
  <2> QED BY <1>2, <2>1 DEF Runs
<1>7. Turns(a, Head(e), g[1])
  <2>1. 1 \in 1 .. Len(e) /\ 1 - 1 = 0
    BY <1>2
  <2>2. Turns(g[1 - 1], e[1], g[1])
    BY <1>1, <2>1 DEF IsRun
  <2> QED BY <1>1, <1>2, <2>1, <2>2 DEF IsRun
<1>8. g[1] \in Boards
  BY <1>6, RunsTyped
<1> QED BY <1>6, <1>7, <1>8 DEF t

\* An event that changes the status of its block.
LEMMA TurnOf ==
    ASSUME NEW a \in Boards, NEW x, x.index \in Nat, NEW to \in BlockStatuses,
           Goes(x, a[x.index], to)
    PROVE  [a EXCEPT ![x.index] = to] \in Boards /\ Turns(a, x, [a EXCEPT ![x.index] = to])
BY DEF Boards, Turns

-----------------------------------------------------------------------------
(* What the client was sent.                                               *)

\* The text of an item that was d, after an event.
Told(e, p, d) == IF e.event = "delta" /\ e.item = p THEN d \o e.text ELSE d

\* f is the function that DeltasOf(s, p) chooses, or its first k values.
IsDeltas(f, k, s, p) == f = [n \in 0 .. k |-> IF n = 0 THEN <<>> ELSE Told(s[n], p, f[n - 1])]

LEMMA DeltasExist ==
    ASSUME NEW s, NEW p, NEW m \in Nat
    PROVE  \E f : IsDeltas(f, m, s, p)
<1> DEFINE Good == { k \in Nat : \E f : IsDeltas(f, k, s, p) }
<1>1. 0 \in Good
  <2> DEFINE f == [n \in 0 .. 0 |-> <<>>]
  <2>1. f = [n \in 0 .. 0 |-> IF n = 0 THEN <<>> ELSE Told(s[n], p, f[n - 1])]
    OBVIOUS
  <2> HIDE DEF f
  <2> QED BY <2>1 DEF IsDeltas
<1>2. ASSUME NEW k \in 1 .. m, k - 1 \in Good PROVE k \in Good
  <2>0. k \in Nat /\ k # 0
    BY <1>2
  <2>1. PICK f : IsDeltas(f, k - 1, s, p)
    BY <1>2
  <2>2. PICK g : IsLonger(g, f, k, Told(s[k], p, f[k - 1]))
    BY <2>0, Longer, Zenon
  <2>3. \A n \in 0 .. k - 1 : f[n] = IF n = 0 THEN <<>> ELSE Told(s[n], p, f[n - 1])
    BY <2>1, Zenon DEF IsDeltas
  <2>4. \A n \in 0 .. k : g[n] = IF n = 0 THEN <<>> ELSE Told(s[n], p, g[n - 1])
    BY <2>2, <2>3 DEF IsLonger
  <2>5. g = [n \in 0 .. k |-> IF n = 0 THEN <<>> ELSE Told(s[n], p, g[n - 1])]
    BY <2>2, <2>4 DEF IsLonger
  <2> QED BY <2>0, <2>5, Zenon DEF IsDeltas
<1>3. m \in Good
  <2> HIDE DEF Good
  <2> QED BY <1>1, <1>2, InductionUpTo
<1> QED BY <1>3

LEMMA DeltasOfAre ==
    ASSUME NEW s, NEW p, Len(s) \in Nat
    PROVE  \E f : IsDeltas(f, Len(s), s, p) /\ DeltasOf(s, p) = f[Len(s)]
<1> DEFINE f == CHOOSE f : IsDeltas(f, Len(s), s, p)
<1>1. IsDeltas(f, Len(s), s, p)
  BY DeltasExist
<1>2. DeltasOf(s, p) = f[Len(s)]
  BY DEF DeltasOf, IsDeltas, Told
<1> QED BY <1>1, <1>2

LEMMA DeltasAt ==
    ASSUME NEW f, NEW m \in Nat, NEW s, NEW p, IsDeltas(f, m, s, p)
    PROVE  f[0] = <<>> /\ \A n \in 1 .. m : f[n] = Told(s[n], p, f[n - 1])
<1>1. ASSUME NEW n \in 0 .. m PROVE f[n] = IF n = 0 THEN <<>> ELSE Told(s[n], p, f[n - 1])
  BY Zenon DEF IsDeltas
<1>2. 0 \in 0 .. m /\ \A n \in 1 .. m : n \in 0 .. m /\ n # 0
  OBVIOUS
<1> QED BY <1>1, <1>2

\* The text so far does not depend on what comes later.
LEMMA DeltasAgree ==
    ASSUME NEW f, NEW g, NEW m \in Nat, NEW n \in Nat, NEW s, NEW t, NEW p, m <= n,
           IsDeltas(f, m, s, p), IsDeltas(g, n, t, p), \A k \in 1 .. m : s[k] = t[k]
    PROVE  f[m] = g[m]
<1> DEFINE Good == { k \in Nat : f[k] = g[k] }
<1>1. f[0] = <<>> /\ \A k \in 1 .. m : f[k] = Told(s[k], p, f[k - 1])
  BY DeltasAt
<1>2. g[0] = <<>> /\ \A k \in 1 .. n : g[k] = Told(t[k], p, g[k - 1])
  BY DeltasAt
<1>3. 0 \in Good
  BY <1>1, <1>2
<1>4. ASSUME NEW k \in 1 .. m, k - 1 \in Good PROVE k \in Good
  <2>1. k \in 1 .. n /\ k \in Nat
    OBVIOUS
  <2> QED BY <1>1, <1>2, <1>4, <2>1
<1>5. m \in Good
  <2> HIDE DEF Good
  <2> QED BY <1>3, <1>4, InductionUpTo
<1> QED BY <1>5

LEMMA EventAdded ==
    ASSUME NEW s, IsSeq(s), NEW e
    PROVE  /\ IsSeq(s \o <<e>>) /\ Len(s) \in Nat /\ Len(s \o <<e>>) = Len(s) + 1
           /\ (s \o <<e>>)[Len(s) + 1] = e
           /\ \A k \in 1 .. Len(s) : (s \o <<e>>)[k] = s[k]
<1>1. <<e>> \in Seq({e}) /\ Len(<<e>>) = 1 /\ <<e>>[1] = e
  OBVIOUS
<1>2. IsSeq(<<e>>)
  BY <1>1 DEF IsSeq
<1>3. IsSeq(s \o <<e>>) /\ Joined(s, <<e>>, s \o <<e>>)
  BY <1>2, JoinedSeqs
<1>4. 1 \in 1 .. Len(<<e>>)
  BY <1>1
<1> QED BY <1>1, <1>3, <1>4 DEF Joined

LEMMA DeltasOn ==
    ASSUME NEW s, IsSeq(s), NEW e, NEW p
    PROVE  DeltasOf(s \o <<e>>, p) = Told(e, p, DeltasOf(s, p))
<1> DEFINE t == s \o <<e>>
<1>1. /\ Len(s) \in Nat /\ Len(t) = Len(s) + 1 /\ t[Len(s) + 1] = e
      /\ \A k \in 1 .. Len(s) : s[k] = t[k]
  BY EventAdded
<1> HIDE DEF t
<1>2. PICK f : IsDeltas(f, Len(s), s, p) /\ DeltasOf(s, p) = f[Len(s)]
  BY <1>1, DeltasOfAre
<1>3. PICK g : IsDeltas(g, Len(t), t, p) /\ DeltasOf(t, p) = g[Len(t)]
  BY <1>1, DeltasOfAre
<1>4. Len(t) \in Nat /\ Len(s) <= Len(t) /\ Len(t) \in 1 .. Len(t) /\ Len(t) - 1 = Len(s)
  BY <1>1
<1>5. f[Len(s)] = g[Len(s)]
  BY <1>1, <1>2, <1>3, <1>4, DeltasAgree
<1>6. g[Len(t)] = Told(t[Len(t)], p, g[Len(t) - 1])
  <2>1. \A n \in 1 .. Len(t) : g[n] = Told(t[n], p, g[n - 1])
    BY <1>3, <1>4, DeltasAt
  <2> QED BY <1>4, <2>1
<1>7. DeltasOf(t, p) = Told(e, p, DeltasOf(s, p))
  BY <1>1, <1>2, <1>3, <1>4, <1>5, <1>6
<1> QED BY <1>7 DEF t

LEMMA NoDeltas ==
    ASSUME NEW s, IsSeq(s), NEW p, \A k \in 1 .. Len(s) : s[k].item # p
    PROVE  DeltasOf(s, p) = <<>>
<1>1. Len(s) \in Nat
  BY LenProperties DEF IsSeq
<1>2. PICK f : IsDeltas(f, Len(s), s, p) /\ DeltasOf(s, p) = f[Len(s)]
  BY <1>1, DeltasOfAre
<1>3. f[0] = <<>> /\ \A n \in 1 .. Len(s) : f[n] = Told(s[n], p, f[n - 1])
  BY <1>1, <1>2, DeltasAt
<1> DEFINE Good == { k \in Nat : f[k] = <<>> }
<1>4. 0 \in Good
  BY <1>3
<1>5. ASSUME NEW k \in 1 .. Len(s), k - 1 \in Good PROVE k \in Good
  <2>1. f[k] = f[k - 1]
    BY <1>3 DEF Told
  <2> QED BY <1>1, <1>5, <2>1
<1>6. Len(s) \in Good
  <2> HIDE DEF Good
  <2> QED BY <1>1, <1>4, <1>5, InductionUpTo
<1> QED BY <1>2, <1>6

\* No event has closed the item.
NotClosed(s, p) == \A k \in 1 .. Len(s) : Closes(s[k]) => s[k].item # p

\* Of what was sent, for an answer of n items: no event is about another one,
\* and each item is closed once with its text.
Tidy(s, n) ==
    /\ IsSeq(s) /\ n \in Nat
    /\ \A k \in 1 .. Len(s) : s[k].item \in 0 .. n /\ (Closes(s[k]) => s[k].item # 0)
    /\ \A i \in 1 .. Len(s) : Closes(s[i]) =>
          /\ \A j \in i + 1 .. Len(s) : s[j].item # s[i].item
          /\ s[i].event = "itemDone" => DeltasOf(s, s[i].item) \in {<<>>, s[i].text}

\* An event that may come next.
MayFollow(s, n, e) ==
    /\ e.item \in 0 .. n
    /\ NotClosed(s, e.item)
    /\ Closes(e) => e.item # 0
    /\ e.event = "itemDone" => DeltasOf(s, e.item) \in {<<>>, e.text}

LEMMA NotClosedOn ==
    ASSUME NEW s, IsSeq(s), NEW e, NEW p, NotClosed(s, p), Closes(e) => e.item # p
    PROVE  NotClosed(s \o <<e>>, p)
<1> DEFINE t == s \o <<e>>
<1>1. /\ Len(s) \in Nat /\ Len(t) = Len(s) + 1 /\ t[Len(s) + 1] = e
      /\ \A k \in 1 .. Len(s) : t[k] = s[k]
  BY EventAdded
<1> HIDE DEF t
<1>2. \A k \in 1 .. Len(t) : k = Len(s) + 1 \/ k \in 1 .. Len(s)
  BY <1>1
<1>3. ASSUME NEW k \in 1 .. Len(t), Closes(t[k]) PROVE t[k].item # p
  BY <1>1, <1>2, <1>3 DEF NotClosed
<1> QED BY <1>3 DEF NotClosed, t

LEMMA TidyOn ==
    ASSUME NEW s, NEW m, Tidy(s, m), NEW n \in Nat, m <= n, NEW e, MayFollow(s, n, e)
    PROVE  Tidy(s \o <<e>>, n)
<1> DEFINE t == s \o <<e>>
<1>0. IsSeq(s) /\ m \in Nat
  BY DEF Tidy
<1>1. /\ IsSeq(t) /\ Len(s) \in Nat /\ Len(t) = Len(s) + 1 /\ t[Len(s) + 1] = e
      /\ \A k \in 1 .. Len(s) : t[k] = s[k]
  BY <1>0, EventAdded
<1>2. \A p : DeltasOf(t, p) = Told(e, p, DeltasOf(s, p))
  BY <1>0, DeltasOn
<1> HIDE DEF t
<1>3. \A k \in 1 .. Len(t) : k = Len(s) + 1 \/ k \in 1 .. Len(s)
  BY <1>1
<1>4. ASSUME NEW k \in 1 .. Len(t) PROVE t[k].item \in 0 .. n /\ (Closes(t[k]) => t[k].item # 0)
  <2>1. CASE k = Len(s) + 1
    BY <1>1, <2>1 DEF MayFollow
  <2>2. CASE k \in 1 .. Len(s)
    <3>1. t[k] = s[k] /\ s[k].item \in 0 .. m /\ (Closes(s[k]) => s[k].item # 0)
      BY <1>1, <2>2 DEF Tidy
    <3> QED BY <1>0, <3>1
  <2> QED BY <1>3, <2>1, <2>2
<1>5. ASSUME NEW i \in 1 .. Len(t), Closes(t[i])
      PROVE  /\ \A j \in i + 1 .. Len(t) : t[j].item # t[i].item
             /\ t[i].event = "itemDone" => DeltasOf(t, t[i].item) \in {<<>>, t[i].text}
  <2>1. CASE i = Len(s) + 1
    <3>1. t[i] = e /\ i + 1 .. Len(t) = {} /\ Closes(e)
      BY <1>1, <1>5, <2>1
    <3>2. DeltasOf(t, e.item) = DeltasOf(s, e.item)
      BY <1>2, <3>1 DEF Closes, Told
    <3> QED BY <3>1, <3>2 DEF MayFollow
  <2>2. CASE i \in 1 .. Len(s)
    <3>1. t[i] = s[i] /\ Closes(s[i])
      BY <1>1, <1>5, <2>2
    <3>2. /\ \A j \in i + 1 .. Len(s) : s[j].item # s[i].item
          /\ s[i].event = "itemDone" => DeltasOf(s, s[i].item) \in {<<>>, s[i].text}
      BY <2>2, <3>1 DEF Tidy
    <3>3. e.item # s[i].item
      BY <2>2, <3>1 DEF MayFollow, NotClosed
    <3>4. DeltasOf(t, s[i].item) = DeltasOf(s, s[i].item)
      BY <1>2, <3>3 DEF Told
    <3>5. ASSUME NEW j \in i + 1 .. Len(t) PROVE t[j].item # t[i].item
      <4>1. j = Len(s) + 1 \/ (j \in i + 1 .. Len(s) /\ j \in 1 .. Len(s))
        BY <1>1, <2>2
      <4> QED BY <1>1, <3>1, <3>2, <3>3, <4>1
    <3> QED BY <3>1, <3>2, <3>4, <3>5
  <2> QED BY <1>3, <2>1, <2>2
<1> QED BY <1>0, <1>1, <1>4, <1>5 DEF Tidy, t

\* A second event may follow an event.
LEMMA SendTwo ==
    ASSUME NEW s, IsSeq(s), NEW e, NEW f
    PROVE  s \o <<e, f>> = (s \o <<e>>) \o <<f>>
<1>1. PICK S : s \in Seq(S)
  BY DEF IsSeq
<1> DEFINE U == S \cup {e, f}
<1>2. s \in Seq(U)
  <2>1. S \subseteq U
    OBVIOUS
  <2> HIDE DEF U
  <2> QED BY <1>1, <2>1, SeqMonotonic
<1>3. <<e>> \in Seq(U) /\ <<f>> \in Seq(U)
  OBVIOUS
<1>4. <<e, f>> = <<e>> \o <<f>>
  <2>1. <<e, f>> = Append(<<e>>, f) /\ f \in U
    OBVIOUS
  <2> HIDE DEF U
  <2> QED BY <1>3, <2>1, AppendIsConcat
<1> HIDE DEF U
<1>5. (s \o <<e>>) \o <<f>> = s \o (<<e>> \o <<f>>)
  BY <1>2, <1>3, ConcatAssociative
<1> QED BY <1>4, <1>5

\* An item that is not there yet.
LEMMA NewItem ==
    ASSUME NEW s, NEW n, Tidy(s, n)
    PROVE  /\ n + 1 \in Nat \ {0}
           /\ NotClosed(s, n + 1) /\ DeltasOf(s, n + 1) = <<>>
           /\ NotClosed(s, 0)
<1>1. IsSeq(s) /\ n \in Nat
  BY DEF Tidy
<1>2. \A k \in 1 .. Len(s) : s[k].item # n + 1 /\ (Closes(s[k]) => s[k].item # 0)
  BY <1>1 DEF Tidy
<1>3. DeltasOf(s, n + 1) = <<>>
  BY <1>1, <1>2, NoDeltas
<1> QED BY <1>1, <1>2, <1>3 DEF NotClosed

\* What is known of t, which is s and an event.
SentOn(s, n, e, t) ==
    /\ Tidy(t, n)
    /\ \A p : DeltasOf(t, p) = Told(e, p, DeltasOf(s, p))
    /\ \A p : NotClosed(s, p) /\ (Closes(e) => e.item # p) => NotClosed(t, p)

LEMMA SendOne ==
    ASSUME NEW s, NEW m, Tidy(s, m), NEW n \in Nat, m <= n, NEW e, MayFollow(s, n, e)
    PROVE  SentOn(s, n, e, s \o <<e>>)
<1>1. Tidy(s \o <<e>>, n)
  BY TidyOn
<1>2. IsSeq(s)
  BY DEF Tidy
<1>3. \A p : DeltasOf(s \o <<e>>, p) = Told(e, p, DeltasOf(s, p))
  BY <1>2, DeltasOn
<1>4. ASSUME NEW p, NotClosed(s, p), Closes(e) => e.item # p PROVE NotClosed(s \o <<e>>, p)
  BY <1>2, <1>4, NotClosedOn
<1> QED BY <1>1, <1>3, <1>4 DEF SentOn

\* The same for two events, of which the first closes nothing.
SentTwoOn(s, n, e, f, t) ==
    /\ Tidy(t, n)
    /\ \A p : DeltasOf(t, p) = Told(f, p, Told(e, p, DeltasOf(s, p)))
    /\ \A p : NotClosed(s, p) /\ (Closes(f) => f.item # p) => NotClosed(t, p)

LEMMA SendBoth ==
    ASSUME NEW s, NEW m, Tidy(s, m), NEW n \in Nat, m <= n, NEW e, MayFollow(s, n, e), ~Closes(e),
           NEW f, f.item \in 0 .. n, NotClosed(s, f.item), Closes(f) => f.item # 0,
           f.event = "itemDone" => Told(e, f.item, DeltasOf(s, f.item)) \in {<<>>, f.text}
    PROVE  SentTwoOn(s, n, e, f, s \o <<e, f>>)
<1>0. IsSeq(s)
  BY DEF Tidy
<1> DEFINE r == s \o <<e>>
<1>1. s \o <<e, f>> = r \o <<f>>
  BY <1>0, SendTwo
<1>2. SentOn(s, n, e, r)
  BY SendOne
<1> HIDE DEF r
<1>3. MayFollow(r, n, f)
  BY <1>2 DEF MayFollow, SentOn
<1>4. Tidy(r, n) /\ n <= n
  BY <1>2 DEF SentOn
<1>5. SentOn(r, n, f, r \o <<f>>)
  BY <1>3, <1>4, SendOne
<1> QED BY <1>1, <1>2, <1>5 DEF SentOn, SentTwoOn

-----------------------------------------------------------------------------
(* What streamLoop keeps of a block fits how far the block is.             *)

IndexFits(state, i) ==
    /\ state = "new" =>
          /\ i \notin DOMAIN contentText /\ i \notin DOMAIN outputIndexes
          /\ i \notin reasonIndexes /\ i \notin DOMAIN toolCallArgs /\ i \notin toolCallFinalized
    /\ state = "text" =>
          /\ i \in DOMAIN contentText /\ i \notin reasonIndexes
          /\ i \in DOMAIN outputIndexes => /\ NotClosed(sent, outputIndexes[i])
                                           /\ DeltasOf(sent, outputIndexes[i]) = contentText[i]
          /\ i \notin DOMAIN outputIndexes => contentText[i] = <<>>
    /\ state = "reasoning" =>
          /\ i \in reasonIndexes /\ i \in DOMAIN outputIndexes
          /\ NotClosed(sent, outputIndexes[i])
    /\ state \in {"call", "calling"} =>
          /\ i \in DOMAIN outputIndexes /\ i \notin reasonIndexes /\ i \notin DOMAIN contentText
          /\ i \notin toolCallFinalized
          /\ NotClosed(sent, outputIndexes[i])
          /\ DeltasOf(sent, outputIndexes[i]) = TextAt(toolCallArgs, i)
          /\ state = "call" => TextAt(toolCallArgs, i) = <<>>
    /\ state = "called" =>
          i \notin reasonIndexes /\ i \notin DOMAIN contentText /\ i \in toolCallFinalized

OneEach == \A i, j \in DOMAIN outputIndexes : outputIndexes[i] = outputIndexes[j] => i = j

Fits(a) ==
    /\ Tidy(sent, Len(output))
    /\ OneEach
    /\ \A i \in Nat : IndexFits(a[i], i)

\* A step leaves the maps as they are for an index.
SameAt(j) ==
    /\ j \in DOMAIN contentText' <=> j \in DOMAIN contentText
    /\ j \in DOMAIN contentText => contentText'[j] = contentText[j]
    /\ j \in DOMAIN outputIndexes' <=> j \in DOMAIN outputIndexes
    /\ j \in DOMAIN outputIndexes => outputIndexes'[j] = outputIndexes[j]
    /\ j \in DOMAIN toolCallArgs' <=> j \in DOMAIN toolCallArgs
    /\ j \in DOMAIN toolCallArgs => toolCallArgs'[j] = toolCallArgs[j]
    /\ j \in reasonIndexes' <=> j \in reasonIndexes
    /\ j \in toolCallFinalized' <=> j \in toolCallFinalized

\* A step says nothing of an item.
SilentOf(p) ==
    /\ NotClosed(sent, p) => NotClosed(sent', p)
    /\ DeltasOf(sent', p) = DeltasOf(sent, p)

LEMMA IndexKept ==
    ASSUME NEW j, NEW state, IndexFits(state, j), SameAt(j),
           j \in DOMAIN outputIndexes => SilentOf(outputIndexes[j])
    PROVE  IndexFits(state, j)'
BY DEF IndexFits, SameAt, SilentOf, TextAt

LEMMA BoardFits ==
    ASSUME NEW a \in Boards, Fits(a), NEW i \in Nat, NEW to \in BlockStatuses,
           Tidy(sent, Len(output))', OneEach',
           \A j \in Nat : j # i => SameAt(j) /\ (j \in DOMAIN outputIndexes => SilentOf(outputIndexes[j])),
           IndexFits(to, i)'
    PROVE  Fits([a EXCEPT ![i] = to])'
<1> DEFINE b == [a EXCEPT ![i] = to]
<1>1. b[i] = to /\ \A j \in Nat : j # i => b[j] = a[j]
  BY DEF Boards
<1> HIDE DEF b
<1>2. ASSUME NEW j \in Nat PROVE IndexFits(b[j], j)'
  <2>1. CASE j = i
    BY <1>1, <2>1
  <2>2. CASE j # i
    <3>1. IndexFits(a[j], j) /\ SameAt(j) /\ (j \in DOMAIN outputIndexes => SilentOf(outputIndexes[j]))
      BY <2>2 DEF Fits
    <3>2. IndexFits(a[j], j)'
      BY <3>1, IndexKept
    <3> QED BY <1>1, <2>2, <3>2
  <2> QED BY <2>1, <2>2
<1> QED BY <1>2 DEF Fits, b

-----------------------------------------------------------------------------
(* The steps of streamLoop, in their turn.                                 *)

LEMMA OutputLength ==
    ASSUME LoopInv
    PROVE  /\ Len(output) \in Nat /\ DOMAIN output = 1 .. Len(output)
           /\ \A j \in DOMAIN outputIndexes : outputIndexes[j] \in 1 .. Len(output)
<1>1. PICK D : output \in Seq(ItemsWith(D))
  BY DEF LoopInv, OutputShape
<1>2. Len(output) \in Nat /\ DOMAIN output = 1 .. Len(output)
  BY <1>1
<1> QED BY <1>2 DEF LoopInv, MapsFit

LEMMA LengthKept ==
    ASSUME LoopInv, LoopInv', DOMAIN output' = DOMAIN output
    PROVE  Len(output') = Len(output)
<1>1. Len(output) \in Nat /\ DOMAIN output = 1 .. Len(output)
  BY OutputLength
<1>2. PICK D : output' \in Seq(ItemsWith(D))
  BY DEF LoopInv, OutputShape
<1>3. Len(output') \in Nat /\ DOMAIN output' = 1 .. Len(output')
  BY <1>2
<1> QED BY <1>1, <1>3

LEMMA LengthGrows ==
    ASSUME LoopInv, NEW t, output' = Append(output, Item(t))
    PROVE  Len(output') = Len(output) + 1
<1>1. PICK D : output \in Seq(ItemsWith(D))
  BY DEF LoopInv, OutputShape
<1>2. output \in Seq(ItemsWith(D) \cup {Item(t)})
  <2>1. ItemsWith(D) \subseteq ItemsWith(D) \cup {Item(t)}
    OBVIOUS
  <2> QED BY <1>1, <2>1, SeqMonotonic
<1> DEFINE S == ItemsWith(D) \cup {Item(t)}
<1>3. Item(t) \in S
  OBVIOUS
<1> HIDE DEF S
<1> QED BY <1>2, <1>3, Appended DEF S

\* What is said of one item is said of no other.
LEMMA Silent ==
    ASSUME NEW n, NEW e, SentOn(sent, n, e, sent'), NEW p, e.item # p
    PROVE  SilentOf(p)
BY DEF SentOn, SilentOf, Told

LEMMA SilentBoth ==
    ASSUME NEW n, NEW e, NEW f, SentTwoOn(sent, n, e, f, sent'), NEW p, e.item # p, f.item # p
    PROVE  SilentOf(p)
BY DEF SentTwoOn, SilentOf, Told

LEMMA SilentIfQuiet == ASSUME sent' = sent, NEW p PROVE SilentOf(p)
BY DEF SilentOf

\* What is assumed of each step: where the block stands that the event is of.
InTurn(a, i, to) ==
    /\ LoopInv /\ Fits(a)
    /\ a \in Boards /\ i \in Nat /\ i = Index /\ to \in BlockStatuses
    /\ Goes(Event, a[i], to)

LEMMA InTurnFits ==
    ASSUME NEW a, NEW i, NEW to, InTurn(a, i, to)
    PROVE  /\ IndexFits(a[i], i) /\ Tidy(sent, Len(output)) /\ OneEach
           /\ Len(output) \in Nat
           /\ \A j \in DOMAIN outputIndexes : outputIndexes[j] \in 1 .. Len(output)
BY OutputLength DEF InTurn, Fits

LEMMA TextStartedFits ==
    ASSUME NEW a, NEW i, NEW to, InTurn(a, i, to), TextStarted
    PROVE  Fits([a EXCEPT ![i] = to])'
<1>1. IndexFits(a[i], i) /\ Tidy(sent, Len(output)) /\ OneEach
  BY InTurnFits
<1>2. a[i] = "new" /\ to = "text"
  BY DEF InTurn, Goes, TextStarted, Takes, Event
<1>3. /\ contentText' = Put(contentText, i, <<>>)
      /\ UNCHANGED <<toolCallArgs, outputIndexes, reasonIndexes, toolCallFinalized, output, sent>>
  BY DEF InTurn, TextStarted
<1>4. IndexFits(to, i)'
  BY <1>1, <1>2, <1>3 DEF IndexFits, Put
<1>5. ASSUME NEW j \in Nat, j # i PROVE SameAt(j) /\ (j \in DOMAIN outputIndexes => SilentOf(outputIndexes[j]))
  BY <1>3, <1>5, SilentIfQuiet DEF SameAt, Put
<1>6. Tidy(sent, Len(output))' /\ OneEach'
  BY <1>1, <1>3 DEF OneEach
<1> QED BY <1>4, <1>5, <1>6, BoardFits DEF InTurn

\* A started block gets its item: reasoning or a tool call.
LEMMA ItemStartedFits ==
    ASSUME NEW a, NEW i, NEW to, InTurn(a, i, to), ReasoningStarted \/ ToolStarted
    PROVE  Fits([a EXCEPT ![i] = to])'
<1>1. /\ IndexFits(a[i], i) /\ Tidy(sent, Len(output)) /\ OneEach
      /\ Len(output) \in Nat
      /\ \A j \in DOMAIN outputIndexes : outputIndexes[j] \in 1 .. Len(output)
  BY InTurnFits
<1> DEFINE q == Len(output) + 1
<1>2. PICK t \in {"reasoning", "function_call"} :
         /\ output' = Append(output, Item(t)) /\ outputIndexes' = Put(outputIndexes, i, q)
         /\ sent' = sent \o <<Added(t)>>
  BY DEF InTurn, ReasoningStarted, ToolStarted, AddItem, Send
<1> DEFINE e == Added(t)
<1>3. e.event = "added" /\ e.item = q /\ ~Closes(e)
  BY DEF Added, ClientEvent, Closes
<1> HIDE DEF e
<1>4. q \in Nat \ {0} /\ Len(output) <= q /\ NotClosed(sent, q) /\ DeltasOf(sent, q) = <<>>
  BY <1>1, NewItem
<1> HIDE DEF q
<1>5. MayFollow(sent, q, e)
  BY <1>3, <1>4 DEF MayFollow
<1>6. SentOn(sent, q, e, sent')
  BY <1>1, <1>2, <1>4, <1>5, SendOne DEF e
<1>7. Tidy(sent', q) /\ NotClosed(sent', q) /\ DeltasOf(sent', q) = <<>>
  BY <1>3, <1>4, <1>6 DEF SentOn, Told
<1>8. Len(output') = q
  <2>1. Len(output') = Len(output) + 1
    BY <1>2, LengthGrows DEF InTurn
  <2> QED BY <2>1 DEF q
<1>9. \A j \in DOMAIN outputIndexes : outputIndexes[j] # q
  BY <1>1 DEF q
<1>10. OneEach'
  BY <1>1, <1>2, <1>9 DEF OneEach, Put
<1>11. ASSUME NEW j \in Nat, j # i PROVE SameAt(j) /\ (j \in DOMAIN outputIndexes => SilentOf(outputIndexes[j]))
  <2>1. SameAt(j)
    BY <1>2, <1>11 DEF InTurn, SameAt, Put, ReasoningStarted, ToolStarted
  <2>2. j \in DOMAIN outputIndexes => SilentOf(outputIndexes[j])
    BY <1>3, <1>6, <1>9, Silent
  <2> QED BY <2>1, <2>2
<1>12. a[i] = "new"
  BY DEF InTurn, Goes, ReasoningStarted, ToolStarted, Takes, Event
<1>13. outputIndexes'[i] = q /\ i \in DOMAIN outputIndexes'
  BY <1>2 DEF Put
<1>14. IndexFits(to, i)'
  <2>1. CASE ReasoningStarted
    <3>1. to = "reasoning" /\ i \in reasonIndexes'
      BY <2>1 DEF InTurn, Goes, ReasoningStarted, Takes, Event
    <3> QED BY <1>7, <1>13, <3>1 DEF IndexFits
  <2>2. CASE ToolStarted
    <3>1. to = "call"
      BY <2>2 DEF InTurn, Goes, ToolStarted, Takes, Event
    <3>2. UNCHANGED <<contentText, toolCallArgs, reasonIndexes, toolCallFinalized>>
      BY <2>2 DEF ToolStarted
    <3> QED BY <1>1, <1>7, <1>12, <1>13, <3>1, <3>2 DEF IndexFits, TextAt
  <2> QED BY <2>1, <2>2
<1> QED BY <1>7, <1>8, <1>10, <1>11, <1>14, BoardFits DEF InTurn

\* An event that continues an item that is open: a delta.
LEMMA DeltaSaid ==
    ASSUME Tidy(sent, Len(output)), Len(output) \in Nat, NEW p \in 1 .. Len(output),
           NotClosed(sent, p), NEW t, NEW d, sent' = sent \o <<ClientEvent("delta", p, t, d)>>
    PROVE  /\ Tidy(sent', Len(output)) /\ NotClosed(sent', p)
           /\ DeltasOf(sent', p) = DeltasOf(sent, p) \o d
           /\ \A r : r # p => SilentOf(r)
<1> DEFINE e == ClientEvent("delta", p, t, d)
           n == Len(output)
<1>1. e.event = "delta" /\ e.item = p /\ e.text = d /\ ~Closes(e)
  BY DEF ClientEvent, Closes
<1> HIDE DEF e, n
<1>2. n \in Nat /\ n <= n /\ p \in 1 .. n /\ Tidy(sent, n) /\ p \in 0 .. n
  BY DEF n
<1>3. MayFollow(sent, n, e)
  BY <1>1, <1>2 DEF MayFollow
<1>4. SentOn(sent, n, e, sent')
  BY <1>2, <1>3, SendOne DEF e
<1>5. Tidy(sent', n) /\ NotClosed(sent', p) /\ DeltasOf(sent', p) = DeltasOf(sent, p) \o d
  BY <1>1, <1>4 DEF SentOn, Told
<1>6. \A r : r # p => SilentOf(r)
  BY <1>1, <1>4, Silent
<1> QED BY <1>5, <1>6 DEF n

LEMMA ReasoningDeltaFits ==
    ASSUME NEW a, NEW i, NEW to, InTurn(a, i, to), ReasoningDelta
    PROVE  Fits([a EXCEPT ![i] = to])'
<1>1. /\ IndexFits(a[i], i) /\ Tidy(sent, Len(output)) /\ OneEach
      /\ Len(output) \in Nat
      /\ \A j \in DOMAIN outputIndexes : outputIndexes[j] \in 1 .. Len(output)
  BY InTurnFits
<1>2. a[i] = "reasoning" /\ to = "reasoning"
  BY <1>1 DEF InTurn, Goes, ReasoningDelta, Takes, Event, IndexFits
<1>3. /\ i \in DOMAIN outputIndexes /\ NotClosed(sent, outputIndexes[i])
      /\ i \in reasonIndexes
  BY <1>1, <1>2 DEF IndexFits
<1>4. /\ sent' = sent \o <<ClientEvent("delta", outputIndexes[i], "reasoning", Event.delta)>>
      /\ \E d : contentText' = Put(contentText, i, d)
      /\ UNCHANGED <<toolCallArgs, outputIndexes, reasonIndexes, toolCallFinalized, output>>
  BY <1>3 DEF InTurn, ReasoningDelta, Send, Position, ReceiveText
<1> DEFINE p == outputIndexes[i]
<1>5. p \in 1 .. Len(output) /\ NotClosed(sent, p)
  BY <1>1, <1>3
<1>6. /\ Tidy(sent', Len(output)) /\ NotClosed(sent', p)
      /\ \A r : r # p => SilentOf(r)
  <2> HIDE DEF p
  <2>1. sent' = sent \o <<ClientEvent("delta", p, "reasoning", Event.delta)>>
    BY <1>4 DEF p
  <2> QED BY <1>1, <1>5, <2>1, DeltaSaid
<1>7. IndexFits(to, i)'
  BY <1>2, <1>3, <1>4, <1>6 DEF IndexFits
<1>8. ASSUME NEW j \in Nat, j # i PROVE SameAt(j) /\ (j \in DOMAIN outputIndexes => SilentOf(outputIndexes[j]))
  <2>1. SameAt(j)
    BY <1>4, <1>8 DEF SameAt, Put
  <2>2. j \in DOMAIN outputIndexes => outputIndexes[j] # p
    BY <1>1, <1>3, <1>8 DEF OneEach
  <2> QED BY <1>6, <2>1, <2>2
<1>9. Tidy(sent, Len(output))' /\ OneEach'
  BY <1>1, <1>4, <1>6 DEF OneEach
<1> QED BY <1>7, <1>8, <1>9, BoardFits DEF InTurn

LEMMA FirstTextDeltaFits ==
    ASSUME NEW a, NEW i, NEW to, InTurn(a, i, to), FirstTextDelta
    PROVE  Fits([a EXCEPT ![i] = to])'
<1>1. /\ IndexFits(a[i], i) /\ Tidy(sent, Len(output)) /\ OneEach
      /\ Len(output) \in Nat
      /\ \A j \in DOMAIN outputIndexes : outputIndexes[j] \in 1 .. Len(output)
  BY InTurnFits
<1>2. a[i] \in {"new", "text"} /\ to = "text" /\ i \notin reasonIndexes /\ i \notin DOMAIN outputIndexes
  BY <1>1 DEF InTurn, Goes, FirstTextDelta, Takes, Event, IndexFits
<1>3. TextAt(contentText, i) = <<>>
  BY <1>1, <1>2 DEF IndexFits, TextAt
<1> DEFINE q == Len(output) + 1
           d == Event.delta
           e == Added("message")
           f == ClientEvent("delta", q, "message", d)
<1>4. /\ output' = Append(output, Item("message")) /\ outputIndexes' = Put(outputIndexes, i, q)
      /\ sent' = sent \o <<e, f>>
      /\ contentText' = Put(contentText, i, <<>> \o d)
      /\ UNCHANGED <<toolCallArgs, reasonIndexes, toolCallFinalized>>
  BY <1>3 DEF InTurn, FirstTextDelta, AddItem, Send, ReceiveText
<1>5. /\ e.event = "added" /\ e.item = q /\ ~Closes(e)
      /\ f.event = "delta" /\ f.item = q /\ ~Closes(f) /\ f.text = d
  BY DEF Added, ClientEvent, Closes
<1> HIDE DEF e, f, d
<1>6. q \in Nat \ {0} /\ Len(output) <= q /\ NotClosed(sent, q) /\ DeltasOf(sent, q) = <<>>
  BY <1>1, NewItem
<1>7. Len(output') = q
  BY <1>4, LengthGrows DEF InTurn
<1>8. \A j \in DOMAIN outputIndexes : outputIndexes[j] # q
  BY <1>1
<1> HIDE DEF q
<1>9. MayFollow(sent, q, e) /\ f.item \in 0 .. q
  BY <1>5, <1>6 DEF MayFollow
<1>10. SentTwoOn(sent, q, e, f, sent')
  BY <1>1, <1>4, <1>5, <1>6, <1>9, SendBoth
<1>11. Tidy(sent', q) /\ NotClosed(sent', q) /\ DeltasOf(sent', q) = <<>> \o d
  BY <1>5, <1>6, <1>10 DEF SentTwoOn, Told
<1>12. OneEach'
  BY <1>1, <1>4, <1>8 DEF OneEach, Put
<1>13. ASSUME NEW j \in Nat, j # i PROVE SameAt(j) /\ (j \in DOMAIN outputIndexes => SilentOf(outputIndexes[j]))
  <2>1. SameAt(j)
    BY <1>4, <1>13 DEF SameAt, Put
  <2>2. j \in DOMAIN outputIndexes => SilentOf(outputIndexes[j])
    BY <1>5, <1>8, <1>10, SilentBoth
  <2> QED BY <2>1, <2>2
<1>14. IndexFits(to, i)'
  <2>1. /\ i \in DOMAIN outputIndexes' /\ outputIndexes'[i] = q
        /\ i \in DOMAIN contentText' /\ contentText'[i] = <<>> \o d
    BY <1>4 DEF Put
  <2> QED BY <1>2, <1>4, <1>11, <2>1 DEF IndexFits
<1> QED BY <1>7, <1>11, <1>12, <1>13, <1>14, BoardFits DEF InTurn

LEMMA FurtherTextDeltaFits ==
    ASSUME NEW a, NEW i, NEW to, InTurn(a, i, to), FurtherTextDelta
    PROVE  Fits([a EXCEPT ![i] = to])'
<1>1. /\ IndexFits(a[i], i) /\ Tidy(sent, Len(output)) /\ OneEach
      /\ Len(output) \in Nat
      /\ \A j \in DOMAIN outputIndexes : outputIndexes[j] \in 1 .. Len(output)
  BY InTurnFits
<1>2. /\ a[i] = "text" /\ to = "text" /\ i \notin reasonIndexes /\ i \in DOMAIN outputIndexes
  BY <1>1 DEF InTurn, Goes, FurtherTextDelta, Takes, Event, IndexFits
<1>3. /\ i \in DOMAIN contentText /\ NotClosed(sent, outputIndexes[i])
      /\ DeltasOf(sent, outputIndexes[i]) = contentText[i]
  BY <1>1, <1>2 DEF IndexFits
<1> DEFINE p == outputIndexes[i]
           d == Event.delta
<1>4. /\ sent' = sent \o <<ClientEvent("delta", p, "message", d)>>
      /\ contentText' = Put(contentText, i, contentText[i] \o d)
      /\ UNCHANGED <<toolCallArgs, outputIndexes, reasonIndexes, toolCallFinalized, output>>
  BY <1>2, <1>3 DEF InTurn, FurtherTextDelta, Send, Position, ReceiveText, TextAt
<1>5. p \in 1 .. Len(output) /\ NotClosed(sent, p)
  BY <1>1, <1>2, <1>3
<1>6. /\ Tidy(sent', Len(output)) /\ NotClosed(sent', p)
      /\ DeltasOf(sent', p) = DeltasOf(sent, p) \o d
      /\ \A r : r # p => SilentOf(r)
  <2> HIDE DEF p, d
  <2> QED BY <1>1, <1>4, <1>5, DeltaSaid
<1>7. IndexFits(to, i)'
  <2>1. i \in DOMAIN contentText' /\ contentText'[i] = contentText[i] \o d
    BY <1>4 DEF Put
  <2> QED BY <1>2, <1>3, <1>4, <1>6, <2>1 DEF IndexFits
<1>8. ASSUME NEW j \in Nat, j # i PROVE SameAt(j) /\ (j \in DOMAIN outputIndexes => SilentOf(outputIndexes[j]))
  <2>1. SameAt(j)
    BY <1>4, <1>8 DEF SameAt, Put
  <2>2. j \in DOMAIN outputIndexes => outputIndexes[j] # p
    BY <1>1, <1>2, <1>8 DEF OneEach
  <2> QED BY <1>6, <2>1, <2>2
<1>9. Tidy(sent, Len(output))' /\ OneEach'
  BY <1>1, <1>4, <1>6 DEF OneEach
<1> QED BY <1>7, <1>8, <1>9, BoardFits DEF InTurn

LEMMA ArgsDeltaFits ==
    ASSUME NEW a, NEW i, NEW to, InTurn(a, i, to), ToolCallArgsDelta
    PROVE  Fits([a EXCEPT ![i] = to])'
<1>1. /\ IndexFits(a[i], i) /\ Tidy(sent, Len(output)) /\ OneEach
      /\ Len(output) \in Nat
      /\ \A j \in DOMAIN outputIndexes : outputIndexes[j] \in 1 .. Len(output)
  BY InTurnFits
<1>2. a[i] \in {"call", "calling"} /\ to = "calling"
  BY DEF InTurn, Goes, ToolCallArgsDelta, Takes, Event
<1>3. /\ i \in DOMAIN outputIndexes /\ i \notin reasonIndexes /\ i \notin DOMAIN contentText
      /\ i \notin toolCallFinalized
      /\ NotClosed(sent, outputIndexes[i])
      /\ DeltasOf(sent, outputIndexes[i]) = TextAt(toolCallArgs, i)
  BY <1>1, <1>2 DEF IndexFits
<1> DEFINE p == outputIndexes[i]
           d == Event.delta
<1>4. /\ sent' = sent \o <<ClientEvent("delta", p, "function_call", d)>>
      /\ toolCallArgs' = Put(toolCallArgs, i, TextAt(toolCallArgs, i) \o d)
      /\ UNCHANGED <<contentText, outputIndexes, reasonIndexes, toolCallFinalized, output>>
  BY <1>3 DEF InTurn, ToolCallArgsDelta, Send, Position
<1>5. p \in 1 .. Len(output) /\ NotClosed(sent, p)
  BY <1>1, <1>3
<1>6. /\ Tidy(sent', Len(output)) /\ NotClosed(sent', p)
      /\ DeltasOf(sent', p) = DeltasOf(sent, p) \o d
      /\ \A r : r # p => SilentOf(r)
  <2> HIDE DEF p, d
  <2> QED BY <1>1, <1>4, <1>5, DeltaSaid
<1>7. IndexFits(to, i)'
  <2>1. i \in DOMAIN toolCallArgs' /\ toolCallArgs'[i] = TextAt(toolCallArgs, i) \o d
    BY <1>4 DEF Put
  <2>2. TextAt(toolCallArgs', i) = TextAt(toolCallArgs, i) \o d
    BY <2>1 DEF TextAt
  <2> QED BY <1>2, <1>3, <1>4, <1>6, <2>2 DEF IndexFits
<1>8. ASSUME NEW j \in Nat, j # i PROVE SameAt(j) /\ (j \in DOMAIN outputIndexes => SilentOf(outputIndexes[j]))
  <2>1. SameAt(j)
    BY <1>4, <1>8 DEF SameAt, Put
  <2>2. j \in DOMAIN outputIndexes => outputIndexes[j] # p
    BY <1>1, <1>3, <1>8 DEF OneEach
  <2> QED BY <1>6, <2>1, <2>2
<1>9. Tidy(sent, Len(output))' /\ OneEach'
  BY <1>1, <1>4, <1>6 DEF OneEach
<1> QED BY <1>7, <1>8, <1>9, BoardFits DEF InTurn

\* An item is closed with its text: done, and done as an item.
Ended(place, kind, items, words) ==
    << ClientEvent("done", place, kind, words), ClientEvent("itemDone", place, items, words) >>
EndedOn(size, place) == Tidy(sent', size) /\ \A r : r # place => SilentOf(r)

LEMMA EndSaid ==
    ASSUME NEW size \in Nat, Tidy(sent, Len(output)), Len(output) <= size,
           NEW place \in 1 .. size, NotClosed(sent, place),
           NEW kind, kind # "reasoning", NEW items, NEW words,
           DeltasOf(sent, place) \in {<<>>, words}, sent' = sent \o Ended(place, kind, items, words)
    PROVE  EndedOn(size, place)
<1> DEFINE e == ClientEvent("done", place, kind, words)
           f == ClientEvent("itemDone", place, items, words)
           m == Len(output)
<1>1. /\ e.event = "done" /\ e.item = place /\ ~Closes(e)
      /\ f.event = "itemDone" /\ f.item = place /\ f.text = words
  BY DEF ClientEvent, Closes
<1>2. sent' = sent \o <<e, f>> /\ Tidy(sent, m) /\ m <= size
  BY DEF Ended
<1> HIDE DEF e, f, m
<1>3. place \in 0 .. size /\ place # 0
  OBVIOUS
<1>4. MayFollow(sent, size, e)
  BY <1>1, <1>3 DEF MayFollow
<1>5. Told(e, f.item, DeltasOf(sent, f.item)) \in {<<>>, f.text}
  BY <1>1 DEF Told
<1>6. SentTwoOn(sent, size, e, f, sent')
  BY <1>1, <1>2, <1>3, <1>4, <1>5, SendBoth
<1>7. \A r : r # place => SilentOf(r)
  BY <1>1, <1>6, SilentBoth
<1> QED BY <1>6, <1>7 DEF SentTwoOn, EndedOn

LEMMA ArgsDoneFits ==
    ASSUME NEW a, NEW i, NEW to, InTurn(a, i, to), ToolCallArgsDone, LoopInv'
    PROVE  Fits([a EXCEPT ![i] = to])'
<1>1. /\ IndexFits(a[i], i) /\ Tidy(sent, Len(output)) /\ OneEach
      /\ Len(output) \in Nat
      /\ \A j \in DOMAIN outputIndexes : outputIndexes[j] \in 1 .. Len(output)
  BY InTurnFits
<1>2. to = "called" /\ (a[i] = "call" \/ (a[i] = "calling" /\ Event.delta = <<>>))
  BY DEF InTurn, Goes, ToolCallArgsDone, Takes, Event
<1>3. /\ i \in DOMAIN outputIndexes /\ i \notin reasonIndexes /\ i \notin DOMAIN contentText
      /\ NotClosed(sent, outputIndexes[i])
      /\ DeltasOf(sent, outputIndexes[i]) = TextAt(toolCallArgs, i)
      /\ a[i] = "call" => TextAt(toolCallArgs, i) = <<>>
  BY <1>1, <1>2 DEF IndexFits
<1> DEFINE p == outputIndexes[i]
           d == IF Event.delta # <<>> THEN Event.delta ELSE TextAt(toolCallArgs, i)
           u == output'[p].type
<1>4. /\ sent' = sent \o Ended(p, "function_call", u, d)
      /\ DOMAIN output' = DOMAIN output
      /\ toolCallFinalized' = toolCallFinalized \cup {i}
      /\ UNCHANGED <<contentText, toolCallArgs, outputIndexes, reasonIndexes>>
  BY <1>3 DEF InTurn, ToolCallArgsDone, Send, Position, Ended
<1>5. p \in 1 .. Len(output) /\ NotClosed(sent, p) /\ DeltasOf(sent, p) \in {<<>>, d}
  BY <1>1, <1>2, <1>3
<1>6. Len(output') = Len(output)
  BY <1>4, LengthKept DEF InTurn
<1>7. Tidy(sent', Len(output)) /\ \A r : r # p => SilentOf(r)
  <2>1. Len(output) <= Len(output) /\ "function_call" # "reasoning"
    BY <1>1
  <2> HIDE DEF p, d, u
  <2>2. EndedOn(Len(output), p)
    <3>1. sent' = sent \o Ended(p, "function_call", u, d) /\ Tidy(sent, Len(output)) /\ Len(output) \in Nat
      BY <1>1, <1>4
    <3> QED BY <1>5, <2>1, <3>1, EndSaid
  <2> QED BY <2>2 DEF EndedOn
<1>8. IndexFits(to, i)'
  BY <1>2, <1>3, <1>4 DEF IndexFits
<1>9. ASSUME NEW j \in Nat, j # i PROVE SameAt(j) /\ (j \in DOMAIN outputIndexes => SilentOf(outputIndexes[j]))
  <2>1. SameAt(j)
    BY <1>4, <1>9 DEF SameAt
  <2>2. j \in DOMAIN outputIndexes => outputIndexes[j] # p
    BY <1>1, <1>3, <1>9 DEF OneEach
  <2> QED BY <1>7, <2>1, <2>2
<1>10. Tidy(sent, Len(output))' /\ OneEach'
  BY <1>1, <1>4, <1>6, <1>7 DEF OneEach
<1> QED BY <1>8, <1>9, <1>10, BoardFits DEF InTurn

LEMMA ReasoningDoneFits ==
    ASSUME NEW a, NEW i, NEW to, InTurn(a, i, to), ReasoningDone, LoopInv'
    PROVE  Fits([a EXCEPT ![i] = to])'
<1>1. /\ IndexFits(a[i], i) /\ Tidy(sent, Len(output)) /\ OneEach
      /\ Len(output) \in Nat
      /\ \A j \in DOMAIN outputIndexes : outputIndexes[j] \in 1 .. Len(output)
  BY InTurnFits
<1>2. a[i] = "reasoning" /\ to = "over"
  BY <1>1 DEF InTurn, Goes, ReasoningDone, Takes, Event, IndexFits
<1>3. i \in DOMAIN outputIndexes /\ NotClosed(sent, outputIndexes[i])
  BY <1>1, <1>2 DEF IndexFits
<1> DEFINE p == outputIndexes[i]
           n == Len(output)
           e == ClientEvent("done", p, "reasoning", <<>>)
<1>4. /\ sent' = sent \o <<e>>
      /\ DOMAIN output' = DOMAIN output
      /\ contentText' = Delete(contentText, i) /\ outputIndexes' = Delete(outputIndexes, i)
      /\ reasonIndexes' = reasonIndexes \ {i}
      /\ UNCHANGED <<toolCallArgs, toolCallFinalized>>
  BY <1>3 DEF InTurn, ReasoningDone, ForgetReasoning, Send, Position
<1>5. p \in 1 .. n /\ NotClosed(sent, p) /\ n \in Nat /\ n <= n /\ Tidy(sent, n)
  BY <1>1, <1>3
<1>6. Len(output') = n
  BY <1>4, LengthKept DEF InTurn
<1>7. e.event = "done" /\ e.item = p
  BY DEF ClientEvent
<1>8. \A j \in DOMAIN outputIndexes : j # i => outputIndexes[j] # p
  BY <1>1, <1>3 DEF OneEach
<1> HIDE DEF p, n, e
<1>9. MayFollow(sent, n, e)
  BY <1>5, <1>7 DEF MayFollow
<1>10. SentOn(sent, n, e, sent')
  BY <1>4, <1>5, <1>9, SendOne
<1>11. \A r : r # p => SilentOf(r)
  BY <1>7, <1>10, Silent
<1>12. IndexFits(to, i)'
  BY <1>2 DEF IndexFits
<1>13. ASSUME NEW j \in Nat, j # i PROVE SameAt(j) /\ (j \in DOMAIN outputIndexes => SilentOf(outputIndexes[j]))
  <2>1. SameAt(j)
    BY <1>4, <1>13 DEF SameAt, Delete
  <2> QED BY <1>8, <1>11, <1>13, <2>1
<1>14. Tidy(sent, Len(output))' /\ OneEach'
  <2>1. OneEach'
    BY <1>1, <1>4 DEF OneEach, Delete
  <2> QED BY <1>6, <1>10, <2>1 DEF SentOn
<1> QED BY <1>12, <1>13, <1>14, BoardFits DEF InTurn

LEMMA TextDoneFits ==
    ASSUME NEW a, NEW i, NEW to, InTurn(a, i, to), TextDone, LoopInv'
    PROVE  Fits([a EXCEPT ![i] = to])'
<1>1. /\ IndexFits(a[i], i) /\ Tidy(sent, Len(output)) /\ OneEach
      /\ Len(output) \in Nat
      /\ \A j \in DOMAIN outputIndexes : outputIndexes[j] \in 1 .. Len(output)
  BY InTurnFits
<1>2. a[i] = "text" /\ to = "over" /\ i \in DOMAIN contentText
  BY <1>1 DEF InTurn, Goes, TextDone, Takes, Event, IndexFits
<1>3. /\ i \in DOMAIN outputIndexes => /\ NotClosed(sent, outputIndexes[i])
                                       /\ DeltasOf(sent, outputIndexes[i]) = contentText[i]
  BY <1>1, <1>2 DEF IndexFits
<1> DEFINE new == i \notin DOMAIN outputIndexes
           items == IF new THEN Append(output, Item("message")) ELSE output
           n == Len(items)
           p == IF new THEN n ELSE outputIndexes[i]
           d == contentText[i]
           u == items[p].type
<1>4. /\ sent' = sent \o Ended(p, "message", u, d)
      /\ DOMAIN output' = DOMAIN items
      /\ outputIndexes' = Put(outputIndexes, i, p) /\ contentText' = Delete(contentText, i)
      /\ UNCHANGED <<toolCallArgs, reasonIndexes, toolCallFinalized>>
  BY DEF InTurn, TextDone, Send, Position, Ended
<1>5. /\ n \in Nat /\ Len(output) <= n /\ DOMAIN items = 1 .. n
      /\ p \in 1 .. n /\ NotClosed(sent, p) /\ DeltasOf(sent, p) \in {<<>>, d}
      /\ \A j \in DOMAIN outputIndexes : j # i => outputIndexes[j] # p
  <2>1. CASE new
    <3>1. PICK D : output \in Seq(ItemsWith(D))
      BY DEF InTurn, LoopInv, OutputShape
    <3>2. "message" \in ItemTypes
      BY DEF ItemTypes
    <3>3. items \in Seq(ItemsWith(D \cup {<<>>})) /\ n = Len(output) + 1
      BY <2>1, <3>1, <3>2, ItemAppended
    <3>4. p = Len(output) + 1
      BY <2>1, <3>3
    <3>5. n \in Nat /\ DOMAIN items = 1 .. n
      <4> HIDE DEF items
      <4> QED BY <3>3
    <3>6. NotClosed(sent, Len(output) + 1) /\ DeltasOf(sent, Len(output) + 1) = <<>>
      BY <1>1, NewItem
    <3> HIDE DEF n, p, items
    <3> QED BY <1>1, <3>3, <3>4, <3>5, <3>6
  <2>2. CASE ~new
    <3>1. items = output /\ n = Len(output) /\ p = outputIndexes[i] /\ i \in DOMAIN outputIndexes
      BY <2>2
    <3>2. DOMAIN output = 1 .. Len(output)
      BY OutputLength DEF InTurn
    <3> HIDE DEF n, p, items, new
    <3> QED BY <1>1, <1>3, <3>1, <3>2 DEF OneEach
  <2> QED BY <2>1, <2>2
<1> HIDE DEF items, n, p, u
<1>6. Len(output') = n
  <2>1. PICK D : output' \in Seq(ItemsWith(D))
    BY DEF LoopInv, OutputShape
  <2>2. Len(output') \in Nat /\ DOMAIN output' = 1 .. Len(output')
    BY <2>1
  <2> QED BY <1>4, <1>5, <2>2
<1>7. Tidy(sent', n) /\ \A r : r # p => SilentOf(r)
  <2>1. "message" # "reasoning"
    OBVIOUS
  <2> HIDE DEF d
  <2>2. EndedOn(n, p)
    BY <1>1, <1>4, <1>5, <2>1, EndSaid
  <2> QED BY <2>2 DEF EndedOn
<1>8. IndexFits(to, i)'
  BY <1>2 DEF IndexFits
<1>9. ASSUME NEW j \in Nat, j # i PROVE SameAt(j) /\ (j \in DOMAIN outputIndexes => SilentOf(outputIndexes[j]))
  <2>1. SameAt(j)
    BY <1>4, <1>9 DEF SameAt, Put, Delete
  <2> QED BY <1>5, <1>7, <1>9, <2>1
<1>10. Tidy(sent, Len(output))' /\ OneEach'
  <2>1. OneEach'
    BY <1>1, <1>4, <1>5 DEF OneEach, Put
  <2> QED BY <1>6, <1>7, <2>1
<1> QED BY <1>8, <1>9, <1>10, BoardFits DEF InTurn

LEMMA ToolDoneFits ==
    ASSUME NEW a, NEW i, NEW to, InTurn(a, i, to), ToolDone, LoopInv'
    PROVE  Fits([a EXCEPT ![i] = to])'
<1>1. /\ IndexFits(a[i], i) /\ Tidy(sent, Len(output)) /\ OneEach
      /\ Len(output) \in Nat
      /\ \A j \in DOMAIN outputIndexes : outputIndexes[j] \in 1 .. Len(output)
  BY InTurnFits
<1>2. /\ i \notin reasonIndexes \cup DOMAIN contentText
      /\ i \in DOMAIN outputIndexes \ toolCallFinalized
  BY DEF InTurn, ToolDone, ToolIsOpen
<1>3. a[i] \in {"call", "calling"} /\ to = "over"
  BY <1>1, <1>2 DEF InTurn, Goes, ToolDone, Takes, Event, IndexFits
<1>4. /\ NotClosed(sent, outputIndexes[i])
      /\ DeltasOf(sent, outputIndexes[i]) = TextAt(toolCallArgs, i)
  BY <1>1, <1>3 DEF IndexFits
<1> DEFINE p == outputIndexes[i]
           d == TextAt(toolCallArgs, i)
           u == output[p].type
<1>5. /\ sent' = sent \o Ended(p, "function_call", u, d)
      /\ DOMAIN output' = DOMAIN output
      /\ toolCallArgs' = Delete(toolCallArgs, i)
      /\ toolCallFinalized' = toolCallFinalized \cup {i}
      /\ UNCHANGED <<contentText, outputIndexes, reasonIndexes>>
  BY <1>2 DEF InTurn, ToolDone, Send, Position, Ended
<1>6. p \in 1 .. Len(output) /\ NotClosed(sent, p) /\ DeltasOf(sent, p) \in {<<>>, d}
  BY <1>1, <1>2, <1>4
<1>7. Len(output') = Len(output)
  BY <1>5, LengthKept DEF InTurn
<1>8. Tidy(sent', Len(output)) /\ \A r : r # p => SilentOf(r)
  <2>1. Len(output) <= Len(output) /\ "function_call" # "reasoning"
    BY <1>1
  <2> HIDE DEF p, d, u
  <2>2. EndedOn(Len(output), p)
    <3>1. sent' = sent \o Ended(p, "function_call", u, d) /\ Tidy(sent, Len(output)) /\ Len(output) \in Nat
      BY <1>1, <1>5
    <3> QED BY <1>6, <2>1, <3>1, EndSaid
  <2> QED BY <2>2 DEF EndedOn
<1>9. IndexFits(to, i)'
  BY <1>3 DEF IndexFits
<1>10. ASSUME NEW j \in Nat, j # i PROVE SameAt(j) /\ (j \in DOMAIN outputIndexes => SilentOf(outputIndexes[j]))
  <2>1. SameAt(j)
    BY <1>5, <1>10 DEF SameAt, Delete
  <2>2. j \in DOMAIN outputIndexes => outputIndexes[j] # p
    BY <1>1, <1>2, <1>10 DEF OneEach
  <2> QED BY <1>8, <2>1, <2>2
<1>11. Tidy(sent, Len(output))' /\ OneEach'
  BY <1>1, <1>5, <1>7, <1>8 DEF OneEach
<1> QED BY <1>9, <1>10, <1>11, BoardFits DEF InTurn

\* Nothing is said and kept, and the board stays.
LEMMA QuietFits ==
    ASSUME NEW a, Fits(a),
           UNCHANGED <<contentText, toolCallArgs, outputIndexes, reasonIndexes, toolCallFinalized,
                       output, sent>>
    PROVE  Fits(a)'
BY DEF Fits, OneEach, IndexFits

LEMMA NothingDoneFits ==
    ASSUME NEW a, NEW i, NEW to, InTurn(a, i, to), NothingDone
    PROVE  Fits([a EXCEPT ![i] = to])'
<1>1. /\ IndexFits(a[i], i) /\ Tidy(sent, Len(output)) /\ OneEach
  BY InTurnFits
<1>2. /\ (a[i] = "new" /\ to = "new") \/ to = "over"
      /\ UNCHANGED <<contentText, toolCallArgs, outputIndexes, reasonIndexes, toolCallFinalized,
                     output, sent>>
  BY DEF InTurn, Goes, NothingDone, Takes, Event
<1>3. IndexFits(to, i)'
  BY <1>1, <1>2 DEF IndexFits
<1>4. ASSUME NEW j \in Nat, j # i PROVE SameAt(j) /\ (j \in DOMAIN outputIndexes => SilentOf(outputIndexes[j]))
  BY <1>2, SilentIfQuiet DEF SameAt
<1>5. Tidy(sent, Len(output))' /\ OneEach'
  BY <1>1, <1>2 DEF OneEach
<1> QED BY <1>3, <1>4, <1>5, BoardFits DEF InTurn

\* What a call's arguments complete is not complete already.
LEMMA NotDoneAgain ==
    ASSUME NEW a, NEW i, NEW to, InTurn(a, i, to), ToolCallArgsDoneAgain
    PROVE  FALSE
<1>1. IndexFits(a[i], i)
  BY InTurnFits
<1>2. a[i] \in {"call", "calling"} /\ i \in toolCallFinalized
  BY DEF InTurn, Goes, ToolCallArgsDoneAgain, Takes, Event
<1> QED BY <1>1, <1>2 DEF IndexFits

LEMMA BlockFits ==
    ASSUME NEW a, NEW i, NEW to, InTurn(a, i, to), StreamLoop, LoopInv'
    PROVE  Fits([a EXCEPT ![i] = to])'
<1>1. Event.type \notin Lifecycles
  BY DEF InTurn, Goes, Lifecycles
<1>2. ~ResponseGoesOn /\ ~ResponseCloses
  BY <1>1 DEF ResponseGoesOn, ResponseCloses, Takes, Event, Lifecycles
<1>3. CASE TextStarted
  BY <1>3, TextStartedFits
<1>4. CASE ReasoningStarted \/ ToolStarted
  BY <1>4, ItemStartedFits
<1>5. CASE ReasoningDelta
  BY <1>5, ReasoningDeltaFits
<1>6. CASE FirstTextDelta
  BY <1>6, FirstTextDeltaFits
<1>7. CASE FurtherTextDelta
  BY <1>7, FurtherTextDeltaFits
<1>8. CASE ToolCallArgsDelta
  BY <1>8, ArgsDeltaFits
<1>9. CASE ToolCallArgsDone
  BY <1>9, ArgsDoneFits
<1>10. CASE ToolCallArgsDoneAgain
  BY <1>10, NotDoneAgain
<1>11. CASE ReasoningDone
  BY <1>11, ReasoningDoneFits
<1>12. CASE TextDone
  BY <1>12, TextDoneFits
<1>13. CASE ToolDone
  BY <1>13, ToolDoneFits
<1>14. CASE NothingDone
  BY <1>14, NothingDoneFits
<1> QED BY <1>2, <1>3, <1>4, <1>5, <1>6, <1>7, <1>8, <1>9, <1>10, <1>11, <1>12, <1>13, <1>14
         DEF StreamLoop

\* The life cycle's events are about no item.
LEMMA LifecycleFits ==
    ASSUME NEW a, Fits(a), LoopInv, ResponseGoesOn \/ ResponseCloses
    PROVE  Fits(a)'
<1> DEFINE e == ClientEvent(Event.type, 0, "", <<>>)
           n == Len(output)
<1>1. /\ sent' = sent \o <<e>>
      /\ UNCHANGED <<contentText, toolCallArgs, outputIndexes, reasonIndexes, toolCallFinalized,
                     output>>
  BY DEF ResponseGoesOn, ResponseCloses, Send
<1>2. e.item = 0 /\ ~Closes(e) /\ e.event # "itemDone"
  BY DEF ResponseGoesOn, ResponseCloses, Takes, Event, ClientEvent, Closes
<1> HIDE DEF e
<1>3. /\ n \in Nat /\ n <= n /\ 0 \in 0 .. n
      /\ \A j \in DOMAIN outputIndexes : outputIndexes[j] # 0
  BY OutputLength
<1>4. Tidy(sent, n) /\ NotClosed(sent, 0)
  BY NewItem DEF Fits
<1> HIDE DEF n
<1>5. MayFollow(sent, n, e)
  BY <1>2, <1>3, <1>4 DEF MayFollow
<1>6. SentOn(sent, n, e, sent')
  BY <1>1, <1>3, <1>4, <1>5, SendOne
<1>7. Tidy(sent', Len(output'))
  BY <1>1, <1>6 DEF SentOn, n
<1>8. ASSUME NEW j \in Nat PROVE IndexFits(a[j], j)'
  <2>1. j \in DOMAIN outputIndexes => SilentOf(outputIndexes[j])
    BY <1>2, <1>3, <1>6, Silent
  <2>2. SameAt(j) /\ IndexFits(a[j], j)
    BY <1>1 DEF SameAt, Fits
  <2> QED BY <2>1, <2>2, IndexKept
<1> QED BY <1>1, <1>7, <1>8 DEF Fits, OneEach

\* A step of streamLoop: the event that it takes is in its turn.
LEMMA LoopFits ==
    ASSUME NEW a, NEW z, Fits(a), Runs(a, coreEvents, z), LoopInv, LoopInv', StreamLoop
    PROVE  \E b \in Boards : Fits(b)' /\ Runs(b, coreEvents', z)
<1>1. coreEvents # <<>> /\ coreEvents' = Tail(coreEvents)
  BY DEF StreamLoop, Takes, TextStarted, ReasoningStarted, ToolStarted, ReasoningDelta,
         FirstTextDelta, FurtherTextDelta, ToolCallArgsDelta, ToolCallArgsDone,
         ToolCallArgsDoneAgain, ReasoningDone, TextDone, ToolDone, NothingDone,
         ResponseGoesOn, ResponseCloses
<1>2. PICK b \in Boards : Turns(a, Event, b) /\ Runs(b, Tail(coreEvents), z)
  BY <1>1, RunsFirst DEF Event
<1>3. Fits(b)'
  <2>1. CASE Event.type \in Lifecycles /\ b = a
    <3>1. ResponseGoesOn \/ ResponseCloses
      BY <2>1 DEF StreamLoop, Takes, TextStarted, ReasoningStarted, ToolStarted, ReasoningDelta,
         FirstTextDelta, FurtherTextDelta, ToolCallArgsDelta, ToolCallArgsDone,
         ToolCallArgsDoneAgain, ReasoningDone, TextDone, ToolDone, NothingDone, Event, Lifecycles
    <3> QED BY <2>1, <3>1, LifecycleFits
  <2>2. CASE /\ Event.index \in Nat
             /\ \E to \in BlockStatuses :
                   Goes(Event, a[Event.index], to) /\ b = [a EXCEPT ![Event.index] = to]
    <3>1. PICK to \in BlockStatuses :
             Goes(Event, a[Event.index], to) /\ b = [a EXCEPT ![Event.index] = to]
      BY <2>2
    <3>2. PICK i \in Nat : i = Index
      BY <2>2 DEF Index
    <3>3. a \in Boards
      BY RunsTyped
    <3>4. InTurn(a, i, to) /\ b = [a EXCEPT ![i] = to]
      BY <3>1, <3>2, <3>3 DEF InTurn, Index
    <3>5. Fits([a EXCEPT ![i] = to])'
      BY <3>4, BlockFits
    <3> QED BY <3>4, <3>5
  <2> QED BY <1>2, <2>1, <2>2 DEF Turns
<1> QED BY <1>1, <1>2, <1>3

-----------------------------------------------------------------------------
(* The converters keep to the turns.                                       *)

\* The board after one block has moved on.
MovedTo(b, z, i, to) ==
    b \in Boards /\ b[i] = to /\ \A j \in Nat : j # i => b[j] = z[j]

LEMMA OneMoves ==
    ASSUME NEW z \in Boards, NEW x, NEW i \in Nat, x.index = i, NEW to \in BlockStatuses,
           Goes(x, z[i], to)
    PROVE  \E b : Runs(z, <<x>>, b) /\ MovedTo(b, z, i, to)
<1> DEFINE b == [z EXCEPT ![i] = to]
<1>1. b \in Boards /\ Turns(z, x, b)
  BY TurnOf
<1>2. MovedTo(b, z, i, to)
  BY <1>1 DEF MovedTo, Boards
<1>3. Runs(z, <<x>>, b)
  <2> HIDE DEF b
  <2> QED BY <1>1, RunsOne
<1> QED BY <1>2, <1>3

LEMMA OneMovesOn ==
    ASSUME NEW a, NEW e, NEW z, Runs(a, e, z), NEW x, NEW i \in Nat, x.index = i,
           NEW to \in BlockStatuses, Goes(x, z[i], to)
    PROVE  \E b : Runs(a, e \o <<x>>, b) /\ MovedTo(b, z, i, to)
<1>1. z \in Boards
  BY RunsTyped
<1>2. PICK b : Runs(z, <<x>>, b) /\ MovedTo(b, z, i, to)
  BY <1>1, OneMoves
<1>3. Runs(a, e \o <<x>>, b)
  BY <1>2, RunsTogether
<1> QED BY <1>2, <1>3

LEMMA LifecycleRuns ==
    ASSUME NEW z \in Boards, NEW type \in Lifecycles
    PROVE  Runs(z, <<Lifecycle(type)>>, z)
<1>1. Lifecycle(type).type = type
  BY DEF Lifecycle, CoreEvent
<1>2. Turns(z, Lifecycle(type), z)
  BY <1>1 DEF Turns
<1> QED BY <1>2, RunsOne

\* What the events of blocks are.
LEMMA EventFields ==
    ASSUME NEW i, NEW kind, NEW d
    PROVE  /\ /\ Started(i, kind).type = "started" /\ Started(i, kind).kind = kind
              /\ Started(i, kind).index = i
           /\ TextDelta(i, d).type = "textDelta" /\ TextDelta(i, d).index = i
           /\ ArgsDelta(i, d).type = "argsDelta" /\ ArgsDelta(i, d).index = i
           /\ ArgsDone(i, d).type = "argsDone" /\ ArgsDone(i, d).index = i
           /\ ArgsDone(i, d).delta = d
           /\ BlockDone(i, d).type = "blockDone" /\ BlockDone(i, d).index = i
BY DEF Started, TextDelta, ArgsDelta, ArgsDone, BlockDone, CoreEvent

\* An anthropic stream: the block that is open, and none begun behind it.
AnthropicFits(z) ==
    /\ \A i \in Nat : i > blockIndex => z[i] = "new"
    /\ block = "text" => z[blockIndex] = "text"
    /\ block = "thinking" => z[blockIndex] = "reasoning"
    /\ block = "tool_use" => z[blockIndex] \in {"call", "calling"}
    /\ block \notin {"text", "thinking", "tool_use"} => z[blockIndex] = "new"

LEMMA BlockStartFits ==
    ASSUME NEW z \in Boards, AnthropicFits(z), ContentBlockStart, blockIndex \in Nat
    PROVE  \E y : Runs(z, coreEvents', y) /\ AnthropicFits(y)'
<1>1. PICK kind \in Kinds :
         /\ block' = kind
         /\ coreEvents' = IF kind \in Forwarded THEN <<Started(blockIndex, CoreKind(kind))>> ELSE <<>>
  BY DEF ContentBlockStart, Emits
<1>2. blockIndex' = blockIndex /\ z[blockIndex] = "new"
  BY DEF ContentBlockStart, AnthropicFits
<1>3. CASE kind \notin Forwarded
  <2>1. Runs(z, coreEvents', z)
    BY <1>1, <1>3, RunsNothing
  <2>2. AnthropicFits(z)'
    BY <1>1, <1>2, <1>3 DEF AnthropicFits, Forwarded
  <2> QED BY <2>1, <2>2
<1>4. CASE kind \in Forwarded
  <2>1. PICK to \in BlockStatuses :
           /\ kind = "text" => CoreKind(kind) = "text" /\ to = "text"
           /\ kind = "thinking" => CoreKind(kind) = "reasoning" /\ to = "reasoning"
           /\ kind = "tool_use" => CoreKind(kind) = "tool_use" /\ to = "call"
    BY <1>4 DEF Forwarded, CoreKind, BlockStatuses
  <2>2. Goes(Started(blockIndex, CoreKind(kind)), z[blockIndex], to)
    BY <1>2, <1>4, <2>1, EventFields DEF Goes, Forwarded
  <2>3. Started(blockIndex, CoreKind(kind)).index = blockIndex
    BY EventFields
  <2>4. PICK y : Runs(z, <<Started(blockIndex, CoreKind(kind))>>, y) /\ MovedTo(y, z, blockIndex, to)
    BY <2>2, <2>3, OneMoves
  <2>5. AnthropicFits(y)'
    <3>1. \A i \in Nat : i > blockIndex => y[i] = "new"
      BY <2>4 DEF MovedTo, AnthropicFits
    <3> QED BY <1>1, <1>2, <1>4, <2>1, <2>4, <3>1 DEF AnthropicFits, MovedTo, Forwarded
  <2> QED BY <1>1, <1>4, <2>4, <2>5
<1> QED BY <1>3, <1>4

\* The provider keeps to the orders, and no server's tool has arguments.
Ordered == regular /\ ~stray

LEMMA BlockDeltaFits ==
    ASSUME NEW z \in Boards, AnthropicFits(z), blockIndex \in Nat, Ordered',
           TextDeltaOfBlock \/ StatusDelta \/ ThinkingDelta \/ SignatureDelta \/ InputJSONDelta
    PROVE  \E y : Runs(z, coreEvents', y) /\ AnthropicFits(y)'
<1>1. UNCHANGED <<block, blockIndex>>
  BY DEF TextDeltaOfBlock, StatusDelta, ThinkingDelta, SignatureDelta, InputJSONDelta, Delta
<1>2. CASE StatusDelta
  <2>1. Runs(z, coreEvents', z)
    BY <1>2, RunsNothing DEF StatusDelta, Emits
  <2> QED BY <1>1, <2>1 DEF AnthropicFits
<1>3. CASE TextDeltaOfBlock \/ ThinkingDelta \/ SignatureDelta \/ InputJSONDelta
  <2>0. PICK x : \E to \in BlockStatuses :
           /\ coreEvents' = <<x>> /\ x.index = blockIndex
           /\ Goes(x, z[blockIndex], to)
           /\ block = "text" => to = "text"
           /\ block = "thinking" => to = "reasoning"
           /\ block = "tool_use" => to = "calling"
           /\ block \in {"text", "thinking", "tool_use"}
    <3>1. CASE TextDeltaOfBlock
      <4>1. coreEvents' = <<TextDelta(blockIndex, Piece(0))>> /\ block = "text"
        BY <3>1 DEF TextDeltaOfBlock, Delta, Emits
      <4>2. Goes(TextDelta(blockIndex, Piece(0)), z[blockIndex], "text") /\ "text" \in BlockStatuses
        BY <4>1, EventFields DEF Goes, AnthropicFits, BlockStatuses
      <4> QED BY <4>1, <4>2, EventFields
    <3>2. CASE ThinkingDelta \/ SignatureDelta
      <4>1. PICK d : coreEvents' = <<TextDelta(blockIndex, d)>> /\ block = "thinking"
        BY <3>2 DEF ThinkingDelta, SignatureDelta, Delta, Emits
      <4>2. Goes(TextDelta(blockIndex, d), z[blockIndex], "reasoning") /\ "reasoning" \in BlockStatuses
        BY <4>1, EventFields DEF Goes, AnthropicFits, BlockStatuses
      <4> QED BY <4>1, <4>2, EventFields
    <3>3. CASE InputJSONDelta
      <4>1. coreEvents' = <<ArgsDelta(blockIndex, Piece(0))>> /\ block = "tool_use"
        BY <3>3 DEF InputJSONDelta, Delta, Emits, Ordered
      <4>2. Goes(ArgsDelta(blockIndex, Piece(0)), z[blockIndex], "calling") /\ "calling" \in BlockStatuses
        BY <4>1, EventFields DEF Goes, AnthropicFits, BlockStatuses
      <4> QED BY <4>1, <4>2, EventFields
    <3> QED BY <1>3, <3>1, <3>2, <3>3
  <2>1. PICK to \in BlockStatuses :
           /\ coreEvents' = <<x>> /\ x.index = blockIndex
           /\ Goes(x, z[blockIndex], to)
           /\ block = "text" => to = "text"
           /\ block = "thinking" => to = "reasoning"
           /\ block = "tool_use" => to = "calling"
           /\ block \in {"text", "thinking", "tool_use"}
    BY <2>0
  <2>2. PICK y : Runs(z, <<x>>, y) /\ MovedTo(y, z, blockIndex, to)
    BY <2>1, OneMoves
  <2>3. AnthropicFits(y)'
    <3>1. \A i \in Nat : i > blockIndex => y[i] = "new"
      BY <2>2 DEF MovedTo, AnthropicFits
    <3> QED BY <1>1, <2>1, <2>2, <3>1 DEF AnthropicFits, MovedTo
  <2> QED BY <2>1, <2>2, <2>3
<1> QED BY <1>2, <1>3

LEMMA BlockStopFits ==
    ASSUME NEW z \in Boards, AnthropicFits(z), ContentBlockStop, blockIndex \in Nat
    PROVE  \E y : Runs(z, coreEvents', y) /\ AnthropicFits(y)'
<1>1. /\ blockIndex' = blockIndex + 1 /\ block' = "none"
      /\ coreEvents' = <<>> \/ \E d : coreEvents' = <<BlockDone(blockIndex, d)>>
  BY DEF ContentBlockStop, Emits
<1>2. ASSUME NEW y, \A j \in Nat : j # blockIndex => y[j] = z[j]
      PROVE  AnthropicFits(y)'
  <2>1. \A i \in Nat : i > blockIndex => y[i] = "new"
    BY <1>2 DEF AnthropicFits
  <2> QED BY <1>1, <2>1 DEF AnthropicFits
<1>3. CASE coreEvents' = <<>>
  <2>1. Runs(z, coreEvents', z)
    BY <1>3, RunsNothing
  <2> QED BY <1>2, <2>1
<1>4. CASE \E d : coreEvents' = <<BlockDone(blockIndex, d)>>
  <2>1. PICK d : coreEvents' = <<BlockDone(blockIndex, d)>>
    BY <1>4
  <2>2. PICK to \in BlockStatuses : Goes(BlockDone(blockIndex, d), z[blockIndex], to)
    BY EventFields DEF Goes, AnthropicFits, BlockStatuses
  <2>3. BlockDone(blockIndex, d).index = blockIndex
    BY EventFields
  <2>4. PICK y : Runs(z, <<BlockDone(blockIndex, d)>>, y) /\ MovedTo(y, z, blockIndex, to)
    BY <2>2, <2>3, OneMoves
  <2> QED BY <1>2, <2>1, <2>4 DEF MovedTo
<1> QED BY <1>1, <1>3, <1>4

LEMMA AnthropicKeepsTurns ==
    ASSUME NEW z \in Boards, AnthropicFits(z), Anthropic, blockIndex \in Nat, Ordered'
    PROVE  \E y : Runs(z, coreEvents', y) /\ AnthropicFits(y)'
<1>1. CASE ContentBlockStart
  BY <1>1, BlockStartFits
<1>2. CASE ContentBlockStop
  BY <1>2, BlockStopFits
<1>3. CASE TextDeltaOfBlock \/ StatusDelta \/ ThinkingDelta \/ SignatureDelta \/ InputJSONDelta
  BY <1>3, BlockDeltaFits
<1>4. CASE MessageStart \/ MessageDelta \/ MessageStop \/ StreamFails
  <2>1. PICK type \in Lifecycles : coreEvents' = <<Lifecycle(type)>>
    BY <1>4 DEF MessageStart, MessageDelta, MessageStop, StreamFails, Emits, Lifecycles
  <2>2. Runs(z, coreEvents', z)
    BY <2>1, LifecycleRuns
  <2>3. UNCHANGED <<block, blockIndex>>
    BY <1>4 DEF MessageStart, MessageDelta, MessageStop, StreamFails, converterVars
  <2>4. AnthropicFits(z)'
    BY <2>3 DEF AnthropicFits
  <2> QED BY <2>2, <2>4
<1> QED BY <1>1, <1>2, <1>3, <1>4 DEF Anthropic

\* A google stream has one block, which is a text.
GoogleFits(z) == z[0] = IF candidate.started THEN "text" ELSE "new"

LEMMA GoogleKeepsTurns ==
    ASSUME NEW z \in Boards, GoogleFits(z), GoogleTakes
    PROVE  \E y : Runs(z, coreEvents', y) /\ (upstream' = "open" => GoogleFits(y)')
<1>1. PICK opening, piece, closing :
         /\ coreEvents' = opening \o piece \o closing
         /\ opening = IF candidate.started THEN <<>> ELSE <<Started(0, "text")>>
         /\ piece = <<>> \/ \E d : piece = <<TextDelta(0, d)>>
         /\ closing = <<>> \/ (closing = <<BlockDone(0, <<>>)>> /\ upstream' = "finished")
         /\ candidate'.started
  <2>1. PICK finishes, delta :
           /\ coreEvents' = (IF candidate.started THEN <<>> ELSE <<Started(0, "text")>>)
                            \o (IF delta = <<>> THEN <<>> ELSE <<TextDelta(0, delta)>>)
                            \o (IF finishes THEN <<BlockDone(0, <<>>)>> ELSE <<>>)
           /\ finishes => upstream' = "finished"
           /\ candidate'.started
    BY DEF GoogleTakes, Emits
  <2> DEFINE a == IF candidate.started THEN <<>> ELSE <<Started(0, "text")>>
             b == IF delta = <<>> THEN <<>> ELSE <<TextDelta(0, delta)>>
             c == IF finishes THEN <<BlockDone(0, <<>>)>> ELSE <<>>
  <2>2. b = <<>> \/ \E d : b = <<TextDelta(0, d)>>
    OBVIOUS
  <2>3. c = <<>> \/ (c = <<BlockDone(0, <<>>)>> /\ upstream' = "finished")
    BY <2>1
  <2> HIDE DEF b, c
  <2> QED BY <2>1, <2>2, <2>3 DEF b, c
<1>2. PICK u : Runs(z, opening, u) /\ u[0] = "text"
  <2>1. CASE candidate.started
    BY <1>1, <2>1, RunsNothing DEF GoogleFits
  <2>2. CASE ~candidate.started
    <3>1. Goes(Started(0, "text"), z[0], "text") /\ Started(0, "text").index = 0
      BY <2>2, EventFields DEF Goes, GoogleFits
    <3>2. PICK u : Runs(z, <<Started(0, "text")>>, u) /\ MovedTo(u, z, 0, "text")
      BY <3>1, OneMoves DEF BlockStatuses
    <3> QED BY <1>1, <2>2, <3>2 DEF MovedTo
  <2> QED BY <2>1, <2>2
<1>3. PICK v : Runs(z, opening \o piece, v) /\ v[0] = "text"
  <2>1. u \in Boards
    BY <1>2, RunsTyped
  <2>2. PICK v : Runs(u, piece, v) /\ v[0] = "text"
    <3>1. CASE piece = <<>>
      BY <1>2, <2>1, <3>1, RunsNothing
    <3>2. ASSUME NEW d, piece = <<TextDelta(0, d)>> PROVE \E v : Runs(u, piece, v) /\ v[0] = "text"
      <4>1. Goes(TextDelta(0, d), u[0], "text") /\ TextDelta(0, d).index = 0
        BY <1>2, EventFields DEF Goes
      <4>2. PICK v : Runs(u, <<TextDelta(0, d)>>, v) /\ MovedTo(v, u, 0, "text")
        BY <2>1, <4>1, OneMoves DEF BlockStatuses
      <4> QED BY <3>2, <4>2 DEF MovedTo
    <3> QED BY <1>1, <3>1, <3>2
  <2> QED BY <1>2, <2>2, RunsTogether
<1>4. CASE closing = <<>>
  <2>1. v \in Boards
    BY <1>3, RunsTyped
  <2>2. Runs(v, closing, v)
    BY <1>4, <2>1, RunsNothing
  <2>3. Runs(z, (opening \o piece) \o closing, v)
    BY <1>3, <2>2, RunsTogether
  <2> QED BY <1>1, <1>3, <2>3 DEF GoogleFits
<1>5. CASE closing = <<BlockDone(0, <<>>)>> /\ upstream' = "finished"
  <2>1. Goes(BlockDone(0, <<>>), v[0], "over") /\ BlockDone(0, <<>>).index = 0
    BY <1>3, EventFields DEF Goes
  <2>2. PICK y : Runs(z, (opening \o piece) \o <<BlockDone(0, <<>>)>>, y)
    BY <1>3, <2>1, OneMovesOn DEF BlockStatuses
  <2> QED BY <1>1, <1>5, <2>2
<1> QED BY <1>1, <1>4, <1>5

\* Another event of the block that has moved on.
LEMMA SameMovesOn ==
    ASSUME NEW z, NEW e, NEW u, Runs(z, e, u), NEW i \in Nat, NEW from, MovedTo(u, z, i, from),
           NEW x, x.index = i, NEW to \in BlockStatuses, Goes(x, from, to)
    PROVE  \E v : Runs(z, e \o <<x>>, v) /\ MovedTo(v, z, i, to)
<1>1. Goes(x, u[i], to)
  BY DEF MovedTo
<1>2. PICK v : Runs(z, e \o <<x>>, v) /\ MovedTo(v, u, i, to)
  BY <1>1, OneMovesOn
<1> QED BY <1>2 DEF MovedTo

LEMMA TwoAndThree ==
    ASSUME NEW x, NEW y, NEW w
    PROVE  /\ <<x, y>> = <<x>> \o <<y>>
           /\ <<x, y, w>> = (<<x>> \o <<y>>) \o <<w>>
<1> DEFINE U == {x, y, w}
<1>1. <<x>> \in Seq(U) /\ <<x, y>> \in Seq(U) /\ x \in U /\ y \in U /\ w \in U
  OBVIOUS
<1>2. <<x, y>> = Append(<<x>>, y) /\ <<x, y, w>> = Append(<<x, y>>, w)
  OBVIOUS
<1> HIDE DEF U
<1>3. <<x, y>> = <<x>> \o <<y>>
  BY <1>1, <1>2, AppendIsConcat
<1>4. <<x, y, w>> = <<x, y>> \o <<w>>
  BY <1>1, <1>2, AppendIsConcat
<1> QED BY <1>3, <1>4

\* A replayed block is begun, filled and over.
LEMMA ReplayedBlockRuns ==
    ASSUME NEW z \in Boards, NEW i \in Nat, z[i] = "new", NEW b \in WholeBlocks
    PROVE  \E y : Runs(z, ReplayedBlock(b, i), y) /\ MovedTo(y, z, i, "over")
<1> USE DEF BlockStatuses
<1>1. CASE b.type = "tool_use"
  <2> DEFINE start == Started(i, "tool_use")
             args == ArgsDone(i, b.text)
             end == BlockDone(i, <<>>)
  <2>1. /\ start.index = i /\ Goes(start, "new", "call")
        /\ args.index = i /\ Goes(args, "call", "called")
        /\ end.index = i /\ Goes(end, "called", "over")
    BY EventFields DEF Goes
  <2>2. ReplayedBlock(b, i) = <<start, args, end>>
    BY <1>1 DEF ReplayedBlock
  <2> HIDE DEF start, args, end
  <2>3. PICK u : Runs(z, <<start>>, u) /\ MovedTo(u, z, i, "call")
    BY <2>1, OneMoves
  <2>4. PICK v : Runs(z, <<start>> \o <<args>>, v) /\ MovedTo(v, z, i, "called")
    BY <2>1, <2>3, SameMovesOn
  <2>5. PICK t : Runs(z, (<<start>> \o <<args>>) \o <<end>>, t) /\ MovedTo(t, z, i, "over")
    BY <2>1, <2>4, SameMovesOn
  <2>6. <<start, args, end>> = (<<start>> \o <<args>>) \o <<end>>
    BY TwoAndThree, ZenonT(60)
  <2>7. Runs(z, ReplayedBlock(b, i), t)
    BY <2>2, <2>5, <2>6
  <2> QED BY <2>5, <2>7
<1>2. CASE b.type # "tool_use"
  <2> DEFINE start == Started(i, b.type)
             delta == TextDelta(i, b.text)
             done == BlockDone(i, b.signature)
             middle == IF b.text = <<>> THEN <<>> ELSE <<delta>>
  <2>0. b.type \in {"text", "reasoning"}
    BY <1>2 DEF WholeBlocks
  <2>1. /\ start.index = i /\ Goes(start, "new", b.type)
        /\ delta.index = i /\ Goes(delta, b.type, b.type)
        /\ done.index = i /\ Goes(done, b.type, "over")
    BY <2>0, EventFields DEF Goes
  <2>2. ReplayedBlock(b, i) = (<<start>> \o middle) \o <<done>>
    BY <1>2 DEF ReplayedBlock
  <2>3. middle = <<>> \/ middle = <<delta>>
    OBVIOUS
  <2> HIDE DEF start, delta, done, middle
  <2>4. PICK u : Runs(z, <<start>>, u) /\ MovedTo(u, z, i, b.type)
    BY <2>0, <2>1, OneMoves
  <2>5. PICK v : Runs(z, <<start>> \o middle, v) /\ MovedTo(v, z, i, b.type)
    <3>1. CASE middle = <<>>
      <4>1. u \in Boards
        BY <2>4, RunsTyped
      <4>2. Runs(u, middle, u)
        BY <3>1, <4>1, RunsNothing
      <4> QED BY <2>4, <4>2, RunsTogether
    <3>2. CASE middle = <<delta>>
      <4>1. \E v : Runs(z, <<start>> \o <<delta>>, v) /\ MovedTo(v, z, i, b.type)
        BY <2>0, <2>1, <2>4, SameMovesOn
      <4> QED BY <3>2, <4>1
    <3> QED BY <2>3, <3>1, <3>2
  <2>6. PICK t : Runs(z, (<<start>> \o middle) \o <<done>>, t) /\ MovedTo(t, z, i, "over")
    BY <2>0, <2>1, <2>5, SameMovesOn
  <2> QED BY <2>2, <2>6
<1> QED BY <1>1, <1>2

\* The blocks that come after the first n are not begun.
NewAfter(z, n) == \A i \in Nat : i > n => z[i] = "new"

LEMMA ReplayRuns ==
    ASSUME NEW blocks \in Seq(WholeBlocks)
    PROVE  \E y : Runs(AllNew, Replayed(blocks), y)
<1> DEFINE m == Len(blocks)
           f == CHOOSE f : IsReplay(f, Len(blocks), blocks)
           Good == { n \in Nat : \E z : Runs(AllNew, f[n], z) /\ NewAfter(z, n) }
<1>0. m \in Nat
  BY LenProperties
<1>1. IsReplay(f, Len(blocks), blocks)
  BY <1>0, ReplayExists
<1>2. Replayed(blocks) = f[m]
  BY DEF Replayed, IsReplay
<1> HIDE DEF f
<1>3. f[0] = <<>>
  BY <1>0, <1>1 DEF IsReplay
<1>4. ASSUME NEW n \in 1 .. m PROVE f[n] = f[n - 1] \o ReplayedBlock(blocks[n], n)
  <2>1. n \in 0 .. Len(blocks) /\ n # 0
    BY <1>0
  <2> QED BY <1>1, <2>1, Zenon DEF IsReplay
<1>5. 0 \in Good
  <2>1. AllNew \in Boards /\ NewAfter(AllNew, 0)
    BY DEF AllNew, Boards, BlockStatuses, NewAfter
  <2>2. Runs(AllNew, <<>>, AllNew)
    BY <2>1, RunsNothing
  <2> QED BY <1>3, <2>1, <2>2
<1>6. ASSUME NEW n \in 1 .. m, n - 1 \in Good PROVE n \in Good
  <2>1. n \in Nat /\ n > n - 1 /\ blocks[n] \in WholeBlocks
    BY <1>0, ElementOfSeq
  <2>2. PICK z : Runs(AllNew, f[n - 1], z) /\ NewAfter(z, n - 1)
    BY <1>6
  <2>3. z \in Boards /\ z[n] = "new"
    BY <2>1, <2>2, RunsTyped DEF NewAfter
  <2>4. PICK y : Runs(z, ReplayedBlock(blocks[n], n), y) /\ MovedTo(y, z, n, "over")
    BY <2>1, <2>3, ReplayedBlockRuns
  <2>5. Runs(AllNew, f[n], y)
    BY <1>4, <2>2, <2>4, RunsTogether
  <2>6. NewAfter(y, n)
    <3> SUFFICES ASSUME NEW i \in Nat, i > n PROVE y[i] = "new"
      BY DEF NewAfter
    <3>1. i # n /\ i > n - 1
      BY <2>1
    <3> QED BY <2>2, <2>4, <3>1 DEF NewAfter, MovedTo
  <2> QED BY <2>1, <2>5, <2>6
<1>7. m \in Good
  <2> HIDE DEF Good
  <2> QED BY <1>0, <1>5, <1>6, InductionUpTo
<1> QED BY <1>2, <1>7

LEMMA ReplayKeepsTurns ==
    ASSUME ReplayWhole
    PROVE  \E y : Runs(AllNew, coreEvents', y)
<1>1. PICK outlines \in BoundedSeq(Outlines, MaxBlocks),
           status \in {"completed", "incomplete", "failed"} :
         LET blocks == Whole(outlines)
         IN
         coreEvents' = IF source = "replay"
                       THEN <<Lifecycle("created"), Lifecycle("in_progress")>> \o Replayed(blocks)
                            \o <<Lifecycle(status)>>
                       ELSE <<Lifecycle("created")>> \o Replayed(WithoutCalls(blocks))
                            \o <<Lifecycle(status)>>
  BY DEF ReplayWhole, Emits
<1> DEFINE blocks == Whole(outlines)
<1>2. blocks \in Seq(WholeBlocks)
  <2>1. outlines \in Seq(Outlines)
    BY BoundsAssumption DEF BoundsAssumption, BoundedSeq, SeqOf
  <2> QED BY <2>1, WholeTyped
<1> DEFINE shown == IF source = "replay" THEN blocks ELSE WithoutCalls(blocks)
           one == <<Lifecycle("created")>>
           two == <<Lifecycle("in_progress")>>
           begin == IF source = "replay" THEN <<Lifecycle("created"), Lifecycle("in_progress")>>
                    ELSE one
<1>3. shown \in Seq(WholeBlocks)
  <2>1. { b \in WholeBlocks : NoToolUse(b) } \subseteq WholeBlocks
    OBVIOUS
  <2>2. WithoutCalls(blocks) \in Seq(WholeBlocks)
    BY <1>2, <2>1, FilteredHasNoCalls, SeqMonotonic
  <2> QED BY <1>2, <2>2
<1>4. coreEvents' = (begin \o Replayed(shown)) \o <<Lifecycle(status)>>
  BY <1>1
<1>5. begin = one \/ begin = one \o two
  BY TwoAndThree
<1>6. AllNew \in Boards
  BY DEF AllNew, Boards, BlockStatuses
<1>7. Runs(AllNew, one, AllNew) /\ Runs(AllNew, two, AllNew)
  BY <1>6, LifecycleRuns DEF Lifecycles
<1> HIDE DEF begin, one, two, shown
<1>8. Runs(AllNew, begin, AllNew)
  BY <1>5, <1>7, RunsTogether
<1>9. PICK y : Runs(AllNew, Replayed(shown), y)
  BY <1>3, ReplayRuns
<1>10. Runs(y, <<Lifecycle(status)>>, y)
  BY <1>9, RunsTyped, LifecycleRuns DEF Lifecycles
<1>11. Runs(AllNew, begin \o Replayed(shown), y)
  BY <1>8, <1>9, RunsTogether
<1>12. Runs(AllNew, (begin \o Replayed(shown)) \o <<Lifecycle(status)>>, y)
  BY <1>10, <1>11, RunsTogether
<1> QED BY <1>4, <1>12

-----------------------------------------------------------------------------
(* The same of a chat stream: the current block is reasoning or a text, and *)
(* behind it there are calls.                                               *)

ChatFits(s, z) ==
    /\ s.hasReasoning => s.reasonIndex = s.blockIndex /\ z[s.blockIndex] = "reasoning"
    /\ ~s.hasReasoning => z[s.blockIndex] \in {"new", "text"}
    /\ s.toolCallSlot # <<>> => s.toolCallIdx > s.blockIndex
    /\ s.toolCallSlot = <<>> => s.callStarted = {}
    /\ \A call \in DOMAIN s.toolCallSlot :
          s.toolCallSlot[call] > s.blockIndex /\ s.toolCallSlot[call] < s.toolCallIdx
    /\ \A i \in s.callStarted :
          i > s.blockIndex /\ i < s.toolCallIdx /\ z[i] \in {"call", "calling"}
    /\ \A i \in Nat : i > s.blockIndex /\ i \notin s.callStarted => z[i] = "new"

\* A state with the events so far, which lead from a to z.
ChatRuns(s, a, z) == s \in ChatStates /\ Runs(a, s.events, z) /\ ChatFits(s, z)

\* The parts of a state that matter here.
SameChoice(r, s) ==
    /\ r.hasReasoning = s.hasReasoning /\ r.reasonIndex = s.reasonIndex
    /\ r.blockIndex = s.blockIndex /\ r.toolCallSlot = s.toolCallSlot
    /\ r.toolCallIdx = s.toolCallIdx /\ r.callStarted = s.callStarted

LEMMA SameFits ==
    ASSUME NEW s, NEW r, NEW z, SameChoice(r, s), ChatFits(s, z)
    PROVE  ChatFits(r, z)
BY DEF SameChoice, ChatFits

\* An event is emitted.
LEMMA ChatEmits ==
    ASSUME NEW s \in ChatStates, NEW a, NEW z, Runs(a, s.events, z), NEW x \in CoreEvents,
           NEW i \in Nat, x.index = i, NEW to \in BlockStatuses, Goes(x, z[i], to)
    PROVE  /\ Emitting(s, <<x>>) \in ChatStates /\ SameChoice(Emitting(s, <<x>>), s)
           /\ \E y : Runs(a, Emitting(s, <<x>>).events, y) /\ MovedTo(y, z, i, to)
<1>1. <<x>> \in Seq(CoreEvents)
  BY SingleElement
<1>2. Emitting(s, <<x>>) \in ChatStates /\ Emitting(s, <<x>>).events = s.events \o <<x>>
  BY <1>1, EmittedTyped
<1>3. SameChoice(Emitting(s, <<x>>), s)
  BY DEF Emitting, ChatStates, SameChoice
<1>4. PICK y : Runs(a, s.events \o <<x>>, y) /\ MovedTo(y, z, i, to)
  BY OneMovesOn
<1> QED BY <1>2, <1>3, <1>4

\* The events of a chunk, and what they make of a status.
LEMMA ChunkEventsGo ==
    ASSUME NEW place \in Nat, NEW sort \in {"text", "reasoning"}, NEW words \in Seq(Nat)
    PROVE  /\ /\ Started(place, sort) \in CoreEvents /\ Started(place, sort).index = place
              /\ Goes(Started(place, sort), "new", sort)
           /\ /\ TextDelta(place, words) \in CoreEvents /\ TextDelta(place, words).index = place
              /\ Goes(TextDelta(place, words), sort, sort)
              /\ Goes(TextDelta(place, words), "new", "text")
           /\ /\ BlockDone(place, <<>>) \in CoreEvents /\ BlockDone(place, <<>>).index = place
              /\ Goes(BlockDone(place, <<>>), "new", "new")
              /\ Goes(BlockDone(place, <<>>), sort, "over")
           /\ {"new", "text", "reasoning", "call", "calling", "over"} \subseteq BlockStatuses
<1>1. /\ Started(place, sort) \in CoreEvents /\ TextDelta(place, words) \in CoreEvents
      /\ BlockDone(place, <<>>) \in CoreEvents
  BY EventsOfAChunk
<1>2. /\ Started(place, sort).index = place /\ TextDelta(place, words).index = place
      /\ BlockDone(place, <<>>).index = place
  BY EventFields
<1>3. Goes(Started(place, sort), "new", sort)
  BY EventFields DEF Goes
<1>4. Goes(TextDelta(place, words), sort, sort) /\ Goes(TextDelta(place, words), "new", "text")
  BY EventFields DEF Goes
<1>5. Goes(BlockDone(place, <<>>), "new", "new") /\ Goes(BlockDone(place, <<>>), sort, "over")
  BY EventFields DEF Goes
<1>6. {"new", "text", "reasoning", "call", "calling", "over"} \subseteq BlockStatuses
  BY DEF BlockStatuses
<1> QED BY <1>1, <1>2, <1>3, <1>4, <1>5, <1>6

LEMMA RoleRuns ==
    ASSUME NEW c \in Chunks, NEW s, NEW a, NEW z, ChatRuns(s, a, z),
           c.role /\ ~s.started => z[s.blockIndex] = "new"
    PROVE  \E y : ChatRuns(ChatRole(c, s), a, y)
<1>1. CASE ~c.role \/ s.started
  BY <1>1 DEF ChatRole
<1>2. CASE ~(~c.role \/ s.started)
  <2> DEFINE kind == IF c.reasoning THEN "reasoning" ELSE "text"
             r == [s EXCEPT !.started = TRUE,
                            !.hasReasoning = @ \/ c.reasoning,
                            !.reasonIndex = IF c.reasoning THEN s.blockIndex ELSE @]
             x == Started(s.blockIndex, kind)
  <2>1. c.reasoning \in BOOLEAN /\ s \in ChatStates /\ s.blockIndex \in Nat
    BY ChunksAssumption DEF ChunksAssumption, ChatRuns, ChatStates
  <2>2. z[s.blockIndex] = "new" /\ ~s.hasReasoning
    BY <1>2 DEF ChatRuns, ChatFits
  <2>3. r \in ChatStates
    <3>1. (s.hasReasoning \/ c.reasoning) \in BOOLEAN
      BY <2>1
    <3>2. (IF c.reasoning THEN s.blockIndex ELSE s.reasonIndex) \in Nat
      BY <2>1 DEF ChatStates
    <3> QED BY <2>1, <3>1, <3>2 DEF ChatStates
  <2>4. /\ r.events = s.events /\ r.callStarted = s.callStarted /\ r.blockIndex = s.blockIndex
        /\ r.toolCallSlot = s.toolCallSlot /\ r.toolCallIdx = s.toolCallIdx
        /\ r.hasReasoning = c.reasoning
        /\ c.reasoning => r.reasonIndex = s.blockIndex
    BY <2>1, <2>2 DEF ChatStates
  <2>5. /\ x \in CoreEvents /\ x.index = s.blockIndex
        /\ Goes(x, "new", kind) /\ kind \in BlockStatuses
    <3>1. kind \in {"text", "reasoning"} /\ <<>> \in Seq(Nat)
      OBVIOUS
    <3> HIDE DEF kind
    <3> QED BY <2>1, <3>1, ChunkEventsGo
  <2>6. ChatRole(c, s) = Emitting(r, <<x>>)
    BY <1>2 DEF ChatRole
  <2>7. kind = IF r.hasReasoning THEN "reasoning" ELSE "text"
    BY <2>4
  <2> HIDE DEF r, x, kind
  <2>8. Runs(a, r.events, z)
    BY <2>4 DEF ChatRuns
  <2>9. Emitting(r, <<x>>) \in ChatStates /\ SameChoice(Emitting(r, <<x>>), r)
    BY <2>1, <2>2, <2>3, <2>5, <2>8, ChatEmits
  <2>10. PICK y : Runs(a, Emitting(r, <<x>>).events, y) /\ MovedTo(y, z, s.blockIndex, kind)
    BY <2>1, <2>2, <2>3, <2>5, <2>8, ChatEmits
  <2>11. ChatFits(r, y)
    <3>1. ChatFits(s, z) /\ s.callStarted \subseteq Nat
      BY <2>1 DEF ChatRuns, ChatStates
    <3>2. y[s.blockIndex] = kind /\ \A j \in Nat : j > s.blockIndex => y[j] = z[j]
      BY <2>1, <2>10 DEF MovedTo
    <3>3. \A i \in s.callStarted : i > s.blockIndex /\ i < s.toolCallIdx /\ y[i] \in {"call", "calling"}
      BY <3>1, <3>2 DEF ChatFits
    <3> QED BY <2>4, <2>7, <3>1, <3>2, <3>3 DEF ChatFits
  <2>12. ChatFits(Emitting(r, <<x>>), y)
    BY <2>9, <2>11, SameFits
  <2> QED BY <2>6, <2>9, <2>10, <2>12 DEF ChatRuns
<1> QED BY <1>1, <1>2

\* The choice moves on to a new block, of a kind, that is behind the current one:
\* there are no calls yet.
LEMMA NextBlockFits ==
    ASSUME NEW s \in ChatStates, NEW z, NEW r \in ChatStates, NEW y, ChatFits(s, z),
           s.toolCallSlot = <<>>, r.toolCallSlot = <<>>, r.callStarted = s.callStarted,
           r.blockIndex = s.blockIndex + 1, r.hasReasoning => r.reasonIndex = r.blockIndex,
           \A j \in Nat : j # s.blockIndex /\ j # r.blockIndex => y[j] = z[j],
           y[r.blockIndex] = IF r.hasReasoning THEN "reasoning" ELSE "text"
    PROVE  ChatFits(r, y)
<1>1. s.blockIndex \in Nat /\ r.blockIndex \in Nat
  BY DEF ChatStates
<1>2. s.callStarted = {} /\ \A i \in Nat : i > s.blockIndex => z[i] = "new"
  BY DEF ChatFits
<1>3. \A i \in Nat : i > r.blockIndex => y[i] = "new"
  <2> SUFFICES ASSUME NEW i \in Nat, i > r.blockIndex PROVE y[i] = "new"
    OBVIOUS
  <2>1. i # s.blockIndex /\ i # r.blockIndex /\ i > s.blockIndex
    BY <1>1
  <2> QED BY <1>2, <2>1
<1>4. DOMAIN r.toolCallSlot = {}
  OBVIOUS
<1> QED BY <1>2, <1>3, <1>4 DEF ChatFits

LEMMA OpenedRuns ==
    ASSUME NEW s, NEW a, NEW z, ChatRuns(s, a, z), s.toolCallSlot = <<>>
    PROVE  /\ \E y : ChatRuns(OpenReasoning(s), a, y)
           /\ OpenReasoning(s).toolCallSlot = <<>> /\ OpenReasoning(s).hasReasoning
<1> DEFINE i == s.blockIndex + 1
           r == [s EXCEPT !.hasReasoning = TRUE, !.reasonIndex = i, !.blockIndex = i]
           x == BlockDone(i, <<>>)
           y == Started(i, "reasoning")
<1>1. s \in ChatStates /\ s.blockIndex \in Nat /\ i \in Nat /\ i # s.blockIndex /\ <<>> \in Seq(Nat)
  BY DEF ChatRuns, ChatStates
<1>2. z[i] = "new"
  <2>1. i > s.blockIndex /\ s.callStarted = {}
    BY <1>1 DEF ChatRuns, ChatFits
  <2> QED BY <1>1, <2>1 DEF ChatRuns, ChatFits
<1>3. /\ x \in CoreEvents /\ x.index = i /\ Goes(x, "new", "new")
      /\ y \in CoreEvents /\ y.index = i /\ Goes(y, "new", "reasoning")
  <2>1. "reasoning" \in {"text", "reasoning"}
    OBVIOUS
  <2> HIDE DEF i
  <2> QED BY <1>1, <2>1, ChunkEventsGo
<1>4. OpenReasoning(s) = Emitting(r, <<x, y>>)
  BY DEF OpenReasoning
<1>5. r \in ChatStates
  <2> HIDE DEF i
  <2> QED BY <1>1 DEF ChatStates
<1>6. /\ r.events = s.events /\ r.callStarted = s.callStarted /\ r.blockIndex = i
      /\ r.toolCallSlot = <<>> /\ r.hasReasoning /\ r.reasonIndex = i
  BY <1>1 DEF ChatStates
<1>7. Runs(a, r.events, z)
  BY <1>6 DEF ChatRuns
<1> DEFINE p == Emitting(r, <<x>>)
           q == Emitting(p, <<y>>)
<1> HIDE DEF r, x, y
<1>8. Emitting(r, <<x, y>>) = q
  BY <1>3, <1>5, EmittedTwo
<1>9. "new" \in BlockStatuses /\ "reasoning" \in BlockStatuses
  BY DEF BlockStatuses
<1>10. p \in ChatStates /\ SameChoice(p, r)
  BY <1>1, <1>2, <1>3, <1>5, <1>7, <1>9, ChatEmits
<1>11. PICK u : Runs(a, p.events, u) /\ MovedTo(u, z, i, "new")
  BY <1>1, <1>2, <1>3, <1>5, <1>7, <1>9, ChatEmits
<1> HIDE DEF p
<1>12. u[i] = "new"
  BY <1>11 DEF MovedTo
<1>13. q \in ChatStates /\ SameChoice(q, p)
  BY <1>1, <1>3, <1>9, <1>10, <1>11, <1>12, ChatEmits
<1>14. PICK v : Runs(a, q.events, v) /\ MovedTo(v, u, i, "reasoning")
  BY <1>1, <1>3, <1>9, <1>10, <1>11, <1>12, ChatEmits
<1> HIDE DEF q
<1>15. /\ q.callStarted = s.callStarted /\ q.blockIndex = s.blockIndex + 1
       /\ q.toolCallSlot = <<>> /\ q.hasReasoning /\ q.reasonIndex = q.blockIndex
  BY <1>6, <1>10, <1>13 DEF SameChoice
<1>16. ChatFits(q, v)
  <2>1. \A j \in Nat : j # s.blockIndex /\ j # q.blockIndex => v[j] = z[j]
    BY <1>11, <1>14, <1>15 DEF MovedTo
  <2>2. v[q.blockIndex] = IF q.hasReasoning THEN "reasoning" ELSE "text"
    BY <1>14, <1>15 DEF MovedTo
  <2>3. ChatFits(s, z)
    BY DEF ChatRuns
  <2> HIDE DEF i
  <2> QED BY <1>1, <1>13, <1>15, <2>1, <2>2, <2>3, NextBlockFits
<1> QED BY <1>4, <1>8, <1>13, <1>14, <1>15, <1>16 DEF ChatRuns

LEMMA ReasoningRuns ==
    ASSUME messages \in Nat, NEW c \in Chunks, NEW s, NEW a, NEW z, ChatRuns(s, a, z),
           c.reasoning => s.toolCallSlot = <<>>
    PROVE  /\ \E y : ChatRuns(ChatReasoning(c, s), a, y)
           /\ ChatReasoning(c, s).toolCallSlot = s.toolCallSlot
<1>1. CASE ~c.reasoning
  BY <1>1 DEF ChatReasoning
<1>2. CASE c.reasoning
  <2> DEFINE opened == IF s.hasReasoning THEN s ELSE OpenReasoning(s)
             x == TextDelta(opened.reasonIndex, ReasoningPiece)
  <2>1. PICK u : ChatRuns(opened, a, u)
    BY <1>2, OpenedRuns
  <2>2. opened.toolCallSlot = <<>> /\ opened.hasReasoning
    BY <1>2, OpenedRuns
  <2>3. ChatReasoning(c, s) = Emitting(opened, <<x>>)
    BY <1>2 DEF ChatReasoning
  <2> HIDE DEF opened
  <2>4. opened \in ChatStates /\ opened.blockIndex \in Nat /\ opened.reasonIndex = opened.blockIndex
    BY <2>1, <2>2 DEF ChatRuns, ChatFits, ChatStates
  <2>5. x \in CoreEvents /\ x.index = opened.blockIndex
    <3>1. 0 \in Nat
      OBVIOUS
    <3>2. ReasoningPiece \in Seq(Nat)
      BY <3>1, PiecesTyped
    <3> QED BY <2>4, <3>2, EventsOfAChunk, EventFields
  <2>6. u[opened.blockIndex] = "reasoning"
    BY <2>1, <2>2 DEF ChatRuns, ChatFits
  <2>7. Goes(x, u[opened.blockIndex], "reasoning") /\ "reasoning" \in BlockStatuses
    BY <2>6, EventFields DEF Goes, BlockStatuses
  <2> HIDE DEF x
  <2>8. Emitting(opened, <<x>>) \in ChatStates /\ SameChoice(Emitting(opened, <<x>>), opened)
    BY <2>1, <2>4, <2>5, <2>7, ChatEmits DEF ChatRuns
  <2>9. PICK y : /\ Runs(a, Emitting(opened, <<x>>).events, y)
                 /\ MovedTo(y, u, opened.blockIndex, "reasoning")
    BY <2>1, <2>4, <2>5, <2>7, ChatEmits DEF ChatRuns
  <2>10. ChatFits(opened, y)
    <3>1. ChatFits(opened, u) /\ opened.callStarted = {}
      BY <2>1, <2>2 DEF ChatRuns, ChatFits
    <3> QED BY <2>2, <2>4, <2>9, <3>1 DEF ChatFits, MovedTo
  <2>11. ChatFits(Emitting(opened, <<x>>), y)
    BY <2>8, <2>10, SameFits
  <2> QED BY <1>2, <2>2, <2>3, <2>8, <2>9, <2>11 DEF ChatRuns, SameChoice
<1> QED BY <1>1, <1>2

LEMMA ClosedRuns ==
    ASSUME NEW s, NEW a, NEW z, ChatRuns(s, a, z), s.toolCallSlot = <<>>, s.hasReasoning
    PROVE  /\ \E y : ChatRuns(CloseReasoning(s), a, y)
           /\ CloseReasoning(s).toolCallSlot = <<>> /\ ~CloseReasoning(s).hasReasoning
<1> DEFINE b == s.blockIndex
           i == s.reasonIndex + 1
           r == [s EXCEPT !.hasReasoning = FALSE, !.blockIndex = i]
           x == BlockDone(s.reasonIndex, <<>>)
           y == Started(i, "text")
<1>1. /\ s \in ChatStates /\ b \in Nat /\ s.reasonIndex = b /\ i = b + 1 /\ i \in Nat /\ i # b
      /\ <<>> \in Seq(Nat)
  BY DEF ChatRuns, ChatFits, ChatStates
<1>2. z[b] = "reasoning" /\ z[i] = "new"
  <2>1. i > b /\ s.callStarted = {}
    BY <1>1 DEF ChatRuns, ChatFits
  <2> QED BY <1>1, <2>1 DEF ChatRuns, ChatFits
<1>3. /\ x \in CoreEvents /\ x.index = b /\ Goes(x, "reasoning", "over")
      /\ y \in CoreEvents /\ y.index = i /\ Goes(y, "new", "text")
  <2>1. "reasoning" \in {"text", "reasoning"} /\ "text" \in {"text", "reasoning"}
    OBVIOUS
  <2> HIDE DEF i, b
  <2> QED BY <1>1, <2>1, ChunkEventsGo
<1>4. CloseReasoning(s) = Emitting(r, <<x, y>>)
  BY DEF CloseReasoning
<1>5. r \in ChatStates
  <2> HIDE DEF i
  <2> QED BY <1>1 DEF ChatStates
<1>6. /\ r.events = s.events /\ r.callStarted = s.callStarted /\ r.blockIndex = i
      /\ r.toolCallSlot = <<>> /\ ~r.hasReasoning
  BY <1>1 DEF ChatStates
<1>7. Runs(a, r.events, z)
  BY <1>6 DEF ChatRuns
<1> DEFINE p == Emitting(r, <<x>>)
           q == Emitting(p, <<y>>)
<1> HIDE DEF r, x, y
<1>8. Emitting(r, <<x, y>>) = q
  BY <1>3, <1>5, EmittedTwo
<1>9. "over" \in BlockStatuses /\ "text" \in BlockStatuses
  BY DEF BlockStatuses
<1> HIDE DEF b, i
<1>10. p \in ChatStates /\ SameChoice(p, r)
  BY <1>1, <1>2, <1>3, <1>5, <1>7, <1>9, ChatEmits
<1>11. PICK u : Runs(a, p.events, u) /\ MovedTo(u, z, b, "over")
  BY <1>1, <1>2, <1>3, <1>5, <1>7, <1>9, ChatEmits
<1> HIDE DEF p
<1>12. u[i] = "new"
  BY <1>1, <1>2, <1>11 DEF MovedTo
<1>13. q \in ChatStates /\ SameChoice(q, p)
  BY <1>1, <1>3, <1>9, <1>10, <1>11, <1>12, ChatEmits
<1>14. PICK v : Runs(a, q.events, v) /\ MovedTo(v, u, i, "text")
  BY <1>1, <1>3, <1>9, <1>10, <1>11, <1>12, ChatEmits
<1> HIDE DEF q
<1>15. /\ q.callStarted = s.callStarted /\ q.blockIndex = b + 1
       /\ q.toolCallSlot = <<>> /\ ~q.hasReasoning
  BY <1>1, <1>6, <1>10, <1>13 DEF SameChoice
<1>16. ChatFits(q, v)
  <2>1. \A j \in Nat : j # b /\ j # q.blockIndex => v[j] = z[j]
    BY <1>1, <1>11, <1>14, <1>15 DEF MovedTo
  <2>2. v[q.blockIndex] = IF q.hasReasoning THEN "reasoning" ELSE "text"
    BY <1>1, <1>14, <1>15 DEF MovedTo
  <2>3. ChatFits(s, z)
    BY DEF ChatRuns
  <2> QED BY <1>1, <1>13, <1>15, <2>1, <2>2, <2>3, NextBlockFits DEF b
<1> QED BY <1>4, <1>8, <1>13, <1>14, <1>15, <1>16 DEF ChatRuns

LEMMA ContentRuns ==
    ASSUME messages \in Nat, NEW c \in Chunks, NEW s, NEW a, NEW z, ChatRuns(s, a, z),
           c.content => s.toolCallSlot = <<>>
    PROVE  /\ \E y : ChatRuns(ChatContent(c, s), a, y)
           /\ ChatContent(c, s).toolCallSlot = s.toolCallSlot
<1>1. CASE ~c.content
  BY <1>1 DEF ChatContent
<1>2. CASE c.content
  <2> DEFINE opened == IF s.hasReasoning THEN CloseReasoning(s) ELSE s
             x == TextDelta(opened.blockIndex, ContentPiece)
  <2>1. PICK u : ChatRuns(opened, a, u)
    BY <1>2, ClosedRuns
  <2>2. opened.toolCallSlot = <<>> /\ ~opened.hasReasoning
    BY <1>2, ClosedRuns
  <2>3. ChatContent(c, s) = Emitting(opened, <<x>>)
    BY <1>2 DEF ChatContent
  <2> HIDE DEF opened
  <2>4. opened \in ChatStates /\ opened.blockIndex \in Nat
    BY <2>1, <2>2 DEF ChatRuns, ChatStates
  <2>5. x \in CoreEvents /\ x.index = opened.blockIndex
    <3>1. 0 \in Nat
      OBVIOUS
    <3>2. ContentPiece \in Seq(Nat)
      BY <3>1, PiecesTyped
    <3> QED BY <2>4, <3>2, EventsOfAChunk, EventFields
  <2>6. u[opened.blockIndex] \in {"new", "text"}
    BY <2>1, <2>2 DEF ChatRuns, ChatFits
  <2>7. Goes(x, u[opened.blockIndex], "text") /\ "text" \in BlockStatuses
    BY <2>6, EventFields DEF Goes, BlockStatuses
  <2> HIDE DEF x
  <2>8. Emitting(opened, <<x>>) \in ChatStates /\ SameChoice(Emitting(opened, <<x>>), opened)
    BY <2>1, <2>4, <2>5, <2>7, ChatEmits DEF ChatRuns
  <2>9. PICK y : /\ Runs(a, Emitting(opened, <<x>>).events, y)
                 /\ MovedTo(y, u, opened.blockIndex, "text")
    BY <2>1, <2>4, <2>5, <2>7, ChatEmits DEF ChatRuns
  <2>10. ChatFits(opened, y)
    <3>1. ChatFits(opened, u) /\ opened.callStarted = {}
      BY <2>1, <2>2 DEF ChatRuns, ChatFits
    <3> QED BY <2>2, <2>4, <2>9, <3>1 DEF ChatFits, MovedTo
  <2>11. ChatFits(Emitting(opened, <<x>>), y)
    BY <2>8, <2>10, SameFits
  <2> QED BY <1>2, <2>2, <2>3, <2>8, <2>9, <2>11 DEF ChatRuns, SameChoice
<1> QED BY <1>1, <1>2

\* A fragment of a call finds the call's slot, which is behind the block.
LEMMA SlotFits ==
    ASSUME NEW s \in ChatStates, NEW z, ChatFits(s, z), NEW call \in Nat
    PROVE  LET known == call \in DOMAIN s.toolCallSlot
               slot == IF known THEN s.toolCallSlot[call] ELSE NextSlot(s)
               placed == IF known THEN s
                         ELSE [s EXCEPT !.toolCallSlot = Put(@, call, slot), !.toolCallIdx = slot + 1]
           IN  /\ slot \in Nat /\ slot > s.blockIndex /\ slot < placed.toolCallIdx
               /\ placed \in ChatStates /\ placed.events = s.events
               /\ placed.blockIndex = s.blockIndex /\ placed.callStarted = s.callStarted
               /\ ChatFits(placed, z) /\ placed.toolCallSlot # <<>>
<1> DEFINE known == call \in DOMAIN s.toolCallSlot
           slot == IF known THEN s.toolCallSlot[call] ELSE NextSlot(s)
           slots == Put(s.toolCallSlot, call, slot)
           next == slot + 1
           new == [s EXCEPT !.toolCallSlot = slots, !.toolCallIdx = next]
<1>1. s.blockIndex \in Nat /\ s.toolCallIdx \in Nat /\ s.toolCallSlot \in Slots /\ s.callStarted \subseteq Nat
  BY DEF ChatStates
<1>2. slot \in Nat
  BY SlotChosen
<1>3. CASE known
  <2>1. slot > s.blockIndex /\ slot < s.toolCallIdx
    BY <1>3 DEF ChatFits
  <2>2. s.toolCallSlot # <<>>
    BY <1>3
  <2> HIDE DEF slot
  <2> QED BY <1>2, <1>3, <2>1, <2>2 DEF slot
<1>4. CASE ~known
  <2>1. /\ slot = NextSlot(s) /\ slot > s.blockIndex
        /\ \A other \in DOMAIN s.toolCallSlot : s.toolCallSlot[other] < slot
        /\ \A i \in s.callStarted : i < slot
    <3>1. CASE s.toolCallSlot = <<>>
      BY <1>1, <1>4, <3>1 DEF NextSlot, ChatFits
    <3>2. CASE s.toolCallSlot # <<>>
      BY <1>1, <1>4, <3>2 DEF NextSlot, ChatFits
    <3> QED BY <3>1, <3>2
  <2> HIDE DEF slot
  <2>2. slots \in Slots /\ next \in Nat /\ slot < next
    BY <1>1, <1>2, SlotPut
  <2>3. slots # <<>> /\ DOMAIN slots = DOMAIN s.toolCallSlot \cup {call}
    BY DEF Put
  <2>4. \A other \in DOMAIN slots : slots[other] = slot \/ (other \in DOMAIN s.toolCallSlot /\ slots[other] = s.toolCallSlot[other])
    BY DEF Put
  <2>5. \A other \in DOMAIN slots : slots[other] > s.blockIndex /\ slots[other] < next
    <3> SUFFICES ASSUME NEW other \in DOMAIN slots PROVE slots[other] > s.blockIndex /\ slots[other] < next
      OBVIOUS
    <3>1. CASE slots[other] = slot
      BY <2>1, <2>2, <3>1
    <3>2. CASE other \in DOMAIN s.toolCallSlot /\ slots[other] = s.toolCallSlot[other]
      <4>1. s.toolCallSlot[other] \in Nat
        BY <1>1, <3>2, SlotTyped
      <4>2. s.toolCallSlot[other] > s.blockIndex /\ s.toolCallSlot[other] < slot
        BY <2>1, <3>2 DEF ChatFits
      <4> QED BY <1>2, <3>2, <4>1, <4>2
    <3> QED BY <2>4, <3>1, <3>2
  <2>6. \A i \in s.callStarted : i < next
    BY <1>1, <1>2, <2>1
  <2>7. next > s.blockIndex
    BY <1>1, <1>2, <2>1
  <2> HIDE DEF slots, next
  <2>8. new \in ChatStates
    BY <2>2 DEF ChatStates
  <2>9. /\ new.events = s.events /\ new.callStarted = s.callStarted /\ new.blockIndex = s.blockIndex
        /\ new.hasReasoning = s.hasReasoning /\ new.reasonIndex = s.reasonIndex
        /\ new.toolCallSlot = slots /\ new.toolCallIdx = next
    BY DEF ChatStates
  <2> HIDE DEF new
  <2>10. ChatFits(new, z)
    BY <2>3, <2>5, <2>6, <2>7, <2>9 DEF ChatFits
  <2>11. [s EXCEPT !.toolCallSlot = Put(@, call, slot), !.toolCallIdx = slot + 1] = new
    BY DEF new, slots, next
  <2> QED BY <1>2, <1>4, <2>1, <2>2, <2>3, <2>8, <2>9, <2>10, <2>11 DEF slot
<1> QED BY <1>3, <1>4

\* A call's block starts, behind the current block.
LEMMA StartedRuns ==
    ASSUME NEW s, NEW a, NEW z, ChatRuns(s, a, z), s.toolCallSlot # <<>>, NEW slot \in Nat,
           slot > s.blockIndex, slot < s.toolCallIdx, slot \notin s.callStarted
    PROVE  \E y : ChatRuns(Emitting([s EXCEPT !.callStarted = @ \cup {slot}],
                                    <<Started(slot, "tool_use")>>), a, y)
<1> DEFINE x == Started(slot, "tool_use")
           r == [s EXCEPT !.callStarted = @ \cup {slot}]
<1>1. s \in ChatStates /\ s.callStarted \subseteq Nat /\ s.blockIndex \in Nat
  BY DEF ChatRuns, ChatStates
<1>2. z[slot] = "new"
  BY DEF ChatRuns, ChatFits
<1>3. x \in CoreEvents
  <2>1. <<>> \in Seq(Nat)
    OBVIOUS
  <2> QED BY <2>1 DEF Started, CoreEvent, CoreEvents, EventTypes, BlockKinds
<1>4. x.index = slot /\ Goes(x, "new", "call") /\ "call" \in BlockStatuses
  BY EventFields DEF Goes, BlockStatuses
<1>5. r \in ChatStates
  BY <1>1 DEF ChatStates
<1>6. /\ r.events = s.events /\ r.callStarted = s.callStarted \cup {slot}
      /\ r.blockIndex = s.blockIndex /\ r.hasReasoning = s.hasReasoning
      /\ r.reasonIndex = s.reasonIndex /\ r.toolCallSlot = s.toolCallSlot
      /\ r.toolCallIdx = s.toolCallIdx
  BY <1>1 DEF ChatStates
<1> HIDE DEF r, x
<1>7. Runs(a, r.events, z)
  BY <1>6 DEF ChatRuns
<1>8. Emitting(r, <<x>>) \in ChatStates /\ SameChoice(Emitting(r, <<x>>), r)
  BY <1>2, <1>3, <1>4, <1>5, <1>7, ChatEmits
<1>9. PICK y : Runs(a, Emitting(r, <<x>>).events, y) /\ MovedTo(y, z, slot, "call")
  BY <1>2, <1>3, <1>4, <1>5, <1>7, ChatEmits
<1>10. ChatFits(r, y)
  <2>1. ChatFits(s, z)
    BY DEF ChatRuns
  <2>2. y[s.blockIndex] = z[s.blockIndex]
    BY <1>1, <1>9 DEF MovedTo
  <2>3. \A i \in r.callStarted :
           i > r.blockIndex /\ i < r.toolCallIdx /\ y[i] \in {"call", "calling"}
    <3> SUFFICES ASSUME NEW i \in r.callStarted
                 PROVE  i > r.blockIndex /\ i < r.toolCallIdx /\ y[i] \in {"call", "calling"}
      OBVIOUS
    <3>1. CASE i = slot
      BY <1>6, <1>9, <3>1 DEF MovedTo
    <3>2. CASE i # slot
      <4>1. i \in s.callStarted /\ i \in Nat
        BY <1>1, <1>6, <3>2
      <4> QED BY <1>6, <1>9, <2>1, <3>2, <4>1 DEF MovedTo, ChatFits
    <3> QED BY <3>1, <3>2
  <2>4. \A i \in Nat : i > r.blockIndex /\ i \notin r.callStarted => y[i] = "new"
    BY <1>6, <1>9, <2>1 DEF MovedTo, ChatFits
  <2> QED BY <1>6, <2>1, <2>2, <2>3, <2>4 DEF ChatFits
<1>11. ChatFits(Emitting(r, <<x>>), y)
  BY <1>8, <1>10, SameFits
<1>12. ChatRuns(Emitting(r, <<x>>), a, y)
  BY <1>8, <1>9, <1>11 DEF ChatRuns
<1> QED BY <1>12 DEF r, x

\* Arguments of a call that was announced.
LEMMA ArgsRuns ==
    ASSUME NEW s, NEW a, NEW z, ChatRuns(s, a, z), NEW slot \in s.callStarted, NEW words \in Seq(Nat)
    PROVE  \E y : ChatRuns(Emitting(s, <<ArgsDelta(slot, words)>>), a, y)
<1> DEFINE x == ArgsDelta(slot, words)
<1>1. s \in ChatStates /\ s.callStarted \subseteq Nat /\ slot \in Nat /\ s.blockIndex \in Nat
  BY DEF ChatRuns, ChatStates
<1>2. z[slot] \in {"call", "calling"} /\ slot > s.blockIndex
  BY DEF ChatRuns, ChatFits
<1>3. x \in CoreEvents /\ x.index = slot
  BY <1>1, EventsOfAChunk, EventFields
<1>4. Goes(x, z[slot], "calling") /\ "calling" \in BlockStatuses
  BY <1>2, EventFields DEF Goes, BlockStatuses
<1> HIDE DEF x
<1>5. Emitting(s, <<x>>) \in ChatStates /\ SameChoice(Emitting(s, <<x>>), s)
  BY <1>1, <1>3, <1>4, ChatEmits DEF ChatRuns
<1>6. PICK y : Runs(a, Emitting(s, <<x>>).events, y) /\ MovedTo(y, z, slot, "calling")
  BY <1>1, <1>3, <1>4, ChatEmits DEF ChatRuns
<1>7. ChatFits(s, y)
  <2>1. ChatFits(s, z)
    BY DEF ChatRuns
  <2>2. y[s.blockIndex] = z[s.blockIndex]
    BY <1>1, <1>2, <1>6 DEF MovedTo
  <2>3. \A i \in s.callStarted : y[i] = z[i] \/ y[i] = "calling"
    BY <1>1, <1>6 DEF MovedTo
  <2>4. \A i \in Nat : i > s.blockIndex /\ i \notin s.callStarted => y[i] = "new"
    BY <1>6, <2>1 DEF MovedTo, ChatFits
  <2> QED BY <2>1, <2>2, <2>3, <2>4 DEF ChatFits
<1>8. ChatFits(Emitting(s, <<x>>), y)
  BY <1>5, <1>7, SameFits
<1>9. ChatRuns(Emitting(s, <<x>>), a, y)
  BY <1>5, <1>6, <1>8 DEF ChatRuns
<1> QED BY <1>9 DEF x

LEMMA CallRuns ==
    ASSUME messages \in Nat, NEW s, NEW a, NEW z, ChatRuns(s, a, z), NEW f \in Fragments
    PROVE  \E y : ChatRuns(ChatCall(s, f), a, y)
<1> DEFINE known == f.call \in DOMAIN s.toolCallSlot
           slot == IF known THEN s.toolCallSlot[f.call] ELSE NextSlot(s)
           placed == IF known THEN s
                     ELSE [s EXCEPT !.toolCallSlot = Put(@, f.call, slot), !.toolCallIdx = slot + 1]
           starts == slot \notin s.callStarted /\ f.named
           begun == IF starts
                    THEN Emitting([placed EXCEPT !.callStarted = @ \cup {slot}],
                                  <<Started(slot, "tool_use")>>)
                    ELSE placed
           x == ArgsDelta(slot, CallPiece(f.call))
<1>1. f.call \in Nat /\ s \in ChatStates /\ ChatFits(s, z)
  BY DEF Fragments, ChatRuns
<1>2. /\ slot \in Nat /\ slot > s.blockIndex /\ slot < placed.toolCallIdx
      /\ placed \in ChatStates /\ placed.events = s.events
      /\ placed.blockIndex = s.blockIndex /\ placed.callStarted = s.callStarted
      /\ ChatFits(placed, z) /\ placed.toolCallSlot # <<>>
  BY <1>1, SlotFits
<1>3. ChatCall(s, f) = IF f.args /\ slot \in begun.callStarted THEN Emitting(begun, <<x>>) ELSE begun
  BY DEF ChatCall
<1>4. starts => slot \notin placed.callStarted
  BY <1>2
<1> HIDE DEF placed, slot, starts
<1>5. ChatRuns(placed, a, z)
  BY <1>2 DEF ChatRuns
<1>6. PICK u : ChatRuns(begun, a, u)
  <2>1. CASE starts
    <3>1. slot > placed.blockIndex
      BY <1>2
    <3>2. \E u : ChatRuns(Emitting([placed EXCEPT !.callStarted = @ \cup {slot}],
                                   <<Started(slot, "tool_use")>>), a, u)
      BY <1>2, <1>4, <1>5, <2>1, <3>1, StartedRuns
    <3> QED BY <2>1, <3>2
  <2>2. CASE ~starts
    BY <1>5, <2>2
  <2> QED BY <2>1, <2>2
<1> HIDE DEF begun
<1>7. CASE f.args /\ slot \in begun.callStarted
  <2>1. CallPiece(f.call) \in Seq(Nat)
    BY <1>1, PiecesTyped
  <2>2. \E y : ChatRuns(Emitting(begun, <<ArgsDelta(slot, CallPiece(f.call))>>), a, y)
    BY <1>6, <1>7, <2>1, ArgsRuns
  <2> QED BY <1>3, <1>7, <2>2
<1>8. CASE ~(f.args /\ slot \in begun.callStarted)
  BY <1>3, <1>6, <1>8
<1> QED BY <1>7, <1>8

LEMMA CallsRun ==
    ASSUME messages \in Nat, NEW c \in Chunks, NEW s, NEW a, NEW z, ChatRuns(s, a, z)
    PROVE  /\ \E y : ChatRuns(ChatCalls(c, s), a, y)
           /\ Len(c.calls) = 0 => ChatCalls(c, s) = s
<1> DEFINE m == Len(c.calls)
           g == CHOOSE g : IsCalls(g, Len(c.calls), c, s)
           Good == { n \in Nat : \E y : ChatRuns(g[n], a, y) }
<1>0. m \in Nat
  BY CallsOfAChunk
<1>1. IsCalls(g, Len(c.calls), c, s)
  BY <1>0, CallsExist
<1>2. ChatCalls(c, s) = g[m]
  BY DEF ChatCalls, IsCalls
<1> HIDE DEF g
<1>3. g[0] = s
  BY <1>0, <1>1 DEF IsCalls
<1>4. ASSUME NEW n \in 1 .. m PROVE g[n] = ChatCall(g[n - 1], c.calls[n])
  <2>1. n \in 0 .. Len(c.calls) /\ n # 0
    BY <1>0
  <2> QED BY <1>1, <2>1, Zenon DEF IsCalls
<1>5. 0 \in Good
  BY <1>3
<1>6. ASSUME NEW n \in 1 .. m, n - 1 \in Good PROVE n \in Good
  <2>1. n \in Nat /\ c.calls[n] \in Fragments
    BY <1>0, <1>6, CallsOfAChunk
  <2>2. PICK u : ChatRuns(g[n - 1], a, u)
    BY <1>6
  <2>3. \E y : ChatRuns(ChatCall(g[n - 1], c.calls[n]), a, y)
    BY <2>1, <2>2, CallRuns
  <2> QED BY <1>4, <2>1, <2>3
<1>7. m \in Good
  <2> HIDE DEF Good
  <2> QED BY <1>0, <1>5, <1>6, InductionUpTo
<1> QED BY <1>2, <1>3, <1>7

\* A call's end, in its turn: its arguments are complete, and its block is.
LEMMA CallClosedRuns ==
    ASSUME NEW s \in ChatStates, NEW i \in Nat, NEW a, NEW e, NEW z, Runs(a, e, z),
           i \in CallsBehind(s) => z[i] \in {"call", "calling"}
    PROVE  \E y : /\ Runs(a, e \o CallClosed(s, i), y)
                  /\ \A j \in Nat : j # i => y[j] = z[j]
<1>1. z \in Boards
  BY RunsTyped
<1>2. CASE i \notin CallsBehind(s)
  <2>1. CallClosed(s, i) = <<>>
    BY <1>2 DEF CallClosed
  <2>2. Runs(z, <<>>, z)
    BY <1>1, RunsNothing
  <2> QED BY <2>1, <2>2, RunsTogether
<1>3. CASE i \in CallsBehind(s)
  <2> DEFINE args == ArgsDone(i, <<>>)
             done == BlockDone(i, <<>>)
  <2>1. /\ args.index = i /\ Goes(args, z[i], "called") /\ done.index = i /\ Goes(done, "called", "over")
        /\ "called" \in BlockStatuses /\ "over" \in BlockStatuses
    BY <1>3, EventFields DEF Goes, BlockStatuses
  <2>2. CallClosed(s, i) = <<args, done>>
    BY <1>3 DEF CallClosed
  <2> HIDE DEF args, done
  <2>3. PICK u : Runs(z, <<args>>, u) /\ MovedTo(u, z, i, "called")
    BY <1>1, <2>1, OneMoves
  <2>4. PICK v : Runs(z, <<args>> \o <<done>>, v) /\ MovedTo(v, z, i, "over")
    BY <2>1, <2>3, SameMovesOn
  <2>5. <<args, done>> = <<args>> \o <<done>>
    BY TwoAndThree
  <2>6. Runs(a, e \o CallClosed(s, i), v)
    BY <2>2, <2>4, <2>5, RunsTogether
  <2> QED BY <2>4, <2>6 DEF MovedTo
<1> QED BY <1>2, <1>3

\* The calls behind the block, one after the other.
CallsOpenAfter(s, z, n) ==
    \A i \in CallsBehind(s) : i > s.blockIndex + n => z[i] \in {"call", "calling"}

LEMMA CallsClosedRun ==
    ASSUME NEW s \in ChatStates, NEW a \in Boards, CallsOpenAfter(s, a, 0)
    PROVE  \E y : Runs(a, CallsClosed(s), y)
<1> DEFINE m == Behind(s)
           f == CHOOSE f : IsClosed(f, Behind(s), s)
           Good == { n \in Nat : \E z : Runs(a, f[n], z) /\ CallsOpenAfter(s, z, n) }
<1>0. m \in Nat /\ s.blockIndex \in Nat
  BY BehindTyped
<1>1. IsClosed(f, Behind(s), s)
  BY <1>0, ClosedExists
<1>2. CallsClosed(s) = f[m]
  BY DEF CallsClosed, IsClosed, Behind
<1> HIDE DEF f
<1>3. f[0] = <<>>
  BY <1>0, <1>1 DEF IsClosed
<1>4. ASSUME NEW n \in 1 .. m PROVE f[n] = f[n - 1] \o CallClosed(s, s.blockIndex + n)
  <2>1. n \in 0 .. Behind(s) /\ n # 0
    BY <1>0
  <2> QED BY <1>1, <2>1, Zenon DEF IsClosed
<1>5. 0 \in Good
  BY <1>3, RunsNothing
<1>6. ASSUME NEW n \in 1 .. m, n - 1 \in Good PROVE n \in Good
  <2> DEFINE i == s.blockIndex + n
  <2>1. n \in Nat /\ i \in Nat /\ i > s.blockIndex + (n - 1)
    BY <1>0
  <2>2. PICK z : Runs(a, f[n - 1], z) /\ CallsOpenAfter(s, z, n - 1)
    BY <1>6
  <2>3. i \in CallsBehind(s) => z[i] \in {"call", "calling"}
    BY <2>1, <2>2 DEF CallsOpenAfter
  <2>4. f[n] = f[n - 1] \o CallClosed(s, i)
    BY <1>4
  <2>5. \A j \in CallsBehind(s) : j > s.blockIndex + n => j # i /\ j > s.blockIndex + (n - 1) /\ j \in Nat
    BY <1>0 DEF CallsBehind, ChatStates
  <2> HIDE DEF i
  <2>6. PICK y : /\ Runs(a, f[n - 1] \o CallClosed(s, i), y)
                 /\ \A j \in Nat : j # i => y[j] = z[j]
    BY <2>1, <2>2, <2>3, CallClosedRuns
  <2>7. CallsOpenAfter(s, y, n)
    BY <2>2, <2>5, <2>6 DEF CallsOpenAfter
  <2> QED BY <2>1, <2>4, <2>6, <2>7
<1>7. m \in Good
  <2> HIDE DEF Good
  <2> QED BY <1>0, <1>5, <1>6, InductionUpTo
<1> QED BY <1>2, <1>7

LEMMA FinishRuns ==
    ASSUME NEW c, NEW s, NEW a, NEW z, ChatRuns(s, a, z)
    PROVE  \E y : Runs(a, ChatFinish(c, s).events, y)
<1>1. CASE ~c.finish
  BY <1>1 DEF ChatFinish, ChatRuns
<1>2. CASE c.finish
  <2> DEFINE x == BlockDone(s.blockIndex, <<>>)
             new == <<x>> \o CallsClosed(s)
  <2>1. s \in ChatStates /\ s.blockIndex \in Nat /\ z \in Boards /\ ChatFits(s, z)
    BY RunsTyped DEF ChatRuns, ChatStates
  <2>2. PICK to \in BlockStatuses : Goes(x, z[s.blockIndex], to)
    <3>1. z[s.blockIndex] \in {"new", "text", "reasoning"}
      BY <2>1 DEF ChatFits
    <3> QED BY <3>1, EventFields DEF Goes, BlockStatuses
  <2>3. x.index = s.blockIndex
    BY EventFields
  <2> HIDE DEF x
  <2>4. PICK u : Runs(z, <<x>>, u) /\ MovedTo(u, z, s.blockIndex, to)
    BY <2>1, <2>2, <2>3, OneMoves
  <2>5. CallsOpenAfter(s, u, 0)
    <3> SUFFICES ASSUME NEW i \in CallsBehind(s) PROVE u[i] \in {"call", "calling"}
      BY DEF CallsOpenAfter
    <3>1. i \in s.callStarted /\ i \in Nat /\ i # s.blockIndex
      BY <2>1 DEF CallsBehind, ChatStates
    <3> QED BY <2>1, <2>4, <3>1 DEF ChatFits, MovedTo
  <2>6. PICK y : Runs(u, CallsClosed(s), y)
    BY <2>1, <2>4, <2>5, CallsClosedRun DEF MovedTo
  <2>7. Runs(z, new, y)
    BY <2>4, <2>6, RunsTogether
  <2>8. Runs(a, s.events \o new, y)
    BY <2>7, RunsTogether DEF ChatRuns
  <2>9. ChatFinish(c, s) = Emitting(s, new)
    BY <1>2 DEF ChatFinish, x
  <2> HIDE DEF new
  <2>10. Emitting(s, new).events = s.events \o new
    BY <2>1 DEF Emitting, ChatStates
  <2> QED BY <2>8, <2>9, <2>10
<1> QED BY <1>1, <1>2

-----------------------------------------------------------------------------
(* What a chunk of a chat stream says: the types of what was said remain,  *)
(* and the types of what the chunk says join them.                         *)

AnswerBlocks == [type : ItemTypes, n : Nat, text : Seq(Nat), signature : Seq(Nat)]

LEMMA BlockFound ==
    ASSUME NEW a, NEW type, NEW n, BlockOf(a, type, n) # 0
    PROVE  BlockOf(a, type, n) \in DOMAIN a /\ a[BlockOf(a, type, n)].type = type
<1> DEFINE places == { i \in DOMAIN a : a[i].type = type /\ a[i].n = n }
<1>1. places # {} /\ BlockOf(a, type, n) = CHOOSE i \in places : TRUE
  BY DEF BlockOf
<1>2. BlockOf(a, type, n) \in places
  <2> HIDE DEF places
  <2> QED BY <1>1
<1> QED BY <1>2

LEMMA SayTyped ==
    ASSUME NEW a \in Seq(AnswerBlocks), NEW type \in ItemTypes, NEW n \in Nat, NEW d \in Seq(Nat)
    PROVE  Say(a, type, n, d) \in Seq(AnswerBlocks) /\ Types(a) \cup {type} \subseteq Types(Say(a, type, n, d))
<1> DEFINE i == BlockOf(a, type, n)
<1>1. CASE i = 0
  <2> DEFINE b == [Said(type, n) EXCEPT !.text = d]
             words == Append(a, b)
  <2>1. b \in AnswerBlocks /\ b.type = type
    <3>1. <<>> \in Seq(Nat)
      OBVIOUS
    <3>2. b = [type |-> type, n |-> n, text |-> d, signature |-> <<>>]
      BY SMTT(40) DEF Said
    <3> QED BY <3>1, <3>2 DEF AnswerBlocks
  <2>2. Say(a, type, n, d) = words
    BY <1>1, Zenon DEF Say
  <2> HIDE DEF b, i
  <2>3. words \in Seq(AnswerBlocks) /\ DOMAIN a \subseteq DOMAIN words /\ Len(a) + 1 \in DOMAIN words
    BY <2>1, Appended
  <2>4. words[Len(a) + 1] = b /\ \A k \in DOMAIN a : words[k] = a[k]
    BY <2>1
  <2> HIDE DEF words
  <2>5. type \in Types(words)
    BY <2>1, <2>3, <2>4 DEF Types
  <2>6. Types(a) \subseteq Types(words)
    BY <2>3, <2>4 DEF Types
  <2> QED BY <2>2, <2>3, <2>5, <2>6
<1>2. CASE i # 0
  <2> DEFINE b == [a[i] EXCEPT !.text = @ \o d]
             words == [a EXCEPT ![i] = b]
  <2>1. i \in DOMAIN a /\ a[i].type = type
    BY <1>2, BlockFound
  <2>2. Say(a, type, n, d) = words
    BY <1>2 DEF Say
  <2> HIDE DEF i
  <2>3. a[i] \in AnswerBlocks
    BY <2>1
  <2>4. b \in AnswerBlocks /\ b.type = a[i].type
    <3>1. a[i].text \o d \in Seq(Nat)
      <4>1. a[i].text \in Seq(Nat)
        BY <2>3 DEF AnswerBlocks
      <4> QED BY <4>1
    <3> DEFINE t == a[i].text \o d
    <3>2. b = [a[i] EXCEPT !.text = t]
      OBVIOUS
    <3> HIDE DEF t, b
    <3> QED BY <2>3, <3>1, <3>2 DEF AnswerBlocks, t
  <2> HIDE DEF b
  <2>5. words \in Seq(AnswerBlocks) /\ DOMAIN words = DOMAIN a
    BY <2>1, <2>4
  <2>6. \A k \in DOMAIN a : words[k].type = a[k].type
    BY <2>1, <2>4
  <2> HIDE DEF words
  <2> QED BY <2>1, <2>2, <2>5, <2>6 DEF Types
<1> QED BY <1>1, <1>2

\* The words that a fragment of a call adds.
ArgsOf(f) == IF f.args THEN CallPiece(f.call) ELSE <<>>

LEMMA ArgsTyped ==
    ASSUME messages \in Nat, NEW f \in Fragments
    PROVE  ArgsOf(f) \in Seq(Nat)
<1>1. f.call \in Nat /\ <<>> \in Seq(Nat)
  BY DEF Fragments
<1>2. CallPiece(f.call) \in Seq(Nat)
  BY <1>1, PiecesTyped
<1> QED BY <1>1, <1>2 DEF ArgsOf

SayCall(spoken, f) == Say(spoken, "function_call", f.call, ArgsOf(f))

\* g is the function that SaidInChunk(c) chooses, from what the chunk's texts said.
IsSaid(g, m, c, spoken) == g = [n \in 0 .. m |-> IF n = 0 THEN spoken ELSE SayCall(g[n - 1], c.calls[n])]

LEMMA SaidExists ==
    ASSUME NEW c, NEW spoken, NEW m \in Nat
    PROVE  \E g : IsSaid(g, m, c, spoken)
<1> DEFINE Good == { k \in Nat : \E g : IsSaid(g, k, c, spoken) }
<1>1. 0 \in Good
  <2> DEFINE g == [n \in 0 .. 0 |-> spoken]
  <2>1. g = [n \in 0 .. 0 |-> IF n = 0 THEN spoken ELSE SayCall(g[n - 1], c.calls[n])]
    OBVIOUS
  <2> HIDE DEF g
  <2> QED BY <2>1 DEF IsSaid
<1>2. ASSUME NEW k \in 1 .. m, k - 1 \in Good PROVE k \in Good
  <2>0. k \in Nat /\ k # 0
    BY <1>2
  <2>1. PICK g : IsSaid(g, k - 1, c, spoken)
    BY <1>2
  <2>2. PICK h : IsLonger(h, g, k, SayCall(g[k - 1], c.calls[k]))
    BY <2>0, Longer, Zenon
  <2>3. \A n \in 0 .. k - 1 : g[n] = IF n = 0 THEN spoken ELSE SayCall(g[n - 1], c.calls[n])
    BY <2>1, Zenon DEF IsSaid
  <2>4. \A n \in 0 .. k : h[n] = IF n = 0 THEN spoken ELSE SayCall(h[n - 1], c.calls[n])
    BY <2>2, <2>3 DEF IsLonger
  <2>5. h = [n \in 0 .. k |-> IF n = 0 THEN spoken ELSE SayCall(h[n - 1], c.calls[n])]
    BY <2>2, <2>4 DEF IsLonger
  <2> QED BY <2>0, <2>5, Zenon DEF IsSaid
<1>3. m \in Good
  <2> HIDE DEF Good
  <2> QED BY <1>1, <1>2, InductionUpTo
<1> QED BY <1>3

\* An answer that keeps the types of another.
TypesKept(a, b) == b \in Seq(AnswerBlocks) /\ Types(a) \subseteq Types(b)

LEMMA CallsSaid ==
    ASSUME messages \in Nat, NEW c \in Chunks, NEW spoken \in Seq(AnswerBlocks),
           NEW g, IsSaid(g, Len(c.calls), c, spoken)
    PROVE  /\ TypesKept(spoken, g[Len(c.calls)])
           /\ Len(c.calls) > 0 => "function_call" \in Types(g[Len(c.calls)])
<1> DEFINE m == Len(c.calls)
           Good == { n \in Nat : /\ TypesKept(spoken, g[n])
                                 /\ n > 0 => "function_call" \in Types(g[n]) }
<1>1. m \in Nat
  BY CallsOfAChunk
<1>2. g[0] = spoken
  BY <1>1 DEF IsSaid
<1>3. ASSUME NEW n \in 1 .. m
      PROVE  g[n] = Say(g[n - 1], "function_call", c.calls[n].call, ArgsOf(c.calls[n]))
  <2>1. n \in 0 .. Len(c.calls) /\ n # 0
    BY <1>1
  <2> QED BY <2>1, Zenon DEF IsSaid, SayCall
<1>4. 0 \in Good
  BY <1>2 DEF TypesKept
<1>5. ASSUME NEW n \in 1 .. m, n - 1 \in Good PROVE n \in Good
  <2>1. n \in Nat /\ c.calls[n] \in Fragments
    BY <1>1, CallsOfAChunk
  <2>2. c.calls[n].call \in Nat /\ "function_call" \in ItemTypes
    BY <2>1 DEF Fragments, ItemTypes
  <2>3. ArgsOf(c.calls[n]) \in Seq(Nat)
    BY <2>1, ArgsTyped
  <2>4. g[n - 1] \in Seq(AnswerBlocks) /\ Types(spoken) \subseteq Types(g[n - 1])
    BY <1>5 DEF TypesKept
  <2>5. g[n] \in Seq(AnswerBlocks) /\ Types(g[n - 1]) \cup {"function_call"} \subseteq Types(g[n])
    BY <1>3, <2>2, <2>3, <2>4, SayTyped
  <2> QED BY <2>1, <2>4, <2>5 DEF TypesKept
<1>6. m \in Good
  <2> HIDE DEF Good
  <2> QED BY <1>1, <1>4, <1>5, InductionUpTo
<1> QED BY <1>6

LEMMA ChunkSaid ==
    ASSUME messages \in Nat, NEW c \in Chunks, answer \in Seq(AnswerBlocks)
    PROVE  /\ TypesKept(answer, SaidInChunk(c))
           /\ c.reasoning => "reasoning" \in Types(SaidInChunk(c))
           /\ c.content => "message" \in Types(SaidInChunk(c))
           /\ Len(c.calls) > 0 => "function_call" \in Types(SaidInChunk(c))
<1> DEFINE reasoned == IF c.reasoning THEN Say(answer, "reasoning", 0, ReasoningPiece) ELSE answer
           spoken == IF c.content THEN Say(reasoned, "message", 0, ContentPiece) ELSE reasoned
           g == CHOOSE g : IsSaid(g, Len(c.calls), c, spoken)
<1>1. /\ 0 \in Nat /\ ReasoningPiece \in Seq(Nat) /\ ContentPiece \in Seq(Nat)
      /\ "reasoning" \in ItemTypes /\ "message" \in ItemTypes
  <2>1. 0 \in Nat
    OBVIOUS
  <2> QED BY <2>1, PiecesTyped DEF ItemTypes
<1>2. SaidInChunk(c) = g[Len(c.calls)]
  BY DEF SaidInChunk, IsSaid, SayCall, ArgsOf
<1>3. TypesKept(answer, reasoned) /\ (c.reasoning => "reasoning" \in Types(reasoned))
  <2>1. CASE c.reasoning
    BY <1>1, <2>1, SayTyped DEF TypesKept
  <2>2. CASE ~c.reasoning
    BY <2>2 DEF TypesKept
  <2> QED BY <2>1, <2>2
<1> HIDE DEF reasoned
<1>4. TypesKept(reasoned, spoken) /\ (c.content => "message" \in Types(spoken))
  <2>0. reasoned \in Seq(AnswerBlocks)
    BY <1>3 DEF TypesKept
  <2>1. CASE c.content
    BY <1>1, <2>0, <2>1, SayTyped DEF TypesKept
  <2>2. CASE ~c.content
    BY <2>0, <2>2 DEF TypesKept
  <2> QED BY <2>1, <2>2
<1> HIDE DEF spoken
<1>5. spoken \in Seq(AnswerBlocks)
  BY <1>4 DEF TypesKept
<1>6. IsSaid(g, Len(c.calls), c, spoken)
  BY CallsOfAChunk, SaidExists
<1> HIDE DEF g
<1>7. TypesKept(spoken, g[Len(c.calls)]) /\ (Len(c.calls) > 0 => "function_call" \in Types(g[Len(c.calls)]))
  BY <1>5, <1>6, CallsSaid
<1> QED BY <1>2, <1>3, <1>4, <1>7 DEF TypesKept

-----------------------------------------------------------------------------
(* A chunk of a chat stream.                                               *)

LEMMA RoleKeepsCalls ==
    ASSUME NEW c, NEW s \in ChatStates
    PROVE  ChatRole(c, s).toolCallSlot = s.toolCallSlot /\ (c.role /\ ~s.started => ChatRole(c, s).started)
BY DEF ChatRole, Emitting, ChatStates

\* What was said of the choice: calls have been placed only if they were spoken
\* of, and nothing is open as long as nothing was said.
SaidOf(s, a, z) ==
    /\ a \in Seq(AnswerBlocks)
    /\ s.toolCallSlot # <<>> => "function_call" \in Types(a)
    /\ ~s.started /\ a = <<>> => z[s.blockIndex] = "new"

LEMMA NothingSaid == ASSUME NEW a \in Seq(AnswerBlocks), Types(a) = {} PROVE a = <<>>
<1>1. DOMAIN a = {}
  BY DEF Types
<1> QED BY <1>1

\* The steps before the finish reason, of a chunk that keeps the order.
LEMMA ChunkRuns ==
    ASSUME messages \in Nat, NEW c \in Chunks, NEW z \in Boards, choice \in ChatStates,
           choice.events = <<>>, ChatFits(choice, z), SaidOf(choice, answer, z), KeepsOrder(c),
           NEW s, s = ChatCalls(c, ChatContent(c, ChatReasoning(c, ChatRole(c, choice))))
    PROVE  \E y : ChatRuns(s, z, y) /\ SaidOf(s, SaidInChunk(c), y)
<1> DEFINE s1 == ChatRole(c, choice)
           s2 == ChatReasoning(c, s1)
           s3 == ChatContent(c, s2)
           words == SaidInChunk(c)
<1>1. /\ words \in Seq(AnswerBlocks) /\ Types(answer) \subseteq Types(words)
      /\ c.reasoning => "reasoning" \in Types(words)
      /\ c.content => "message" \in Types(words)
      /\ Len(c.calls) > 0 => "function_call" \in Types(words)
  BY ChunkSaid DEF TypesKept, SaidOf
<1>2. c.reasoning \/ c.content => choice.toolCallSlot = <<>>
  BY DEF KeepsOrder, SaidOf
<1>3. c.role /\ ~choice.started => z[choice.blockIndex] = "new"
  BY DEF KeepsOrder, SaidOf
<1>4. ChatRuns(choice, z, z)
  <2>1. Runs(z, <<>>, z)
    BY RunsNothing
  <2> QED BY <2>1 DEF ChatRuns
<1>5. s1.toolCallSlot = choice.toolCallSlot
  BY RoleKeepsCalls
<1>6. PICK y1 : ChatRuns(s1, z, y1)
  BY <1>3, <1>4, RoleRuns
<1> HIDE DEF s1
<1>7. s2.toolCallSlot = choice.toolCallSlot /\ \E y : ChatRuns(s2, z, y)
  BY <1>2, <1>5, <1>6, ReasoningRuns
<1>8. PICK y2 : ChatRuns(s2, z, y2)
  BY <1>7
<1>9. s2 = ChatReasoning(c, s1)
  OBVIOUS
<1> HIDE DEF s2
<1>10. s3.toolCallSlot = choice.toolCallSlot /\ \E y : ChatRuns(s3, z, y)
  BY <1>2, <1>7, <1>8, ContentRuns
<1>11. PICK y3 : ChatRuns(s3, z, y3)
  BY <1>10
<1>12. s3 = ChatContent(c, s2)
  OBVIOUS
<1>13. s = ChatCalls(c, s3)
  BY DEF s1, s2
<1> HIDE DEF s3, words
<1>14. \E y : ChatRuns(s, z, y)
  BY <1>11, <1>13, CallsRun
<1>15. Len(c.calls) = 0 => s = s3
  BY <1>11, <1>13, CallsRun
<1>16. Len(c.calls) \in Nat
  BY CallsOfAChunk
<1>17. PICK y : ChatRuns(s, z, y)
  BY <1>14
<1>18. s.toolCallSlot # <<>> => "function_call" \in Types(words)
  <2>1. CASE Len(c.calls) > 0
    BY <1>1, <2>1
  <2>2. CASE Len(c.calls) = 0
    <3>1. s.toolCallSlot = choice.toolCallSlot
      BY <1>10, <1>15, <2>2
    <3> QED BY <1>1, <3>1 DEF SaidOf
  <2> QED BY <1>16, <2>1, <2>2
<1>19. CASE ~s.started /\ words = <<>>
  <2>1. Types(words) = {}
    BY <1>19 DEF Types
  <2>2. Types(answer) = {} /\ ~c.reasoning /\ ~c.content /\ Len(c.calls) = 0
    BY <1>1, <1>16, <2>1
  <2>3. s = s1
    BY <1>9, <1>12, <1>15, <2>2 DEF ChatReasoning, ChatContent
  <2>4. ~c.role \/ choice.started
    BY <1>19, <2>3, RoleKeepsCalls DEF s1
  <2>5. s = choice
    BY <2>3, <2>4 DEF ChatRole, s1
  <2>6. answer = <<>>
    BY <2>2, NothingSaid DEF SaidOf
  <2>7. z[s.blockIndex] = "new"
    BY <1>19, <2>5, <2>6 DEF SaidOf
  <2>8. ChatRuns(s, z, z)
    BY <1>4, <2>5
  <2> QED BY <1>1, <1>18, <2>7, <2>8 DEF SaidOf, words
<1>20. CASE ~(~s.started /\ words = <<>>)
  BY <1>1, <1>17, <1>18, <1>20 DEF SaidOf, words
<1> QED BY <1>19, <1>20

LEMMA ChatKeepsTurns ==
    ASSUME messages \in Nat, NEW z \in Boards, choice \in ChatStates, choice.events = <<>>,
           ChatFits(choice, z), SaidOf(choice, answer, z), ChatTakes, regular'
    PROVE  \E y : /\ Runs(z, coreEvents', y)
                  /\ upstream' = "open" => ChatFits(choice', y) /\ SaidOf(choice', answer', y)
<1>1. PICK c \in Chunks :
         /\ choice' = [ConvertedChunk(c) EXCEPT !.events = <<>>]
         /\ coreEvents' = ConvertedChunk(c).events
         /\ answer' = SaidInChunk(c)
         /\ KeepsOrder(c)
         /\ upstream' = IF c.finish THEN "finished" ELSE upstream
  BY DEF ChatTakes, Emits
<1> DEFINE s == ChatCalls(c, ChatContent(c, ChatReasoning(c, ChatRole(c, choice))))
<1>2. ConvertedChunk(c) = ChatFinish(c, s)
  BY DEF ConvertedChunk
<1>3. PICK y : ChatRuns(s, z, y) /\ SaidOf(s, SaidInChunk(c), y)
  <2>1. s = ChatCalls(c, ChatContent(c, ChatReasoning(c, ChatRole(c, choice))))
    OBVIOUS
  <2> HIDE DEF s
  <2> QED BY <1>1, <2>1, ChunkRuns
<1> HIDE DEF s
<1>4. CASE c.finish
  <2>1. \E x : Runs(z, ChatFinish(c, s).events, x)
    BY <1>3, FinishRuns
  <2>2. upstream' # "open"
    BY <1>1, <1>4
  <2> QED BY <1>1, <1>2, <2>1, <2>2
<1>5. CASE ~c.finish
  <2>1. ChatFinish(c, s) = s
    BY <1>5 DEF ChatFinish
  <2>2. choice' = [s EXCEPT !.events = <<>>] /\ coreEvents' = s.events
    BY <1>1, <1>2, <2>1
  <2>3. /\ choice'.hasReasoning = s.hasReasoning /\ choice'.reasonIndex = s.reasonIndex
        /\ choice'.blockIndex = s.blockIndex /\ choice'.toolCallSlot = s.toolCallSlot
        /\ choice'.toolCallIdx = s.toolCallIdx /\ choice'.callStarted = s.callStarted
        /\ choice'.started = s.started
    BY <1>3, <2>2 DEF ChatRuns, ChatStates
  <2>4. SaidOf(choice', answer', y)
    BY <1>1, <1>3, <2>3 DEF SaidOf
  <2>5. ChatFits(choice', y)
    BY <1>3, <2>3, SameFits DEF ChatRuns, SameChoice
  <2> QED BY <1>3, <2>2, <2>4, <2>5 DEF ChatRuns
<1> QED BY <1>4, <1>5

-----------------------------------------------------------------------------
(* The invariant: of a provider that keeps to the orders, the blocks that  *)
(* streamLoop has seen fit what it keeps of them, the events that wait     *)
(* come in their turn, and where they lead fits the state of the           *)
(* converter.                                                              *)

Replays == {"replay", "visualReplay"}

ConverterFits(z) ==
    /\ source = "anthropic" => AnthropicFits(z)
    /\ source = "chat" /\ upstream = "open" => ChatFits(choice, z) /\ SaidOf(choice, answer, z)
    /\ source = "google" /\ upstream = "open" => GoogleFits(z)
    /\ source \in Replays /\ messages = 0 => z = AllNew

InOrder == \E a, z \in Boards : Fits(a) /\ Runs(a, coreEvents, z) /\ ConverterFits(z)

TurnsInv ==
    /\ source \in Replays /\ messages = 0 => Ordered
    /\ Ordered => InOrder

LEMMA TurnsInit == Init => TurnsInv
<1> SUFFICES ASSUME Init PROVE TurnsInv
  OBVIOUS
<1>1. /\ coreEvents = <<>> /\ output = <<>> /\ sent = <<>> /\ contentText = <<>> /\ toolCallArgs = <<>>
      /\ outputIndexes = <<>> /\ reasonIndexes = {} /\ toolCallFinalized = {}
      /\ Ordered /\ block = "none" /\ choice = NewChoice /\ answer = <<>> /\ ~candidate.started
  BY DEF Init, EmptyStream, Ordered
<1>2. AllNew \in Boards /\ \A i \in Nat : AllNew[i] = "new"
  BY DEF AllNew, Boards, BlockStatuses
<1>3. Tidy(sent, Len(output))
  BY <1>1, NoEvents DEF Tidy
<1>4. DOMAIN <<>> = {}
  OBVIOUS
<1>5. Fits(AllNew)
  BY <1>1, <1>2, <1>3, <1>4 DEF Fits, OneEach, IndexFits
<1>6. Runs(AllNew, coreEvents, AllNew)
  BY <1>1, <1>2, RunsNothing
<1>7. source = "anthropic" => AnthropicFits(AllNew)
  <2>1. blockIndex = 0
    BY DEF Init
  <2> QED BY <1>1, <1>2, <2>1 DEF AnthropicFits
<1>8. ChatFits(choice, AllNew) /\ SaidOf(choice, answer, AllNew)
  <2>1. <<>> \in Seq(AnswerBlocks)
    OBVIOUS
  <2> QED BY <1>1, <1>2, <1>4, <2>1 DEF ChatFits, SaidOf, NewChoice
<1>9. GoogleFits(AllNew)
  BY <1>1, <1>2 DEF GoogleFits
<1>10. ConverterFits(AllNew)
  BY <1>7, <1>8, <1>9 DEF ConverterFits
<1> QED BY <1>1, <1>2, <1>5, <1>6, <1>10 DEF TurnsInv, InOrder

\* A converter finds no events, writes the next ones and leaves the rest alone.
Writes ==
    /\ coreEvents = <<>>
    /\ source' = source
    /\ UNCHANGED <<contentText, toolCallArgs, outputIndexes, reasonIndexes, toolCallFinalized,
                   output, sent>>

LEMMA ConverterWrites == ASSUME Converter PROVE Writes
BY DEF Converter, Anthropic, MessageStart, ContentBlockStart, ContentBlockStop, Delta,
       TextDeltaOfBlock, StatusDelta, ThinkingDelta, SignatureDelta, InputJSONDelta,
       MessageDelta, MessageStop, StreamFails, ChatTakes, GoogleTakes, ChannelClosed,
       ReplayWhole, Converts, Writes

LEMMA WrittenInOrder ==
    ASSUME Writes, NEW z, Fits(z), NEW y, Runs(z, coreEvents', y), ConverterFits(y)'
    PROVE  InOrder'
<1>1. Fits(z)'
  BY QuietFits DEF Writes
<1>2. z \in Boards /\ y \in Boards
  BY RunsTyped
<1> QED BY <1>1, <1>2 DEF InOrder

\* A step of the converter of a protocol.
LEMMA ProtocolKeepsOrder ==
    ASSUME ConverterTypes, CallsInv, Converter, ~ReplayWhole, InOrder, Ordered'
    PROVE  InOrder'
<1>1. Writes
  BY ConverterWrites
<1>2. PICK a \in Boards, z \in Boards : Fits(a) /\ Runs(a, coreEvents, z) /\ ConverterFits(z)
  BY DEF InOrder
<1>3. Fits(z)
  BY <1>1, <1>2, NothingRuns DEF Writes
<1>4. CASE Anthropic
  <2>1. source = "anthropic" /\ source' = "anthropic"
    BY <1>1, <1>4 DEF Writes, Anthropic, MessageStart, ContentBlockStart, ContentBlockStop, Delta,
         TextDeltaOfBlock, StatusDelta, ThinkingDelta, SignatureDelta, InputJSONDelta,
         MessageDelta, MessageStop, StreamFails
  <2>2. blockIndex \in Nat
    BY BoundsAssumption DEF ConverterTypes, BoundsAssumption
  <2>3. AnthropicFits(z)
    BY <1>2, <2>1 DEF ConverterFits
  <2>4. PICK y : Runs(z, coreEvents', y) /\ AnthropicFits(y)'
    BY <1>2, <1>4, <2>2, <2>3, AnthropicKeepsTurns
  <2>5. ConverterFits(y)'
    BY <2>1, <2>4 DEF ConverterFits, Replays
  <2> QED BY <1>1, <1>3, <2>4, <2>5, WrittenInOrder
<1>5. CASE ChatTakes
  <2>1. source = "chat" /\ source' = "chat" /\ upstream = "open"
    BY <1>1, <1>5 DEF Writes, ChatTakes, KeepsOrder, Ordered
  <2>2. messages \in Nat /\ choice \in ChatStates /\ choice.events = <<>>
    BY MessagesTyped DEF CallsInv, ChatInv
  <2>3. ChatFits(choice, z) /\ SaidOf(choice, answer, z)
    BY <1>2, <2>1 DEF ConverterFits
  <2>4. PICK y : /\ Runs(z, coreEvents', y)
                 /\ upstream' = "open" => ChatFits(choice', y) /\ SaidOf(choice', answer', y)
    BY <1>2, <1>5, <2>2, <2>3, ChatKeepsTurns DEF Ordered
  <2>5. ConverterFits(y)'
    BY <2>1, <2>4 DEF ConverterFits, Replays
  <2> QED BY <1>1, <1>3, <2>4, <2>5, WrittenInOrder
<1>6. CASE GoogleTakes
  <2>1. source = "google" /\ source' = "google" /\ upstream = "open"
    BY <1>1, <1>6 DEF Writes, GoogleTakes, Ordered
  <2>2. GoogleFits(z)
    BY <1>2, <2>1 DEF ConverterFits
  <2>3. PICK y : Runs(z, coreEvents', y) /\ (upstream' = "open" => GoogleFits(y)')
    BY <1>2, <1>6, <2>2, GoogleKeepsTurns
  <2>4. ConverterFits(y)'
    BY <2>1, <2>3 DEF ConverterFits, Replays
  <2> QED BY <1>1, <1>3, <2>3, <2>4, WrittenInOrder
<1>7. CASE ChannelClosed
  <2>1. /\ source' \in {"chat", "google"} /\ upstream' = "closed"
        /\ coreEvents' = <<Lifecycle("completed")>>
    BY <1>1, <1>7 DEF Writes, ChannelClosed, Emits
  <2>2. Runs(z, <<Lifecycle("completed")>>, z)
    BY <1>2, LifecycleRuns DEF Lifecycles
  <2>3. ConverterFits(z)'
    BY <2>1 DEF ConverterFits, Replays
  <2> QED BY <1>1, <1>3, <2>1, <2>2, <2>3, WrittenInOrder
<1> QED BY <1>4, <1>5, <1>6, <1>7 DEF Converter

LEMMA ConverterKeepsTurns ==
    ASSUME ConverterTypes, CallsInv, TurnsInv, Converter
    PROVE  TurnsInv'
<1>1. CASE ReplayWhole
  <2>1. Writes /\ messages = 0 /\ messages' = 1 /\ source \in Replays /\ source' \in Replays
    BY <1>1, ConverterWrites DEF ReplayWhole, Converts, Writes, Replays
  <2>2. PICK a \in Boards, z \in Boards : Fits(a) /\ Runs(a, coreEvents, z) /\ ConverterFits(z)
    BY <2>1 DEF TurnsInv, InOrder
  <2>3. Fits(AllNew)
    <3>1. z = a /\ z = AllNew
      BY <2>1, <2>2, NothingRuns DEF Writes, ConverterFits
    <3> QED BY <2>2, <3>1
  <2>4. PICK y : Runs(AllNew, coreEvents', y)
    BY <1>1, ReplayKeepsTurns
  <2>5. ConverterFits(y)'
    BY <2>1 DEF ConverterFits, Replays
  <2>6. InOrder'
    BY <2>1, <2>3, <2>4, <2>5, WrittenInOrder
  <2> QED BY <2>1, <2>6 DEF TurnsInv
<1>2. CASE ~ReplayWhole
  <2>1. source' = source /\ source \in {"anthropic", "chat", "google"}
    BY <1>2, ConverterWrites
    DEF Writes, Converter, Anthropic, MessageStart, ContentBlockStart, ContentBlockStop, Delta,
        TextDeltaOfBlock, StatusDelta, ThinkingDelta, SignatureDelta, InputJSONDelta,
        MessageDelta, MessageStop, StreamFails, ChatTakes, GoogleTakes, ChannelClosed
  <2>2. Ordered' => Ordered
    <3>1. CASE Anthropic
      BY <3>1 DEF Anthropic, MessageStart, ContentBlockStart, ContentBlockStop, Delta,
         TextDeltaOfBlock, StatusDelta, ThinkingDelta, SignatureDelta, InputJSONDelta,
         MessageDelta, MessageStop, StreamFails, converterVars, Ordered
    <3>2. CASE ChatTakes
      BY <3>2 DEF ChatTakes, Ordered
    <3>3. CASE GoogleTakes
      BY <3>3 DEF GoogleTakes, Ordered
    <3>4. CASE ChannelClosed
      BY <3>4 DEF ChannelClosed, Ordered
    <3> QED BY <1>2, <3>1, <3>2, <3>3, <3>4 DEF Converter
  <2>3. source' \notin Replays
    BY <2>1 DEF Replays
  <2>4. Ordered' => InOrder'
    BY <1>2, <2>2, ProtocolKeepsOrder DEF TurnsInv
  <2> QED BY <2>3, <2>4 DEF TurnsInv
<1> QED BY <1>1, <1>2

\* A step that leaves the converter alone.
LEMMA ConverterFitsStill ==
    ASSUME NEW z, ConverterFits(z), UNCHANGED <<source, upstream, messages, converterVars, answer>>
    PROVE  ConverterFits(z)'
BY DEF ConverterFits, AnthropicFits, GoogleFits, converterVars

LEMMA LoopStepKeepsTurns ==
    ASSUME LoopInv, LoopInv', TurnsInv, LoopStep
    PROVE  TurnsInv'
<1>1. StreamLoop /\ UNCHANGED <<source, upstream, messages, converterVars, answer, regular, stray>>
  BY DEF LoopStep
<1>2. ASSUME Ordered PROVE InOrder'
  <2>1. PICK a \in Boards, z \in Boards : Fits(a) /\ Runs(a, coreEvents, z) /\ ConverterFits(z)
    BY <1>2 DEF TurnsInv, InOrder
  <2>2. PICK b \in Boards : Fits(b)' /\ Runs(b, coreEvents', z)
    BY <1>1, <2>1, LoopFits
  <2>3. ConverterFits(z)'
    BY <1>1, <2>1, ConverterFitsStill
  <2> QED BY <2>1, <2>2, <2>3 DEF InOrder
<1> QED BY <1>1, <1>2 DEF TurnsInv, Ordered

LEMMA StutterKeepsTurns == ASSUME TurnsInv, UNCHANGED vars PROVE TurnsInv'
<1>1. UNCHANGED <<source, upstream, messages, converterVars, answer, regular, stray, coreEvents>>
  BY DEF vars, streamVars
<1>2. UNCHANGED <<contentText, toolCallArgs, outputIndexes, reasonIndexes, toolCallFinalized,
                  output, sent>>
  BY DEF vars, streamVars
<1>3. ASSUME Ordered PROVE InOrder'
  <2>1. PICK a \in Boards, z \in Boards : Fits(a) /\ Runs(a, coreEvents, z) /\ ConverterFits(z)
    BY <1>3 DEF TurnsInv, InOrder
  <2>2. Fits(a)'
    BY <1>2, <2>1, QuietFits
  <2>3. ConverterFits(z)'
    BY <1>1, <2>1, ConverterFitsStill
  <2> QED BY <1>1, <2>1, <2>2, <2>3 DEF InOrder
<1> QED BY <1>1, <1>3 DEF TurnsInv, Ordered

LEMMA TidyIsClosedOnce == TurnsInv => ClosedOnce
<1> SUFFICES ASSUME TurnsInv, Ordered, NEW i \in DOMAIN sent, Closes(sent[i])
             PROVE  /\ \A j \in i + 1 .. Len(sent) : sent[j].item # sent[i].item
                    /\ sent[i].event = "itemDone" => DeltasOf(sent, sent[i].item) \in {<<>>, sent[i].text}
  BY DEF ClosedOnce, Ordered
<1>1. Tidy(sent, Len(output))
  BY DEF TurnsInv, InOrder, Fits
<1>2. i \in 1 .. Len(sent)
  BY <1>1, LenProperties DEF Tidy, IsSeq
<1> QED BY <1>1, <1>2 DEF Tidy

\* streamLoop closes every item once, with the text of all its deltas, and says
\* nothing of it afterwards, for an answer of any length in any of the
\* protocols or replayed, of providers that keep to the orders the converters
\* expect, as long as no server's tool has arguments: the events that
\* ToCoreStream and the replays write for a block come in the order of its life,
\* and streamLoop (openai/adapter.go) keeps of each index no more and no less
\* than what the block has come to.
THEOREM ItemsClosedOnce == Spec => []ClosedOnce
<1>1. Inv => ConverterTypes /\ LoopInv
  BY DEF Inv
<1>2. ASSUME Inv, Inv', CallsInv, TurnsInv, [Next]_vars
      PROVE  CallsInv' /\ TurnsInv'
  <2>1. CASE Converter
    BY <1>1, <1>2, <2>1, ConverterKeepsCalls, ConverterKeepsTurns
  <2>2. CASE LoopStep
    <3>1. LoopInv /\ LoopInv'
      BY <1>2 DEF Inv
    <3> QED BY <1>2, <2>2, <3>1, LoopStepKeepsCalls, LoopStepKeepsTurns
  <2>3. CASE UNCHANGED vars
    BY <1>2, <2>3, StutterKeepsCalls, StutterKeepsTurns
  <2> QED BY <1>2, <2>1, <2>2, <2>3 DEF Next
<1> QED BY InvAlways, CallsInit, TurnsInit, <1>2, TidyIsClosedOnce, PTL DEF Spec

-----------------------------------------------------------------------------
(***************************************************************************)
(* The state that the one GeminiProviderAdapter keeps of the request it is *)
(* converting, for every set of conversations, blocks and prefixes: what   *)
(* one request at a time is enough for.                                    *)
(***************************************************************************)

Places == UnderWay \cup {"idle", "waiting", "panicked"}

\* The shared fields belong to the one request that is under way.
OneRequest ==
  /\ toolUseIDMu = Free
  /\ \A c, d \in Conversations : pc[c] \in UnderWay /\ pc[d] \in UnderWay => c = d
  /\ \A c \in Conversations : pc[c] # "panicked"
  /\ \A c \in Conversations : pc[c] \in {"convert", "clean"} => toolUseIDMap # NoMap

\* What is in the registry the provider has said to be cached.
Caching ==
  /\ registry \subseteq cachedFor
  /\ ~caching => currentCacheKey = NoKey
  /\ \A c \in Conversations :
       pc[c] \in {"clean", "sent"} =>
         /\ complete[c] \/ Prefix[c] \in cachedFor
         /\ caching => currentCacheKey = Prefix[c]

GeminiInv ==
  /\ pc \in [Conversations -> Places]
  /\ complete \in [Conversations -> BOOLEAN]
  /\ \A c \in Conversations : at[c] \in Nat \ {0}
  /\ DOMAIN at = Conversations
  /\ toolUseIDMap = NoMap \/ \E ids \in SUBSET Ids : toolUseIDMap \in [ids -> STRING]
  /\ ~overlapped => OneRequest /\ Caching

-----------------------------------------------------------------------------
\* The block that is converted is one of the conversation's.
LEMMA BlockConverted ==
  ASSUME GeminiInv, NEW c \in Conversations, NEW kind \in PartKinds, Converting(c, kind)
  PROVE  /\ Blocks[c][at[c]].id \in Ids
         /\ Blocks[c][at[c]].id \in STRING /\ Blocks[c][at[c]].name \in STRING
<1> DEFINE Block == [kind : PartKinds, id : STRING, name : STRING]
<1>1. Blocks[c] \in Seq(Block)
  BY BlocksAssumption
<1>2. at[c] \in 1 .. Len(Blocks[c]) /\ at[c] \in DOMAIN Blocks[c]
  BY <1>1 DEF GeminiInv, Converting
<1>3. Blocks[c][at[c]] \in Block
  <2> HIDE DEF Block
  <2> QED BY <1>1, <1>2, ElementOfSeq
<1> QED BY <1>2, <1>3 DEF Ids

LEMMA GeminiAtFirst == AdapterInit => GeminiInv
BY DEF AdapterInit, GeminiInv, OneRequest, Caching, Places, UnderWay

LEMMA ArriveKeeps == ASSUME GeminiInv, NEW c \in Conversations, Arrive(c) PROVE GeminiInv'
BY DEF GeminiInv, Arrive, Go, shared, OneRequest, Caching, Places, UnderWay

LEMMA StartKeeps == ASSUME GeminiInv, NEW c \in Conversations, Start(c) PROVE GeminiInv'
<1>1. toolUseIDMap' \in [{} -> STRING] /\ {} \in SUBSET Ids
  BY DEF Start
<1>2. toolUseIDMap' # NoMap
  BY <1>1, NoMapAssumption
<1>3. /\ pc' = [pc EXCEPT ![c] = "convert"] /\ complete' = [complete EXCEPT ![c] = TRUE]
      /\ at' = [at EXCEPT ![c] = 1]
      /\ UNCHANGED <<caching, toolUseIDMu, currentCacheKey, registry, cachedFor>>
  BY DEF Start, Go
<1>4. ~overlapped' => ~overlapped /\ \A d \in Conversations : pc[d] \notin UnderWay
  BY DEF Start
<1>5. ~overlapped' => OneRequest'
  BY <1>2, <1>3, <1>4 DEF GeminiInv, OneRequest, Places, UnderWay
<1>6. ~overlapped' => Caching'
  BY <1>3, <1>4 DEF GeminiInv, Caching, UnderWay
<1>7. /\ pc' \in [Conversations -> Places] /\ complete' \in [Conversations -> BOOLEAN]
      /\ DOMAIN at' = Conversations /\ \A d \in Conversations : at'[d] \in Nat \ {0}
  BY <1>3 DEF GeminiInv, Places, UnderWay
<1>8. \E ids \in SUBSET Ids : toolUseIDMap' \in [ids -> STRING]
  BY <1>1, Zenon
<1> QED BY <1>5, <1>6, <1>7, <1>8 DEF GeminiInv

LEMMA BlockKeeps ==
  ASSUME GeminiInv, NEW c \in Conversations,
         ConvertText(c) \/ ConvertToolUse(c) \/ PanicAtToolUse(c) \/ ConvertToolResult(c)
  PROVE  GeminiInv'
<1>1. CASE ConvertText(c) \/ ConvertToolResult(c)
  BY <1>1 DEF GeminiInv, ConvertText, ConvertToolResult, ToNextBlock, shared, OneRequest, Caching
<1>2. CASE ConvertToolUse(c)
  <2> DEFINE b == Blocks[c][at[c]]
  <2>1. b.id \in Ids /\ b.id \in STRING /\ b.name \in STRING
    BY <1>2, BlockConverted DEF ConvertToolUse, PartKinds
  <2>2. PICK ids \in SUBSET Ids : toolUseIDMap \in [ids -> STRING]
    BY <1>2 DEF GeminiInv, ConvertToolUse
  <2> DEFINE more == ids \cup {b.id}
  <2>3. toolUseIDMap' = [id \in more |-> IF id = b.id THEN b.name ELSE toolUseIDMap[id]]
    BY <1>2, <2>2 DEF ConvertToolUse
  <2>4. more \in SUBSET Ids /\ toolUseIDMap' \in [more -> STRING]
    BY <2>1, <2>2, <2>3
  <2>5. toolUseIDMap' # NoMap
    BY <2>4, NoMapAssumption
  <2>6. /\ UNCHANGED <<caching, toolUseIDMu, currentCacheKey, registry, pc, complete, overlapped,
                       cachedFor>>
        /\ at' = [at EXCEPT ![c] = @ + 1]
    BY <1>2 DEF ConvertToolUse, ToNextBlock
  <2>7. ~overlapped' => OneRequest' /\ Caching'
    BY <2>5, <2>6 DEF GeminiInv, OneRequest, Caching
  <2> QED BY <2>4, <2>6, <2>7 DEF GeminiInv
<1>3. CASE PanicAtToolUse(c)
  <2>1. overlapped
    BY <1>3 DEF PanicAtToolUse, Converting, GeminiInv, OneRequest
  <2> QED BY <1>3, <2>1 DEF PanicAtToolUse, Go, GeminiInv, Places
<1> QED BY <1>1, <1>2, <1>3

LEMMA PrepareKeeps == ASSUME GeminiInv, NEW c \in Conversations, PrepareCache(c) PROVE GeminiInv'
<1>1. /\ pc[c] = "convert" /\ pc' = [pc EXCEPT ![c] = "clean"]
      /\ complete' = [complete EXCEPT ![c] = ~(caching /\ Prefix[c] \in registry)]
      /\ currentCacheKey' = IF caching THEN Prefix[c] ELSE currentCacheKey
      /\ UNCHANGED <<caching, toolUseIDMap, toolUseIDMu, registry, at, overlapped, cachedFor>>
  BY DEF PrepareCache, Go
<1>2. ~overlapped => OneRequest'
  BY <1>1 DEF GeminiInv, OneRequest, UnderWay, Places
<1>3. ~overlapped => Caching'
  <2> SUFFICES ASSUME ~overlapped PROVE Caching'
    OBVIOUS
  <2>1. \A d \in Conversations : d # c => pc[d] \notin UnderWay
    BY <1>1 DEF GeminiInv, OneRequest, UnderWay
  <2>2. complete'[c] \/ Prefix[c] \in cachedFor
    BY <1>1 DEF GeminiInv, Caching
  <2> QED BY <1>1, <2>1, <2>2 DEF GeminiInv, Caching, UnderWay
<1> QED BY <1>1, <1>2, <1>3 DEF GeminiInv, Places, UnderWay

LEMMA CleanUpKeeps == ASSUME GeminiInv, NEW c \in Conversations, CleanUp(c) PROVE GeminiInv'
<1>1. /\ pc[c] = "clean" /\ pc' = [pc EXCEPT ![c] = "sent"] /\ toolUseIDMap' = NoMap
      /\ UNCHANGED <<caching, toolUseIDMu, currentCacheKey, registry, at, complete, overlapped,
                     cachedFor>>
  BY DEF CleanUp, Go
<1>2. ~overlapped => OneRequest'
  BY <1>1 DEF GeminiInv, OneRequest, UnderWay, Places
<1>3. ~overlapped => Caching'
  BY <1>1 DEF GeminiInv, Caching
<1> QED BY <1>1, <1>2, <1>3 DEF GeminiInv, Places, UnderWay

LEMMA FinishKeeps == ASSUME GeminiInv, NEW c \in Conversations, Finish(c) PROVE GeminiInv'
<1>1. /\ pc[c] = "sent" /\ pc' = [pc EXCEPT ![c] = "idle"]
      /\ UNCHANGED <<caching, toolUseIDMap, toolUseIDMu, at, complete, overlapped>>
  BY DEF Finish, EndUnseen, Answer, Go, shared
<1>2. ~overlapped => OneRequest'
  BY <1>1 DEF GeminiInv, OneRequest, UnderWay, Places
<1>3. ~overlapped => Caching'
  <2> SUFFICES ASSUME ~overlapped PROVE Caching'
    OBVIOUS
  <2>1. \A d \in Conversations : pc'[d] \notin {"clean", "sent"}
    BY <1>1 DEF GeminiInv, OneRequest, UnderWay, Places
  <2>2. CASE EndUnseen(c)
    BY <1>1, <2>1, <2>2 DEF EndUnseen, shared, GeminiInv, Caching
  <2>3. ASSUME NEW cached \in BOOLEAN, Answer(c, cached) PROVE Caching'
    <3>1. /\ registry' = IF cached /\ currentCacheKey # NoKey
                         THEN registry \cup {currentCacheKey} ELSE registry
          /\ currentCacheKey' = NoKey
          /\ cachedFor' = IF cached THEN cachedFor \cup {Prefix[c]} ELSE cachedFor
      BY <2>3 DEF Answer
    <3>2. currentCacheKey # NoKey => currentCacheKey = Prefix[c]
      BY <1>1 DEF GeminiInv, Caching
    <3>3. registry' \subseteq cachedFor'
      BY <3>1, <3>2 DEF GeminiInv, Caching
    <3> QED BY <1>1, <2>1, <3>1, <3>3 DEF Caching
  <2> QED BY <2>2, <2>3 DEF Finish
<1> QED BY <1>1, <1>2, <1>3 DEF GeminiInv, Places

LEMMA ExpireKeeps == ASSUME GeminiInv, NEW k \in Keys, Expire(k) PROVE GeminiInv'
BY DEF GeminiInv, Expire, OneRequest, Caching

LEMMA GeminiStep == GeminiInv /\ [AdapterNext]_adapterVars => GeminiInv'
<1> SUFFICES ASSUME GeminiInv, [AdapterNext]_adapterVars PROVE GeminiInv'
  OBVIOUS
<1>1. CASE UNCHANGED adapterVars
  BY <1>1 DEF adapterVars, shared, GeminiInv, OneRequest, Caching
<1> QED
  BY <1>1, ArriveKeeps, StartKeeps, BlockKeeps, PrepareKeeps, CleanUpKeeps, FinishKeeps, ExpireKeeps
     DEF AdapterNext, Convert

\* As long as the adapter has one request at a time, no request panics and the mutex is
\* free whenever somebody wants it.
THEOREM NobodyPanics ==
  AdapterSpec =>
            [](~overlapped => toolUseIDMu = Free /\ \A c \in Conversations : pc[c] # "panicked")
<1>1. GeminiInv => (~overlapped => toolUseIDMu = Free /\ \A c \in Conversations : pc[c] # "panicked")
  BY DEF GeminiInv, OneRequest
<1>2. GeminiInv /\ [AdapterNext]_adapterVars => GeminiInv'
  BY GeminiStep
<1> QED BY <1>1, <1>2, GeminiAtFirst, PTL DEF AdapterSpec

-----------------------------------------------------------------------------
(* The fields have their types, whether requests overlap or not.           *)

FieldsInv ==
  /\ FieldsOK
  /\ names \in [Conversations -> Seq(STRING)]
  /\ DOMAIN at = Conversations /\ DOMAIN requests = Conversations

LEMMA BlocksTyped ==
  ASSUME NEW c \in Conversations
  PROVE  /\ Len(Blocks[c]) \in Nat
         /\ \A k \in 1 .. Len(Blocks[c]) : /\ Blocks[c][k].kind \in PartKinds
                                         /\ Blocks[c][k].id \in STRING /\ Blocks[c][k].id \in Ids
                                         /\ Blocks[c][k].name \in STRING
<1> DEFINE Block == [kind : PartKinds, id : STRING, name : STRING]
<1>1. Blocks[c] \in Seq(Block)
  BY BlocksAssumption
<1>2. Len(Blocks[c]) \in Nat
  BY <1>1
<1>3. ASSUME NEW k \in 1 .. Len(Blocks[c]) PROVE Blocks[c][k] \in Block /\ k \in DOMAIN Blocks[c]
  <2> HIDE DEF Block
  <2> QED BY <1>1, <1>3, ElementOfSeq
<1> QED BY <1>2, <1>3 DEF Ids

LEMMA FieldsAtFirst == AdapterInit => FieldsInv
<1> SUFFICES ASSUME AdapterInit PROVE FieldsInv
  OBVIOUS
<1>1. \A c \in Conversations : at[c] \in 1 .. Len(Blocks[c]) + 1 /\ requests[c] \in 0 .. MaxRequests
  BY BlocksTyped, RequestsAssumption DEF AdapterInit
<1>2. names \in [Conversations -> Seq(STRING)]
  BY DEF AdapterInit
<1> QED BY <1>1, <1>2 DEF AdapterInit, FieldsInv, FieldsOK, UnderWay

LEMMA FieldsStep == GeminiInv /\ FieldsInv /\ [AdapterNext]_adapterVars => FieldsInv'
<1> SUFFICES ASSUME GeminiInv, FieldsInv, [AdapterNext]_adapterVars PROVE FieldsInv'
  OBVIOUS
<1> USE DEF FieldsInv, FieldsOK, UnderWay
<1>1. ASSUME NEW c \in Conversations, Arrive(c) PROVE FieldsInv'
  BY <1>1, RequestsAssumption DEF Arrive, Go, shared
<1>2. ASSUME NEW c \in Conversations, Start(c) PROVE FieldsInv'
  BY <1>2, BlocksTyped DEF Start, Go
<1>3. ASSUME NEW c \in Conversations, ConvertText(c) PROVE FieldsInv'
  BY <1>3, BlocksTyped DEF ConvertText, Converting, ToNextBlock, shared
<1>4. ASSUME NEW c \in Conversations, ConvertToolUse(c) PROVE FieldsInv'
  <2>1. Blocks[c][at[c]].id \in Ids
    BY <1>4, BlocksTyped DEF ConvertToolUse, Converting
  <2>2. DOMAIN toolUseIDMap' \subseteq Ids
    BY <1>4, <2>1 DEF ConvertToolUse
  <2> QED BY <1>4, <2>2, BlocksTyped DEF ConvertToolUse, Converting, ToNextBlock
<1>5. ASSUME NEW c \in Conversations, PanicAtToolUse(c) PROVE FieldsInv'
  BY <1>5 DEF PanicAtToolUse, Go
<1>6. ASSUME NEW c \in Conversations, ConvertToolResult(c) PROVE FieldsInv'
  <2>1. Blocks[c][at[c]].id \in STRING
    BY <1>6, BlocksTyped DEF ConvertToolResult, Converting
  <2>2. NameFor(Blocks[c][at[c]].id) \in STRING
    BY <2>1 DEF NameFor, GeminiInv
  <2>3. names' \in [Conversations -> Seq(STRING)]
    BY <1>6, <2>2 DEF ConvertToolResult
  <2> QED BY <1>6, <2>3, BlocksTyped DEF ConvertToolResult, Converting, ToNextBlock, shared
<1>7. ASSUME NEW c \in Conversations, PrepareCache(c) PROVE FieldsInv'
  BY <1>7 DEF PrepareCache, Go, Keys
<1>8. ASSUME NEW c \in Conversations, CleanUp(c) PROVE FieldsInv'
  BY <1>8 DEF CleanUp, Go
<1>9. ASSUME NEW c \in Conversations, EndUnseen(c) PROVE FieldsInv'
  BY <1>9 DEF EndUnseen, Go, shared
<1>10. ASSUME NEW c \in Conversations, NEW cached \in BOOLEAN, Answer(c, cached) PROVE FieldsInv'
  BY <1>10 DEF Answer, Go, Keys
<1>11. ASSUME NEW k \in Keys, Expire(k) PROVE FieldsInv'
  BY <1>11 DEF Expire
<1>12. CASE UNCHANGED adapterVars
  BY <1>12 DEF adapterVars, shared
<1> QED
  BY <1>1, <1>2, <1>3, <1>4, <1>5, <1>6, <1>7, <1>8, <1>9, <1>10, <1>11, <1>12
     DEF AdapterNext, Convert, Finish

-----------------------------------------------------------------------------
(* What is recorded of the calls, block by block.                          *)

\* The positions of a kind, or of an id, among one block more.
LEMMA OneMore ==
  ASSUME NEW c \in Conversations, NEW kind, NEW n \in Nat
  PROVE  /\ n + 1 \notin OfKind(c, kind, n)
         /\ Blocks[c][n + 1].kind = kind => OfKind(c, kind, n + 1) = OfKind(c, kind, n) \cup {n + 1}
         /\ Blocks[c][n + 1].kind # kind => OfKind(c, kind, n + 1) = OfKind(c, kind, n)
BY DEF OfKind

LEMMA KindsCounted ==
  ASSUME NEW c \in Conversations, NEW kind, NEW n \in Nat
  PROVE  /\ IsFiniteSet(OfKind(c, kind, n)) /\ Cardinality(OfKind(c, kind, n)) \in Nat
         /\ Blocks[c][n + 1].kind = kind =>
              Cardinality(OfKind(c, kind, n + 1)) = Cardinality(OfKind(c, kind, n)) + 1
<1>1. OfKind(c, kind, n) \subseteq 1 .. n /\ IsFiniteSet(1 .. n)
  BY FS_Interval DEF OfKind
<1>2. IsFiniteSet(OfKind(c, kind, n))
  BY <1>1, FS_Subset
<1>3. Cardinality(OfKind(c, kind, n)) \in Nat
  BY <1>2, FS_CardinalityType
<1>4. Cardinality(OfKind(c, kind, n) \cup {n + 1}) = Cardinality(OfKind(c, kind, n)) + 1
  BY <1>2, OneMore, FS_AddElement
<1> QED BY <1>2, <1>3, <1>4, OneMore

\* The last of the positions up to n + 1, when it is among them.
LEMMA LastIsNew ==
  ASSUME NEW n \in Nat, NEW S, n + 1 \in S, S \subseteq 1 .. n + 1
  PROVE  LastOf(S) = n + 1
<1>1. \E k \in S : \A j \in S : j <= k
  OBVIOUS
<1>2. LastOf(S) \in S /\ \A j \in S : j <= LastOf(S)
  BY <1>1 DEF LastOf
<1>3. LastOf(S) \in 1 .. n + 1 /\ n + 1 <= LastOf(S)
  BY <1>2
<1> HIDE DEF LastOf
<1> QED BY <1>3

\* A call is recorded under its id and leaves the other ids alone.
LEMMA CallRecorded ==
  ASSUME NEW c \in Conversations, NEW n \in Nat, Blocks[c][n + 1].kind = "tool_use"
  PROVE  LET b == Blocks[c][n + 1]
             before == RecordedUpTo(c, n)
         IN  RecordedUpTo(c, n + 1) =
               [id \in DOMAIN before \cup {b.id} |-> IF id = b.id THEN b.name ELSE before[id]]
<1> DEFINE b == Blocks[c][n + 1]
           before == RecordedUpTo(c, n)
           ids(m) == {Blocks[c][k].id : k \in OfKind(c, "tool_use", m)}
<1>1. OfKind(c, "tool_use", n + 1) = OfKind(c, "tool_use", n) \cup {n + 1}
  BY OneMore
<1>2. ids(n + 1) = ids(n) \cup {b.id}
  BY <1>1
<1>3. LastOf(CallsOfId(c, b.id, n + 1)) = n + 1
  <2>1. n + 1 \in CallsOfId(c, b.id, n + 1) /\ CallsOfId(c, b.id, n + 1) \subseteq 1 .. n + 1
    BY DEF CallsOfId, OfKind
  <2> QED BY <2>1, LastIsNew
<1>4. \A id : id # b.id => CallsOfId(c, id, n + 1) = CallsOfId(c, id, n)
  BY <1>1 DEF CallsOfId
<1>5. before = [id \in ids(n) |-> Blocks[c][LastOf(CallsOfId(c, id, n))].name]
  BY DEF RecordedUpTo
<1>6. RecordedUpTo(c, n + 1) = [id \in ids(n + 1) |-> Blocks[c][LastOf(CallsOfId(c, id, n + 1))].name]
  BY DEF RecordedUpTo
<1>7. DOMAIN before = ids(n) /\ \A id \in ids(n) : before[id] = Blocks[c][LastOf(CallsOfId(c, id, n))].name
  BY <1>5
<1> HIDE DEF before, ids
<1>8. RecordedUpTo(c, n + 1) = [id \in DOMAIN before \cup {b.id} |-> IF id = b.id THEN b.name ELSE before[id]]
  BY <1>2, <1>3, <1>4, <1>6, <1>7
<1> QED BY <1>8 DEF before

\* Another block changes nothing of what is recorded.
LEMMA NothingRecorded ==
  ASSUME NEW c \in Conversations, NEW n \in Nat, Blocks[c][n + 1].kind # "tool_use"
  PROVE  /\ RecordedUpTo(c, n + 1) = RecordedUpTo(c, n)
         /\ \A id : CallsOfId(c, id, n + 1) = CallsOfId(c, id, n)
<1>1. OfKind(c, "tool_use", n + 1) = OfKind(c, "tool_use", n)
  BY OneMore
<1>2. \A id : CallsOfId(c, id, n + 1) = CallsOfId(c, id, n)
  BY <1>1 DEF CallsOfId
<1> QED BY <1>1, <1>2 DEF RecordedUpTo

LEMMA NothingAtFirst ==
  ASSUME NEW c \in Conversations
  PROVE  RecordedUpTo(c, 0) = <<>> /\ \A kind : OfKind(c, kind, 0) = {} /\ Cardinality({}) = 0
<1>1. \A kind : OfKind(c, kind, 0) = {}
  BY DEF OfKind
<1> QED BY <1>1, FS_EmptySet DEF RecordedUpTo

\* The name for a result is what the map has for it, if the map is the record.
LEMMA NameRecorded ==
  ASSUME NEW c \in Conversations, NEW n \in Nat, Blocks[c][n + 1].kind # "tool_use",
         toolUseIDMap # NoMap, toolUseIDMap = RecordedUpTo(c, n)
  PROVE  NameFor(Blocks[c][n + 1].id) = NameAt(c, n + 1)
<1> DEFINE id == Blocks[c][n + 1].id
<1>1. CallsOfId(c, id, n + 1) = CallsOfId(c, id, n)
  BY NothingRecorded
<1>2. id \in DOMAIN toolUseIDMap <=> CallsOfId(c, id, n) # {}
  BY DEF RecordedUpTo, CallsOfId
<1>3. id \in DOMAIN toolUseIDMap => toolUseIDMap[id] = Blocks[c][LastOf(CallsOfId(c, id, n))].name
  BY DEF RecordedUpTo
<1> QED BY <1>1, <1>2, <1>3 DEF NameFor, NameAt

\* The names of the results so far, when there is one block more.
LEMMA NotNamed ==
  ASSUME NEW c \in Conversations, NEW n \in Nat, Blocks[c][n + 1].kind # "tool_result",
         NamedUpTo(c, n)
  PROVE  NamedUpTo(c, n + 1)
<1>1. OfKind(c, "tool_result", n + 1) = OfKind(c, "tool_result", n)
  BY OneMore
<1> QED BY <1>1 DEF NamedUpTo

LEMMA Named ==
  ASSUME NEW c \in Conversations, NEW n \in Nat, Blocks[c][n + 1].kind = "tool_result",
         NamedUpTo(c, n), names[c] \in Seq(STRING), NEW name \in STRING,
         names'[c] = Append(names[c], name), name = NameAt(c, n + 1)
  PROVE  NamedUpTo(c, n + 1)'
<1> DEFINE count(k) == Cardinality(OfKind(c, "tool_result", k))
<1>0. OfKind(c, "tool_result", n + 1) = OfKind(c, "tool_result", n) \cup {n + 1}
  BY OneMore
<1>1. count(n) \in Nat /\ count(n + 1) = count(n) + 1
  BY KindsCounted
<1>2. Len(names[c]) = count(n) /\ \A k \in OfKind(c, "tool_result", n) : names[c][count(k)] = NameAt(c, k)
  BY DEF NamedUpTo
<1>3. \A k \in OfKind(c, "tool_result", n) : count(k) \in 1 .. count(n)
  <2> SUFFICES ASSUME NEW k \in OfKind(c, "tool_result", n) PROVE count(k) \in 1 .. count(n)
    OBVIOUS
  <2>1. k \in 1 .. n /\ k \in Nat /\ k - 1 \in Nat /\ (k - 1) + 1 = k /\ Blocks[c][k].kind = "tool_result"
    BY DEF OfKind
  <2>2. count(k - 1) \in Nat /\ count(k) = count(k - 1) + 1
    <3>1. PICK l \in Nat : l = k - 1
      BY <2>1
    <3>2. l + 1 = k /\ Blocks[c][l + 1].kind = "tool_result"
      BY <2>1, <3>1
    <3>3. /\ Cardinality(OfKind(c, "tool_result", l)) \in Nat
          /\ Cardinality(OfKind(c, "tool_result", l + 1)) = Cardinality(OfKind(c, "tool_result", l)) + 1
      BY <3>2, KindsCounted
    <3> QED BY <3>1, <3>2, <3>3
  <2>3. OfKind(c, "tool_result", k) \subseteq OfKind(c, "tool_result", n)
    BY <2>1 DEF OfKind
  <2>4. count(k) <= count(n)
    BY <2>3, KindsCounted, FS_Subset
  <2> QED BY <1>1, <2>2, <2>4
<1>4. Len(names'[c]) = count(n + 1) /\ names'[c][count(n + 1)] = NameAt(c, n + 1)
  BY <1>1, <1>2
<1>5. \A k \in OfKind(c, "tool_result", n) : names'[c][count(k)] = NameAt(c, k)
  BY <1>2, <1>3
<1>6. \A k \in OfKind(c, "tool_result", n + 1) : names'[c][count(k)] = NameAt(c, k)
  BY <1>0, <1>4, <1>5
<1> QED BY <1>4, <1>6 DEF NamedUpTo

-----------------------------------------------------------------------------
(* While one request is under way the map is that of its calls so far, and *)
(* its results have the names of their calls.                              *)

NamesInv ==
  ~overlapped =>
    \A c \in Conversations :
      /\ pc[c] = "convert" => /\ toolUseIDMap = RecordedUpTo(c, at[c] - 1)
                              /\ NamedUpTo(c, at[c] - 1)
      /\ pc[c] \in {"clean", "sent"} => NamedUpTo(c, Len(Blocks[c]))

LEMMA NamesAtFirst == AdapterInit => NamesInv
BY DEF AdapterInit, NamesInv

\* What a step leaves of the names that one conversation has.
LEMMA NamesKept ==
  ASSUME NEW c, NEW n, names'[c] = names[c], NamedUpTo(c, n)
  PROVE  NamedUpTo(c, n)'
BY DEF NamedUpTo, NameAt

\* A step of one request that is under way concerns no other: there is none.
LEMMA OnlyOne ==
  ASSUME GeminiInv, ~overlapped, NEW c \in Conversations, pc[c] \in UnderWay
  PROVE  /\ \A d \in Conversations \ {c} : pc[d] \notin UnderWay
         /\ toolUseIDMu = Free
         /\ pc[c] \in {"convert", "clean"} => toolUseIDMap # NoMap
BY DEF GeminiInv, OneRequest

LEMMA StartNames ==
  ASSUME GeminiInv, FieldsInv, NamesInv, NEW c \in Conversations, Start(c) PROVE NamesInv'
<1> SUFFICES ASSUME ~overlapped' PROVE NamesInv'
  BY DEF NamesInv
<1>1. \A d \in Conversations : pc[d] \notin UnderWay
  BY DEF Start
<1>2. /\ pc' = [pc EXCEPT ![c] = "convert"] /\ at' = [at EXCEPT ![c] = 1]
      /\ names' = [names EXCEPT ![c] = <<>>] /\ toolUseIDMap' = <<>>
  BY DEF Start, Go
<1>3. /\ pc'[c] = "convert" /\ at'[c] = 1 /\ names'[c] = <<>>
      /\ \A d \in Conversations : d # c => pc'[d] \notin {"convert", "clean", "sent"}
  BY <1>1, <1>2 DEF FieldsInv, FieldsOK, UnderWay
<1>4. RecordedUpTo(c, 0) = <<>> /\ NamedUpTo(c, 0)'
  BY <1>3, NothingAtFirst DEF NamedUpTo
<1>5. RecordedUpTo(c, at'[c] - 1) = <<>> /\ NamedUpTo(c, at[c] - 1)'
  BY <1>3, <1>4
<1> QED BY <1>2, <1>3, <1>5 DEF NamesInv

LEMMA BlockNames ==
  ASSUME GeminiInv, FieldsInv, NamesInv, NEW c \in Conversations,
         ConvertText(c) \/ ConvertToolUse(c) \/ ConvertToolResult(c)
  PROVE  NamesInv'
<1> SUFFICES ASSUME ~overlapped PROVE NamesInv'
  BY DEF NamesInv, ConvertText, ConvertToolUse, ConvertToolResult
<1>1. pc[c] = "convert" /\ pc' = pc /\ at' = [at EXCEPT ![c] = @ + 1] /\ overlapped' = overlapped
  BY DEF ConvertText, ConvertToolUse, ConvertToolResult, Converting, ToNextBlock
<1>0. at[c] \in Nat \ {0}
  BY DEF GeminiInv
<1> PICK n \in Nat : n = at[c] - 1
  BY <1>0
<1>2. /\ n \in Nat /\ n + 1 = at[c] /\ at'[c] - 1 = n + 1
      /\ Blocks[c][n + 1].kind \in PartKinds
      /\ \A d \in Conversations : d # c => pc'[d] \notin UnderWay
      /\ toolUseIDMap # NoMap
  <2>1. at[c] \in 1 .. Len(Blocks[c])
    BY BlocksTyped DEF FieldsInv, FieldsOK, ConvertText, ConvertToolUse, ConvertToolResult, Converting
  <2>2. Len(Blocks[c]) \in Nat /\ Blocks[c][at[c]].kind \in PartKinds
    BY <2>1, BlocksTyped
  <2>3. \A d \in Conversations \ {c} : pc[d] \notin UnderWay
    BY <1>1, OnlyOne DEF UnderWay
  <2>4. toolUseIDMap # NoMap
    BY <1>1, OnlyOne DEF UnderWay
  <2> QED BY <1>1, <2>1, <2>2, <2>3, <2>4 DEF FieldsInv
<1>3. toolUseIDMap = RecordedUpTo(c, n) /\ NamedUpTo(c, n)
  BY <1>1 DEF NamesInv
<1> SUFFICES toolUseIDMap' = RecordedUpTo(c, n + 1) /\ NamedUpTo(c, n + 1)'
  <2>1. \A d \in Conversations : d # c => pc'[d] \notin {"convert", "clean", "sent"}
    BY <1>2 DEF UnderWay
  <2>2. NamedUpTo(c, n + 1)' => NamedUpTo(c, at[c] - 1)'
    BY <1>2 DEF NamedUpTo
  <2> QED BY <1>1, <1>2, <2>1, <2>2 DEF NamesInv
<1>4. CASE ConvertText(c)
  <2>1. Blocks[c][n + 1].kind = "text" /\ names' = names /\ toolUseIDMap' = toolUseIDMap
    BY <1>2, <1>4 DEF ConvertText, Converting, shared
  <2>2. RecordedUpTo(c, n + 1) = RecordedUpTo(c, n)
    BY <1>2, <2>1, NothingRecorded
  <2>3. NamedUpTo(c, n + 1)
    BY <1>2, <1>3, <2>1, NotNamed
  <2>4. NamedUpTo(c, n + 1)'
    BY <2>1, <2>3, NamesKept
  <2> QED BY <1>3, <2>1, <2>2, <2>4
<1>5. CASE ConvertToolUse(c)
  <2> DEFINE b == Blocks[c][n + 1]
             before == RecordedUpTo(c, n)
  <2>1. /\ b.kind = "tool_use" /\ names' = names
        /\ toolUseIDMap' = [id \in DOMAIN toolUseIDMap \cup {b.id} |->
                              IF id = b.id THEN b.name ELSE toolUseIDMap[id]]
    BY <1>2, <1>5 DEF ConvertToolUse, Converting
  <2>2. RecordedUpTo(c, n + 1) = [id \in DOMAIN before \cup {b.id} |-> IF id = b.id THEN b.name ELSE before[id]]
    BY <1>2, <2>1, CallRecorded
  <2>3. NamedUpTo(c, n + 1)
    BY <1>2, <1>3, <2>1, NotNamed
  <2>4. NamedUpTo(c, n + 1)'
    BY <2>1, <2>3, NamesKept
  <2> QED BY <1>3, <2>1, <2>2, <2>4
<1>6. CASE ConvertToolResult(c)
  <2> DEFINE id == Blocks[c][n + 1].id
  <2>1. /\ Blocks[c][n + 1].kind = "tool_result" /\ toolUseIDMap' = toolUseIDMap
        /\ names' = [names EXCEPT ![c] = Append(@, NameFor(id))]
    BY <1>2, <1>6 DEF ConvertToolResult, Converting, shared
  <2>2. RecordedUpTo(c, n + 1) = RecordedUpTo(c, n)
    BY <1>2, <2>1, NothingRecorded
  <2>3. NameFor(id) = NameAt(c, n + 1)
    BY <1>2, <1>3, <2>1, NameRecorded
  <2>4. names[c] \in Seq(STRING) /\ names'[c] = Append(names[c], NameFor(id))
    BY <2>1 DEF FieldsInv
  <2>5. NameFor(id) \in STRING
    <3>1. at[c] \in 1 .. Len(Blocks[c])
      BY <1>6, BlocksTyped DEF FieldsInv, FieldsOK, ConvertToolResult, Converting
    <3>2. id \in STRING
      BY <1>2, <3>1, BlocksTyped
    <3> QED BY <3>2 DEF NameFor, GeminiInv
  <2> HIDE DEF id
  <2>6. NamedUpTo(c, n + 1)'
    BY <1>2, <1>3, <2>1, <2>3, <2>4, <2>5, Named
  <2> QED BY <1>3, <2>1, <2>2, <2>6
<1> QED BY <1>4, <1>5, <1>6

LEMMA PrepareNames ==
  ASSUME GeminiInv, FieldsInv, NamesInv, NEW c \in Conversations, PrepareCache(c) PROVE NamesInv'
<1> SUFFICES ASSUME ~overlapped PROVE NamesInv'
  BY DEF NamesInv, PrepareCache
<1>1. pc[c] = "convert" /\ pc' = [pc EXCEPT ![c] = "clean"] /\ names' = names /\ ~overlapped'
  BY DEF PrepareCache, Go
<1>2. at[c] - 1 = Len(Blocks[c])
  BY BlocksTyped DEF PrepareCache, FieldsInv, FieldsOK
<1>3. NamedUpTo(c, Len(Blocks[c]))
  BY <1>1, <1>2 DEF NamesInv
<1>4. NamedUpTo(c, Len(Blocks[c]))'
  BY <1>1, <1>3, NamesKept
<1>5. \A d \in Conversations : d # c => pc'[d] \notin {"convert", "clean", "sent"}
  BY <1>1, OnlyOne DEF UnderWay
<1>6. pc'[c] = "clean"
  BY <1>1 DEF FieldsInv, FieldsOK
<1> QED BY <1>4, <1>5, <1>6 DEF NamesInv

\* The other steps leave the blocks behind, the names and the calls as they are.
LEMMA OtherNames ==
  ASSUME GeminiInv, FieldsInv, NamesInv, names' = names, overlapped' = overlapped,
         \A c \in Conversations :
            /\ pc'[c] = "convert" => pc[c] = "convert" /\ toolUseIDMap' = toolUseIDMap /\ at'[c] = at[c]
            /\ pc'[c] \in {"clean", "sent"} => pc[c] \in {"clean", "sent"}
  PROVE  NamesInv'
<1> SUFFICES ASSUME ~overlapped, NEW c \in Conversations
             PROVE  /\ pc'[c] = "convert" => /\ toolUseIDMap' = RecordedUpTo(c, at'[c] - 1)
                                             /\ NamedUpTo(c, at[c] - 1)'
                    /\ pc'[c] \in {"clean", "sent"} => NamedUpTo(c, Len(Blocks[c]))'
  BY DEF NamesInv
<1>1. \A n : NamedUpTo(c, n) => NamedUpTo(c, n)'
  BY NamesKept
<1>2. ASSUME pc'[c] = "convert" PROVE toolUseIDMap' = RecordedUpTo(c, at'[c] - 1) /\ NamedUpTo(c, at[c] - 1)'
  <2>1. toolUseIDMap = RecordedUpTo(c, at[c] - 1) /\ NamedUpTo(c, at[c] - 1)
    BY <1>2 DEF NamesInv
  <2>2. NamedUpTo(c, at[c] - 1)'
    <3>1. \A n : NamedUpTo(c, n)' <=> /\ Len(names'[c]) = Cardinality(OfKind(c, "tool_result", n))
                                     /\ \A k \in OfKind(c, "tool_result", n) :
                                          names'[c][Cardinality(OfKind(c, "tool_result", k))] = NameAt(c, k)
      BY DEF NamedUpTo
    <3> QED BY <1>2, <2>1 DEF NamedUpTo
  <2> QED BY <1>2, <2>1, <2>2
<1>3. ASSUME pc'[c] \in {"clean", "sent"} PROVE NamedUpTo(c, Len(Blocks[c]))'
  BY <1>1, <1>3 DEF NamesInv
<1> QED BY <1>2, <1>3

LEMMA NamesStep == GeminiInv /\ FieldsInv /\ NamesInv /\ [AdapterNext]_adapterVars => NamesInv'
<1> SUFFICES ASSUME GeminiInv, FieldsInv, NamesInv, [AdapterNext]_adapterVars PROVE NamesInv'
  OBVIOUS
<1> USE DEF FieldsInv, FieldsOK
<1>1. ASSUME NEW c \in Conversations, Arrive(c) \/ EndUnseen(c) \/ \E cached \in BOOLEAN : Answer(c, cached)
      PROVE  NamesInv'
  BY <1>1, OtherNames DEF Arrive, EndUnseen, Answer, Go, shared
<1>2. ASSUME NEW c \in Conversations, CleanUp(c) PROVE NamesInv'
  <2>1. CASE overlapped
    BY <1>2, <2>1 DEF CleanUp, NamesInv
  <2>2. CASE ~overlapped
    <3>1. \A d \in Conversations \ {c} : pc[d] # "convert"
      BY <1>2, <2>2, OnlyOne DEF CleanUp, UnderWay
    <3> QED BY <1>2, <3>1, OtherNames DEF CleanUp, Go
  <2> QED BY <2>1, <2>2
<1>3. ASSUME NEW c \in Conversations, PanicAtToolUse(c) PROVE NamesInv'
  BY <1>3, OtherNames DEF PanicAtToolUse, Go
<1>4. ASSUME NEW k \in Keys, Expire(k) PROVE NamesInv'
  BY <1>4, OtherNames DEF Expire
<1>5. CASE UNCHANGED adapterVars
  BY <1>5, OtherNames DEF adapterVars, shared
<1> QED
  BY <1>1, <1>2, <1>3, <1>4, <1>5, StartNames, BlockNames, PrepareNames DEF AdapterNext, Convert, Finish

\* Of all that is sent: the fields have their types, and as long as the adapter has one
\* request at a time, each result goes out under the name of its own call, and no request
\* without its system and tools unless the provider has said that it has them.
THEOREM SentAsSaidAlways == AdapterSpec => []SentAsSaid
<1> DEFINE All == GeminiInv /\ FieldsInv /\ NamesInv
<1>1. AdapterInit => All
  BY GeminiAtFirst, FieldsAtFirst, NamesAtFirst
<1>2. All /\ [AdapterNext]_adapterVars => All'
  BY GeminiStep, FieldsStep, NamesStep
<1>3. All => SentAsSaid
  BY DEF GeminiInv, Caching, LeftOutIsCached, NamedAsCalled, FieldsInv, NamesInv, SentAsSaid
<1> QED BY <1>1, <1>2, <1>3, PTL DEF AdapterSpec

\* What the comment on toolUseIDMap says of it holds as long as the adapter has one request
\* at a time: while a request is converted the map has the calls of that request so far.
THEOREM StateIsPerRequest == AdapterSpec => [](~overlapped => PerRequestState)
<1> DEFINE All == GeminiInv /\ FieldsInv /\ NamesInv
<1>1. AdapterInit => All
  BY GeminiAtFirst, FieldsAtFirst, NamesAtFirst
<1>2. All /\ [AdapterNext]_adapterVars => All'
  BY GeminiStep, FieldsStep, NamesStep
<1>3. All => (~overlapped => PerRequestState)
  BY DEF NamesInv, PerRequestState
<1> QED BY <1>1, <1>2, <1>3, PTL DEF AdapterSpec
=============================================================================
