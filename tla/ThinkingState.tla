---------------------------- MODULE ThinkingState ----------------------------
(***************************************************************************)
(* The cache of reasoning ("thinking") blocks that the deepseek_v4         *)
(* extension keeps in every session (internal/extension/deepseek_v4/       *)
(* state.go), as a value and the operations its mutex makes atomic.        *)
(*                                                                         *)
(* The state is two maps, one keyed by tool-call id and one by (a hash of) *)
(* the assistant's text, each with the order in which keys were first      *)
(* remembered.  A block is a member of Blocks; NoPayload stands for every  *)
(* block that hasThinkingPayload rejects.                                  *)
(***************************************************************************)
EXTENDS Integers, SequencesExt

CONSTANTS
    Limit,      \* state.limit, 1024 in NewState
    NoPayload,  \* a block with neither text nor signature
    NoKey       \* the empty tool-call id and the empty text

ASSUME LimitAssumption == Limit \in Nat

\* NewState
EmptyState ==
    [ records     |-> [k \in {} |-> NoPayload], order     |-> <<>>,
      textRecords |-> [k \in {} |-> NoPayload], textOrder |-> <<>> ]

\* Mutated form of Newest: one key too few stays.
NewestTooFew(order) == SubSeq(order, Max({1, Len(order) - Limit + 2}), Len(order))

\* The last Limit keys of an order: what pruneLocked's loop leaves of it.
Newest(order) == SubSeq(order, Max({1, Len(order) - Limit + 1}), Len(order))

\* pruneLocked: the keys that were remembered first go, with their blocks.
Pruned(state) ==
    LET order == Newest(state.order)
        textOrder == Newest(state.textOrder)
    IN  [ records     |-> [k \in Range(order) |-> state.records[k]],
          order       |-> order,
          textRecords |-> [k \in Range(textOrder) |-> state.textRecords[k]],
          textOrder   |-> textOrder ]

\* Mutated form of Overwrite: a key that exists keeps its old block.
KeepFirst(records, ks, block) ==
    [k \in DOMAIN records \cup ks |-> IF k \in DOMAIN records THEN records[k] ELSE block]

\* A map with the keys of ks mapped to block.
Overwrite(records, ks, block) ==
    [k \in DOMAIN records \cup ks |-> IF k \in ks THEN block ELSE records[k]]

\* The elements of s that are not in S, in their order.
Without(s, S) ==
    LET kept[n \in 0 .. Len(s)] ==
            IF n = 0 THEN <<>>
            ELSE IF s[n] \in S THEN kept[n - 1] ELSE Append(kept[n - 1], s[n])
    IN  kept[Len(s)]

\* An order with the keys of ks, which are distinct, that records does not
\* have yet; a key it has keeps its place.
Extend(order, records, ks) == order \o Without(ks, DOMAIN records)

\* RememberForToolCalls: one block for all tool calls of an answer.
RememberForToolCalls(state, ids, block) ==
    LET named == Without(ids, {NoKey})
    IN  IF block = NoPayload \/ ids = <<>>
        THEN state
        ELSE Pruned([state EXCEPT
                !.order = Extend(@, state.records, named),
                !.records = Overwrite(@, Range(named), block)])

\* RememberForAssistantText: the block of an answer, by the answer's text.
RememberForAssistantText(state, text, block) ==
    IF block = NoPayload \/ text = NoKey
    THEN state
    ELSE Pruned([state EXCEPT
            !.textOrder = Extend(@, state.textRecords, <<text>>),
            !.textRecords = Overwrite(@, {text}, block)])

\* CachedForToolCall and cachedForAssistantText, NoPayload when not found.
CachedForToolCall(state, id) ==
    IF id \in DOMAIN state.records THEN state.records[id] ELSE NoPayload

CachedForAssistantText(state, text) ==
    IF text \in DOMAIN state.textRecords THEN state.textRecords[text] ELSE NoPayload

\* Each map holds exactly the keys of its order, once each, and no more than
\* Limit of them.
Indexed(records, order) ==
    /\ IsInjective(order)
    /\ Range(order) = DOMAIN records
    /\ Len(order) <= Limit

WellFormed(state) ==
    /\ Indexed(state.records, state.order)
    /\ Indexed(state.textRecords, state.textOrder)
=============================================================================
