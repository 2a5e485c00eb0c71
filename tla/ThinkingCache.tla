---------------------------- MODULE ThinkingCache ----------------------------
(***************************************************************************)
(* One session's thinking cache used by concurrent request handlers.       *)
(* RememberFromContent takes the mutex twice, once for the tool calls of   *)
(* an answer and once for its text, so other handlers run in between.      *)
(***************************************************************************)
EXTENDS ThinkingState

CONSTANTS
    Handlers,   \* the request handlers that share the session
    Ids,        \* tool-call ids
    Texts,      \* assistant texts
    Blocks      \* reasoning blocks with a payload

ASSUME NamesAssumption == NoPayload \notin Blocks /\ NoKey \notin Ids \cup Texts

VARIABLES
    cache,      \* the State
    pending,    \* per handler: the text and block still to be remembered
    latest      \* history: per id, the block last remembered for it

cacheVars == <<cache, pending, latest>>

Nothing == [text |-> NoKey, block |-> NoPayload]

-----------------------------------------------------------------------------
CacheInit ==
    /\ cache = EmptyState
    /\ pending = [h \in Handlers |-> Nothing]
    /\ latest = [k \in {} |-> NoPayload]

\* RememberFromContent, first section: the tool calls of the answer.
RememberToolCalls(h, ids, text, block) ==
    /\ pending[h] = Nothing
    /\ cache' = RememberForToolCalls(cache, ids, block)
    /\ pending' = [pending EXCEPT ![h] = [text |-> text, block |-> block]]
    /\ latest' = Overwrite(latest, Range(Without(ids, {NoKey})), block)

\* RememberFromContent, second section: the text of the same answer.
RememberText(h) ==
    /\ pending[h] # Nothing
    /\ cache' = RememberForAssistantText(cache, pending[h].text, pending[h].block)
    /\ pending' = [pending EXCEPT ![h] = Nothing]
    /\ latest' = latest

\* An answer has a reasoning block, a few tool calls and perhaps a text.
Answers ==
    { <<>> } \cup { <<i>> : i \in Ids \cup {NoKey} } \cup { <<i, j>> : i, j \in Ids }

CacheNext ==
    \/ \E h \in Handlers, ids \in Answers, text \in Texts \cup {NoKey}, block \in Blocks :
          IsInjective(ids) /\ RememberToolCalls(h, ids, text, block)
    \/ \E h \in Handlers : RememberText(h)

CacheSpec == CacheInit /\ [][CacheNext]_cacheVars

-----------------------------------------------------------------------------
\* The cache is well formed and holds blocks.
CacheTypeOK ==
    /\ WellFormed(cache)
    /\ cache.records \in [DOMAIN cache.records -> Blocks]
    /\ cache.textRecords \in [DOMAIN cache.textRecords -> Blocks]
    /\ DOMAIN cache.records \subseteq Ids /\ DOMAIN cache.textRecords \subseteq Texts
    /\ pending \in [Handlers -> [text : Texts \cup {NoKey}, block : Blocks \cup {NoPayload}]]

\* Whichever handlers remember in turn, each map holds exactly what its order
\* lists, once each and within the limit, and the block of a tool call is gone
\* only for lack of room.  Which of the blocks has to go is not said here: the
\* code drops the one remembered first.
CacheDropsWhenFull ==
    /\ CacheTypeOK
    /\ \A id \in DOMAIN latest : id \in DOMAIN cache.records \/ Len(cache.order) = Limit

\* What is replayed for a tool call is the block last remembered for it, or,
\* after its eviction, nothing.
ReplaysLatest == \A id \in DOMAIN latest : CachedForToolCall(cache, id) \in {latest[id], NoPayload}
=============================================================================
