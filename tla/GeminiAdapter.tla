--------------------------- MODULE GeminiAdapter ---------------------------
(***************************************************************************)
(* The one GeminiProviderAdapter that serves every request to a Google     *)
(* provider (internal/protocol/google/adapter.go, cache.go; created in     *)
(* internal/service/app/app.go:232, without a client of its own).  What it *)
(* keeps of the request it is converting are fields of the adapter: the    *)
(* map from the ids of calls to their names, guarded by a mutex that is    *)
(* released by hand, and the cache key of the prefix.                      *)
(*                                                                         *)
(* A request goes through FromCoreRequest block by block, is sent, and is  *)
(* answered; ToCoreResponse is called for whole answers only.  A write to  *)
(* the nil map panics: net/http recovers, the request ends without an      *)
(* answer, and the mutex it held is not released.                          *)
(*                                                                         *)
(* Data.  A block is [kind, id, name]; texts of any kind have no id.  What *)
(* is kept of a message is the name that each result goes out under.  The  *)
(* assignment of a key is taken to be atomic.  currentModel is only read   *)
(* by the creation of a cached content, which needs a client, and is left  *)
(* out with it.                                                            *)
(***************************************************************************)
EXTENDS Naturals, Sequences, SequencesExt, FiniteSets

CONSTANTS
  Conversations,   \* each has at most one request at a time
  Blocks,          \* their messages, a sequence of blocks
  Prefix,          \* the cache key of their system, tools and first message
  NoMap,           \* the nil map
  MaxRequests      \* bound on the requests of a conversation

PartKinds == {"text", "tool_use", "tool_result"}
Keys == {Prefix[c] : c \in Conversations}
Ids == UNION {{Blocks[c][i].id : i \in DOMAIN Blocks[c]} : c \in Conversations}
NoKey == "no key"
Free == "free"

ASSUME BlocksAssumption == Blocks \in [Conversations -> Seq([kind : PartKinds, id : STRING, name : STRING])]
ASSUME NoMapAssumption == \A ids \in SUBSET Ids : NoMap \notin [ids -> STRING]
ASSUME NamesAssumption == Free \notin Conversations /\ NoKey \notin Keys
ASSUME RequestsAssumption == MaxRequests \in Nat

VARIABLES
  caching,         \* is caching configured
  toolUseIDMap,    \* a function from ids to names, or NoMap
  toolUseIDMu,     \* Free, or the request that holds it
  currentCacheKey,
  registry,        \* the warm keys of MemoryRegistry
  pc, at,          \* where each request is, and at which block
  names,           \* the names its results go out under
  complete,        \* has it its system and tools
  requests,        \* how many a conversation has made
  overlapped,      \* history: did a request begin while another was under way
  cachedFor        \* history: prefixes the provider said it had cached

shared == <<toolUseIDMap, toolUseIDMu, currentCacheKey, registry>>
adapterVars == <<caching, shared, pc, at, names, complete, requests, overlapped, cachedFor>>

UnderWay == {"convert", "clean", "sent"}
Go(c, where) == pc' = [pc EXCEPT ![c] = where]

AdapterInit ==
  /\ caching \in BOOLEAN
  /\ toolUseIDMap = NoMap /\ toolUseIDMu = Free /\ currentCacheKey = NoKey /\ registry = {}
  /\ pc = [c \in Conversations |-> "idle"]
  /\ at = [c \in Conversations |-> 1]
  /\ names = [c \in Conversations |-> <<>>]
  /\ complete = [c \in Conversations |-> TRUE]
  /\ requests = [c \in Conversations |-> 0]
  /\ overlapped = FALSE
  /\ cachedFor = {}

-----------------------------------------------------------------------------
(* FromCoreRequest *)

\* A request arrives, the first of its conversation or the next; a client may also ask
\* again after its connection broke.
Arrive(c) ==
  /\ pc[c] \in {"idle", "panicked"} /\ requests[c] < MaxRequests
  /\ Go(c, "waiting")
  /\ requests' = [requests EXCEPT ![c] = @ + 1]
  /\ UNCHANGED <<caching, shared, at, names, complete, overlapped, cachedFor>>

\* "Initialize per-request state."
Start(c) ==
  /\ pc[c] = "waiting" /\ toolUseIDMu = Free
  /\ toolUseIDMap' = <<>>
  /\ at' = [at EXCEPT ![c] = 1]
  /\ names' = [names EXCEPT ![c] = <<>>]
  /\ complete' = [complete EXCEPT ![c] = TRUE]
  /\ overlapped' = (overlapped \/ \E d \in Conversations : pc[d] \in UnderWay)
  /\ Go(c, "convert")
  /\ UNCHANGED <<caching, toolUseIDMu, currentCacheKey, registry, requests, cachedFor>>

Converting(c, kind) == pc[c] = "convert" /\ at[c] <= Len(Blocks[c]) /\ Blocks[c][at[c]].kind = kind
ToNextBlock(c) == at' = [at EXCEPT ![c] = @ + 1]

\* blocksToContent, by kind of block; text, images and reasoning touch nothing shared.
ConvertText(c) ==
  /\ Converting(c, "text")
  /\ ToNextBlock(c)
  /\ UNCHANGED <<caching, shared, pc, names, complete, requests, overlapped, cachedFor>>

ConvertToolUse(c) ==
  LET b == Blocks[c][at[c]] IN
  /\ Converting(c, "tool_use") /\ toolUseIDMu = Free /\ toolUseIDMap # NoMap
  /\ toolUseIDMap' = [id \in DOMAIN toolUseIDMap \cup {b.id} |-> IF id = b.id THEN b.name ELSE toolUseIDMap[id]]
  /\ ToNextBlock(c)
  /\ UNCHANGED <<caching, toolUseIDMu, currentCacheKey, registry, pc, names, complete, requests, overlapped, cachedFor>>

\* Assignment to an entry of the nil map: there is no deferred Unlock.
PanicAtToolUse(c) ==
  /\ Converting(c, "tool_use") /\ toolUseIDMu = Free /\ toolUseIDMap = NoMap
  /\ toolUseIDMu' = c
  /\ Go(c, "panicked")
  /\ UNCHANGED <<caching, toolUseIDMap, currentCacheKey, registry, at, names, complete, requests, overlapped, cachedFor>>

\* The name recorded with the id, else the id; a nil map has no entries.
NameFor(id) == IF toolUseIDMap # NoMap /\ id \in DOMAIN toolUseIDMap THEN toolUseIDMap[id] ELSE id

\* Mutant of ConvertToolResult: the mutex is not released when there is no entry.
ConvertToolResultLocked(c) ==
  LET id == Blocks[c][at[c]].id IN
  /\ Converting(c, "tool_result") /\ toolUseIDMu = Free
  /\ names' = [names EXCEPT ![c] = Append(@, NameFor(id))]
  /\ toolUseIDMu' = IF NameFor(id) = id THEN c ELSE Free
  /\ ToNextBlock(c)
  /\ UNCHANGED <<caching, toolUseIDMap, currentCacheKey, registry, pc, complete, requests, overlapped, cachedFor>>

ConvertToolResult(c) ==
  LET id == Blocks[c][at[c]].id IN
  /\ Converting(c, "tool_result") /\ toolUseIDMu = Free
  /\ names' = [names EXCEPT ![c] = Append(@, NameFor(id))]
  /\ ToNextBlock(c)
  /\ UNCHANGED <<caching, shared, pc, complete, requests, overlapped, cachedFor>>

\* Mutant of PrepareCache: the key is stored behind the look at the registry.
PrepareCacheLate(c) ==
  /\ pc[c] = "convert" /\ at[c] > Len(Blocks[c])
  /\ LET hit == caching /\ Prefix[c] \in registry
     IN  /\ complete' = [complete EXCEPT ![c] = ~hit]
         /\ currentCacheKey' = IF caching /\ ~hit THEN Prefix[c] ELSE currentCacheKey
  /\ Go(c, "clean")
  /\ UNCHANGED <<caching, toolUseIDMap, toolUseIDMu, registry, at, names, requests, overlapped, cachedFor>>

\* prepareCache: a prefix that is warm is referred to, and what it holds is taken out of
\* the request.  Nothing is created: the adapter has no client.
PrepareCache(c) ==
  /\ pc[c] = "convert" /\ at[c] > Len(Blocks[c])
  /\ complete' = [complete EXCEPT ![c] = ~(caching /\ Prefix[c] \in registry)]
  /\ currentCacheKey' = IF caching THEN Prefix[c] ELSE currentCacheKey
  /\ Go(c, "clean")
  /\ UNCHANGED <<caching, toolUseIDMap, toolUseIDMu, registry, at, names, requests, overlapped, cachedFor>>

\* "Clean up per-request state."
CleanUp(c) ==
  /\ pc[c] = "clean" /\ toolUseIDMu = Free
  /\ toolUseIDMap' = NoMap
  /\ Go(c, "sent")
  /\ UNCHANGED <<caching, toolUseIDMu, currentCacheKey, registry, at, names, complete, requests, overlapped, cachedFor>>

-----------------------------------------------------------------------------
(* The answer *)

\* The call fails, or the answer is streamed: ToCoreResponse is not called.
EndUnseen(c) ==
  /\ pc[c] = "sent"
  /\ Go(c, "idle")
  /\ UNCHANGED <<caching, shared, at, names, complete, requests, overlapped, cachedFor>>

\* ToCoreResponse and prepareCacheResponse: cached says whether the answer counts cached
\* tokens, which Gemini also does for prefixes it caches on its own.
Answer(c, cached) ==
  /\ pc[c] = "sent"
  /\ registry' = IF cached /\ currentCacheKey # NoKey THEN registry \cup {currentCacheKey} ELSE registry
  /\ currentCacheKey' = NoKey
  /\ cachedFor' = IF cached THEN cachedFor \cup {Prefix[c]} ELSE cachedFor
  /\ Go(c, "idle")
  /\ UNCHANGED <<caching, toolUseIDMap, toolUseIDMu, at, names, complete, requests, overlapped>>

\* An entry is warm for an hour.
Expire(k) ==
  /\ k \in registry
  /\ registry' = registry \ {k}
  /\ UNCHANGED <<caching, toolUseIDMap, toolUseIDMu, currentCacheKey, pc, at, names, complete, requests, overlapped, cachedFor>>

-----------------------------------------------------------------------------
Convert(c) ==
  \/ Start(c)
  \/ ConvertText(c) \/ ConvertToolUse(c) \/ PanicAtToolUse(c) \/ ConvertToolResult(c)
  \/ PrepareCache(c) \/ CleanUp(c)
Finish(c) == EndUnseen(c) \/ \E cached \in BOOLEAN : Answer(c, cached)

AdapterNext ==
  \/ \E c \in Conversations : Arrive(c) \/ Convert(c) \/ Finish(c)
  \/ \E k \in Keys : Expire(k)

AdapterSpec == AdapterInit /\ [][AdapterNext]_adapterVars

\* A request's goroutine runs, and the provider or the client ends every call; nobody has
\* to ask again, and no entry has to expire.
FairSpec == AdapterSpec /\ \A c \in Conversations : WF_adapterVars(Convert(c)) /\ WF_adapterVars(Finish(c))

-----------------------------------------------------------------------------
(* Properties *)

\* Every variable has its type: the mutex is held by nobody, or for ever by a request
\* that panicked (it is free again behind every other step).
FieldsOK ==
  /\ toolUseIDMu \in {Free} \cup Conversations
  /\ toolUseIDMap # NoMap => DOMAIN toolUseIDMap \subseteq Ids
  /\ currentCacheKey \in Keys \cup {NoKey} /\ registry \subseteq Keys /\ cachedFor \subseteq Keys
  /\ pc \in [Conversations -> UnderWay \cup {"idle", "waiting", "panicked"}]
  /\ \A c \in Conversations : at[c] \in 1 .. Len(Blocks[c]) + 1 /\ requests[c] \in 0 .. MaxRequests
  /\ complete \in [Conversations -> BOOLEAN] /\ overlapped \in BOOLEAN

\* The last of some positions, which are not none.
LastOf(positions) == CHOOSE k \in positions : \A j \in positions : j <= k

\* The names of a conversation's calls by id, of its first n blocks; a later call of the
\* same id hides an earlier one.
OfKind(c, kind, n) == {k \in 1 .. n : Blocks[c][k].kind = kind}
CallsOfId(c, id, n) == {k \in OfKind(c, "tool_use", n) : Blocks[c][k].id = id}
RecordedUpTo(c, n) ==
  [id \in {Blocks[c][k].id : k \in OfKind(c, "tool_use", n)} |-> Blocks[c][LastOf(CallsOfId(c, id, n))].name]

\* The name for the result that is block k: that of the last call of its id before it.
NameAt(c, k) ==
  LET id == Blocks[c][k].id
  IN  IF CallsOfId(c, id, k) = {} THEN id ELSE Blocks[c][LastOf(CallsOfId(c, id, k))].name

\* The results among the first n blocks have their names, in their order.
NamedUpTo(c, n) ==
  /\ Len(names[c]) = Cardinality(OfKind(c, "tool_result", n))
  /\ \A k \in OfKind(c, "tool_result", n) :
       names[c][Cardinality(OfKind(c, "tool_result", k))] = NameAt(c, k)

\* Each result goes out under the name of its own call: toolUseIDMap is the request's.
NamedAsCalled(c) == NamedUpTo(c, Len(Blocks[c]))

\* A request goes out without its system and tools only when the provider has said of that
\* prefix that it is cached: currentCacheKey and the registry are about the request they
\* are used for.
LeftOutIsCached(c) == complete[c] \/ Prefix[c] \in cachedFor

\* Both hold of all that is sent as long as the adapter has one request at a time.
SentAsSaid ==
  FieldsOK /\ (~overlapped =>
    \A c \in Conversations : pc[c] = "sent" => NamedAsCalled(c) /\ LeftOutIsCached(c))

\* As long as the adapter has one request at a time, no request waits for ever for the
\* mutex or ends in a panic.
ReturnsUnlessOverlapped ==
  [](~overlapped) => \A c \in Conversations : pc[c] = "waiting" ~> pc[c] = "idle"

\* The map is "only valid during a single FromCoreRequest call", and during that call it
\* is: while a request is converted it holds the calls of that request so far.
PerRequestState ==
  \A c \in Conversations : pc[c] = "convert" => toolUseIDMap = RecordedUpTo(c, at[c] - 1)
=============================================================================
