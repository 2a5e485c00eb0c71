--------------------------- MODULE ReasoningReplay ---------------------------
(***************************************************************************)
(* How the thinking of one answer gets back into the next request of its   *)
(* conversation: the request handlers of                                   *)
(* internal/service/server/adapter_dispatch.go, composed with the table of *)
(* sessions (SessionManager) and the per-session caches (ThinkingState).   *)
(*                                                                         *)
(* A handler resolves its session up to three times, each time by a lookup *)
(* of its own: in handleResponses, in handleWithAdapters and, for a        *)
(* streaming request, in handleAdapterStream.  The provider adapters are   *)
(* singletons, and each buffers the events of whatever stream runs through *)
(* it; after its stream a handler remembers what it finds in those         *)
(* buffers.                                                                *)
(*                                                                         *)
(* Every answer consists of reasoning and one tool call.  Both are named   *)
(* by the request they answer, so a tool-call id is a request, and a       *)
(* reasoning text is the set of requests whose reasoning it contains.      *)
(***************************************************************************)
EXTENDS Integers, FiniteSets, Sequences

CONSTANTS
    Requests,   \* the requests; each is made once
    Keys,       \* session keys; a conversation is a key
    NoKey,      \* a request without a session header
    Plans,      \* the combinations of requests considered
    Sessions, NoSession, Idle, Limits, TTLs, MaxClock,  \* see SessionManager
    Limit,      \* records per thinking cache
    NoId        \* the empty tool-call id

ASSUME ConstantsAssumption ==
    /\ IsFiniteSet(Keys) /\ NoKey \notin Keys
    /\ Limits \subseteq Nat /\ TTLs \subseteq Nat \ {0} /\ MaxClock \in Nat
    /\ NoSession \notin Sessions
    /\ Limit \in Nat
    /\ NoId \notin Requests

VARIABLES
    clock, sessions, maxSessions, ttl, lookup, held, pruner, stopping, served,
    pc,         \* per request: where its handler is
    plan,       \* per request: what the client asks for, see Plan
    history,    \* per request: the answered turns that its messages contain
    sent,       \* per request: the thinking it sends upstream for those turns
    emitted,    \* per request: how many events its provider stream has emitted
    answered,   \* the requests whose answer reached the client whole
    thinking,   \* per session object: the deepseek_v4 State in ExtensionData
    buffer,     \* per adapter: what its streamEvents contain
    owner,      \* history: per adapter, the request that reset the buffer last
    disturbed,  \* history: the requests whose events shared a buffer with others'
    kept        \* history: per session object, the turns remembered from responses

sessionVars == <<clock, sessions, maxSessions, ttl, lookup, held, pruner, stopping, served>>
requestVars == <<pc, plan, history, sent, emitted, answered>>
bufferVars == <<buffer, owner, disturbed>>
vars == <<sessionVars, requestVars, thinking, bufferVars, kept>>

Sites == {"dispatch", "adapter", "stream"}

SM == INSTANCE SessionManager WITH Callers <- Requests \X Sites

T == INSTANCE ThinkingState WITH NoPayload <- {}, NoKey <- NoId

-----------------------------------------------------------------------------
Protocols == {"anthropic", "chat"}

\* What a client asks for: the session it names, the protocol of the provider
\* that serves its model, whether it wants a stream, and the answers it waits
\* for before it sends.
Plan == [key : Keys \cup {NoKey}, protocol : Protocols, stream : BOOLEAN,
         after : SUBSET Requests]

ASSUME PlansAssumption == Plans \subseteq [Requests -> Plan]

Conv(r) == plan[r].key

\* The events of a provider stream that carry reasoning or the tool call.
Events(p) == IF p = "anthropic" THEN <<"start", "think", "tool">> ELSE <<"think", "tool">>

\* What a reader of an adapter's buffered events makes of them: the text of
\* the current block, the block completed last, and the tool-call ids.
EmptyBuffer == [text |-> {}, completed |-> {}, ids |-> <<>>]

\* The buffer with one more event, of request r.
Buffered(b, event, r) ==
    CASE event = "start" -> [b EXCEPT !.text = {}]
      [] event = "think" -> [b EXCEPT !.text = @ \cup {r}, !.completed = b.text \cup {r}]
      [] event = "tool"  -> [b EXCEPT !.ids = Append(@, r)]

\* The session a request's lookup at a site returned.
SessionAt(r, site) == held[<<r, site>>]

\* Objects that became unreachable have no state; a new one has an empty cache.
Collect ==
    LET live == SM!Reachable \cap SM!Reachable'
    IN  /\ thinking' = [s \in Sessions |-> IF s \in live THEN thinking[s] ELSE T!EmptyState]
        /\ kept' = [s \in Sessions |-> IF s \in live THEN kept[s] ELSE {}]

-----------------------------------------------------------------------------
Init ==
    /\ SM!Init
    /\ pc = [r \in Requests |-> "idle"]
    /\ plan \in Plans
    /\ history = [r \in Requests |-> {}]
    /\ sent = [r \in Requests |-> [id \in {} |-> {}]]
    /\ emitted = [r \in Requests |-> 0]
    /\ answered = {}
    /\ thinking = [s \in Sessions |-> T!EmptyState]
    /\ buffer = [p \in Protocols |-> EmptyBuffer]
    /\ owner = [p \in Protocols |-> NoId]
    /\ disturbed = {}
    /\ kept = [s \in Sessions |-> {}]

\* A client sends a request; it repeats the turns of the conversation that it
\* has seen, without their thinking.
Arrive(r) ==
    /\ pc[r] = "idle"
    /\ plan[r].after \subseteq answered
    /\ pc' = [pc EXCEPT ![r] = "dispatch"]
    /\ history' = [history EXCEPT ![r] = { q \in answered : Conv(q) = Conv(r) }]
    /\ UNCHANGED <<sessionVars, plan, sent, emitted, answered, thinking, bufferVars, kept>>

\* Where the handler goes after the lookup at a site.
After == [dispatch |-> "adapter", adapter |-> "replay", stream |-> "again"]

\* sessionForRequest for a request without a key.
LookupEphemeral(r, site) ==
    /\ pc[r] = site /\ Conv(r) = NoKey
    /\ SM!NewEphemeral(<<r, site>>)
    /\ pc' = [pc EXCEPT ![r] = After[site]]
    /\ Collect
    /\ UNCHANGED <<plan, history, sent, emitted, answered, bufferVars>>

\* sessionForRequest for a request with a key, up to the manager's mutex.
LookupBegin(r, site) ==
    /\ pc[r] = site /\ Conv(r) # NoKey
    /\ SM!ReadClock(<<r, site>>, Conv(r))
    /\ UNCHANGED <<requestVars, thinking, bufferVars, kept>>

\* sessionForRequest for a request with a key, under the manager's mutex.
LookupEnd(r, site) ==
    /\ pc[r] = site
    /\ SM!GetOrCreate(<<r, site>>)
    /\ pc' = [pc EXCEPT ![r] = After[site]]
    /\ Collect
    /\ UNCHANGED <<plan, history, sent, emitted, answered, bufferVars>>

\* What the caches of session s hold for a set of turns.
Cached(s, ids) == [id \in ids |-> T!CachedForToolCall(thinking[s], id)]

\* prependCachedThinking and prependCachedReasoningForChat, for every tool call
\* in the messages.  Each of the lookups takes the cache's mutex by itself, but
\* what it finds depends on its own instant only.  A streaming request goes on
\* in handleAdapterStream, which resolves the session again.
Replay(r) ==
    /\ pc[r] = "replay"
    /\ sent' = [sent EXCEPT ![r] = Cached(SessionAt(r, "adapter"), history[r])]
    /\ pc' = [pc EXCEPT ![r] = IF plan[r].stream THEN "stream" ELSE "call"]
    /\ UNCHANGED <<sessionVars, plan, history, emitted, answered, thinking, bufferVars, kept>>

\* handleAdapterStream applies prependCachedReasoningForChat once more, to the
\* session of its own lookup: only messages that are still without reasoning
\* change.  An Anthropic message has a thinking block by then, be it empty.
ReplayAgain(r) ==
    /\ pc[r] = "again"
    /\ sent' = IF plan[r].protocol = "chat"
               THEN [sent EXCEPT ![r] = [id \in history[r] |->
                        IF @[id] # {} THEN @[id]
                        ELSE T!CachedForToolCall(thinking[SessionAt(r, "stream")], id)]]
               ELSE sent
    /\ pc' = [pc EXCEPT ![r] = "open"]
    /\ UNCHANGED <<sessionVars, plan, history, emitted, answered, thinking, bufferVars, kept>>

\* The handler returns: its session pointers go.
Finish(r, outcome) ==
    /\ pc' = [pc EXCEPT ![r] = outcome]
    /\ held' = [h \in Requests \X Sites |-> IF h[1] = r THEN NoSession ELSE held[h]]
    /\ UNCHANGED <<clock, sessions, maxSessions, ttl, lookup, pruner, stopping, served>>

\* The upstream call or stream cannot be opened: an error response.
FailUpstream(r) ==
    /\ pc[r] \in {"call", "open"}
    /\ Finish(r, "failed")
    /\ Collect
    /\ UNCHANGED <<plan, history, sent, emitted, answered, bufferVars>>

\* RememberForToolCalls on the cache of a session.
Remember(s, ids, block) ==
    thinking' = [thinking EXCEPT ![s] = T!RememberForToolCalls(@, ids, block)]

\* rememberAdapterResponseContent, for a response that is not streamed: the
\* turn is remembered before the response is written.
RememberResponse(r) ==
    /\ pc[r] = "call"
    /\ pc' = [pc EXCEPT ![r] = "write"]
    /\ Remember(SessionAt(r, "adapter"), <<r>>, {r})
    /\ kept' = [kept EXCEPT ![SessionAt(r, "adapter")] = @ \cup {r}]
    /\ UNCHANGED <<sessionVars, plan, history, sent, emitted, answered,
                   bufferVars>>

WriteResponse(r) ==
    /\ pc[r] = "write"
    /\ answered' = answered \cup {r}
    /\ Finish(r, "done")
    /\ Collect
    /\ UNCHANGED <<plan, history, sent, emitted, bufferVars>>

-----------------------------------------------------------------------------
\* Mutated form of OpenStream: the buffer is not reset.
OpenStreamNoReset(r) ==
    /\ pc[r] = "open"
    /\ pc' = [pc EXCEPT ![r] = "streaming"]
    /\ owner' = [owner EXCEPT ![plan[r].protocol] = r]
    /\ UNCHANGED <<sessionVars, plan, history, sent, emitted, answered, thinking, buffer,
                   disturbed, kept>>

\* ToCoreStream of the provider adapter: the shared buffer is reset.
OpenStream(r) ==
    /\ pc[r] = "open"
    /\ pc' = [pc EXCEPT ![r] = "streaming"]
    /\ buffer' = [buffer EXCEPT ![plan[r].protocol] = EmptyBuffer]
    /\ owner' = [owner EXCEPT ![plan[r].protocol] = r]
    /\ UNCHANGED <<sessionVars, plan, history, sent, emitted, answered,
                   thinking, disturbed, kept>>

\* bufferStreamEvent: the provider's goroutine buffers its next event, in
\* whatever the buffer then is, also after its handler has given up.
Emit(r) ==
    LET p == plan[r].protocol IN
    /\ plan[r].stream /\ pc[r] \in {"streaming", "fallback", "chatBuffer", "done"}
    /\ emitted[r] < Len(Events(p))
    /\ emitted' = [emitted EXCEPT ![r] = @ + 1]
    /\ buffer' = [buffer EXCEPT ![p] = Buffered(@, Events(p)[emitted'[r]], r)]
    /\ disturbed' = IF owner[p] = r THEN disturbed ELSE disturbed \cup {r, owner[p]}
    /\ UNCHANGED <<sessionVars, pc, plan, history, sent, answered, thinking,
                   owner, kept>>

\* The whole answer went through: the client has it, or the write of its last
\* event, response.completed, failed.  Only then does the handler remember it.
Deliver(r) ==
    /\ pc[r] = "streaming"
    /\ emitted[r] = Len(Events(plan[r].protocol))
    /\ pc' = [pc EXCEPT ![r] = "remember"]
    /\ answered' \in {answered, answered \cup {r}}
    /\ UNCHANGED <<sessionVars, plan, history, sent, emitted, thinking,
                   bufferVars, kept>>

\* The client went away or the upstream failed: no response.completed.
Abort(r) ==
    /\ pc[r] = "streaming"
    /\ pc' = [pc EXCEPT ![r] = "fallback"]
    /\ UNCHANGED <<sessionVars, plan, history, sent, emitted, answered,
                   thinking, bufferVars, kept>>

\* rememberStreamResponseContent: from the final response.
RememberStreamed(r) ==
    /\ pc[r] = "remember"
    /\ pc' = [pc EXCEPT ![r] = "chatBuffer"]
    /\ Remember(SessionAt(r, "stream"), <<r>>, {r})
    /\ kept' = [kept EXCEPT ![SessionAt(r, "stream")] = @ \cup {r}]
    /\ UNCHANGED <<sessionVars, plan, history, sent, emitted, answered,
                   bufferVars>>

\* Nothing was remembered: OnStreamComplete over the Anthropic adapter's
\* buffer, whichever protocol this stream used.
RememberFallback(r) ==
    /\ pc[r] = "fallback"
    /\ pc' = [pc EXCEPT ![r] = "chatBuffer"]
    /\ Remember(SessionAt(r, "stream"), buffer["anthropic"].ids, buffer["anthropic"].completed)
    /\ UNCHANGED <<sessionVars, plan, history, sent, emitted, answered,
                   bufferVars, kept>>

\* cacheReasoningForChat over the Chat adapter's buffer, whichever protocol
\* this stream used; then the handler returns.
CacheChatBuffer(r) ==
    /\ pc[r] = "chatBuffer"
    /\ LET s == SessionAt(r, "stream")
           cached == T!RememberForToolCalls(thinking[s], buffer["chat"].ids, buffer["chat"].text)
       IN  /\ Finish(r, "done")
           /\ thinking' = [o \in Sessions |->
                 IF o \notin SM!Reachable' THEN T!EmptyState
                 ELSE IF o = s THEN cached ELSE thinking[o]]
           /\ kept' = [o \in Sessions |-> IF o \in SM!Reachable' THEN kept[o] ELSE {}]
    /\ UNCHANGED <<plan, history, sent, emitted, answered, bufferVars>>

Next ==
    \/ \E r \in Requests : Arrive(r)
    \/ \E r \in Requests, site \in Sites :
          LookupEphemeral(r, site) \/ LookupBegin(r, site) \/ LookupEnd(r, site)
    \/ \E r \in Requests :
          \/ Replay(r) \/ ReplayAgain(r) \/ FailUpstream(r) \/ RememberResponse(r) \/ WriteResponse(r)
          \/ OpenStream(r) \/ Emit(r) \/ Deliver(r) \/ Abort(r)
          \/ RememberStreamed(r) \/ RememberFallback(r) \/ CacheChatBuffer(r)

Spec == Init /\ [][Next]_vars

-----------------------------------------------------------------------------
Places == {"idle", "dispatch", "adapter", "replay", "call", "write", "stream", "again", "open",
           "streaming", "remember", "fallback", "chatBuffer", "done", "failed"}

\* The types of the handlers' variables, and well-formed caches everywhere.
TypeOK ==
    /\ SM!TypeOK
    /\ pc \in [Requests -> Places]
    /\ plan \in Plans
    /\ history \in [Requests -> SUBSET Requests]
    /\ \A r \in Requests : DOMAIN sent[r] \subseteq history[r]
    /\ answered \subseteq Requests /\ disturbed \subseteq Requests
    /\ \A s \in Sessions : T!WellFormed(thinking[s]) /\ kept[s] \subseteq Requests

\* With the default, unlimited, table the separate lookups of one request
\* agree: it remembers into the session it replays from.
LookupsAgree ==
    /\ TypeOK
    /\ \A r \in Requests :
        (maxSessions = 0 /\ Conv(r) # NoKey /\ pc[r] \in {"again", "open", "streaming", "remember"})
            => SessionAt(r, "adapter") = SessionAt(r, "stream")

\* Whatever the interleaving of handlers and provider goroutines, a turn whose
\* events had the buffer to themselves is replayed with its own thinking or,
\* when it is not cached, with none.
FaithfulReplay ==
    \A r \in Requests : \A id \in DOMAIN sent[r] \ disturbed : sent[r][id] \in {{}, {id}}

\* A turn that a handler remembered in a session is found again by the next
\* request that resolves to that session, unless the cache is full.
RememberedIsReplayed ==
    [][\A r \in Requests : pc[r] = "replay" /\ pc'[r] # "replay" =>
          LET s == SessionAt(r, "adapter")
          IN  \A id \in history[r] \cap kept[s] :
                sent'[r][id] # {} \/ Len(thinking[s].order) = Limit]_vars

=============================================================================
