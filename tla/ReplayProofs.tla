----------------------------- MODULE ReplayProofs -----------------------------
(***************************************************************************)
(* The replay of thinking for any set of requests, plans and sessions.     *)
(***************************************************************************)
EXTENDS ReasoningReplay, SequenceTheorems, TLAPS

\* The table of sessions, with the lookups of the request handlers as its
\* callers, and the sessions' caches.  The lemmas that are used of caches speak
\* of the value of a cache, not of the specification of one cache and its
\* variables.
P == INSTANCE SessionProofs WITH Callers <- Requests \X Sites,
        NoPayload <- {}, NoKey <- NoId,
        Handlers <- {}, Ids <- {}, Texts <- {}, Blocks <- {},
        cache <- {}, pending <- {}, latest <- {}

LEMMA SessionConstants == P!ConstantsAssumption /\ P!LimitAssumption /\ P!NamesAssumption
BY ConstantsAssumption
  DEF ConstantsAssumption, P!ConstantsAssumption, P!IsFiniteSet, IsFiniteSet,
      P!LimitAssumption, P!NamesAssumption

LEMMA LimitIsNatural == Limit \in Nat
BY ConstantsAssumption DEF ConstantsAssumption

\* The operations of a cache are those of the replay.
LEMMA SameCache ==
    /\ T!EmptyState = P!EmptyState
    /\ \A s, ids, block : T!RememberForToolCalls(s, ids, block) =
          IF block = {} \/ ids = <<>> THEN s
          ELSE P!WithRecords(s, P!Without(ids, {NoId}), block)
    /\ \A s : T!WellFormed(s) <=> P!WellFormed(s)
<1>1. \A s, S : T!Without(s, S) = P!Without(s, S)
  BY DEF P!Without, T!Without
<1>2. \A s : T!Range(s) = P!Range(s) /\ (T!IsInjective(s) <=> P!IsInjective(s))
  BY DEF P!Range, T!Range, P!IsInjective, T!IsInjective
<1>3. \A s : T!Newest(s) = P!Newest(s)
  BY DEF P!Newest, T!Newest, P!Max, T!Max
<1>4. \A s : T!Pruned(s) = P!Pruned(s)
  BY <1>2, <1>3 DEF P!Pruned, T!Pruned
<1>5. \A r, ks, b : T!Overwrite(r, ks, b) = P!Overwrite(r, ks, b)
  BY DEF P!Overwrite, T!Overwrite
<1>6. \A o, r, ks : T!Extend(o, r, ks) = P!Extend(o, r, ks)
  BY <1>1 DEF P!Extend, T!Extend
<1>7. \A s, ids, block : T!RememberForToolCalls(s, ids, block) =
          IF block = {} \/ ids = <<>> THEN s
          ELSE P!WithRecords(s, P!Without(ids, {NoId}), block)
  BY <1>1, <1>2, <1>4, <1>5, <1>6 DEF T!RememberForToolCalls, P!WithRecords
<1>8. \A s : T!WellFormed(s) <=> P!WellFormed(s)
  BY <1>2 DEF P!WellFormed, T!WellFormed, P!Indexed, T!Indexed
<1> QED
  BY <1>7, <1>8 DEF P!EmptyState, T!EmptyState

-----------------------------------------------------------------------------
(***************************************************************************)
(* The table of sessions inside the replay: SessionManager's theorems.     *)
(***************************************************************************)

\* The two instances of the session manager are the same.
LEMMA SameTable ==
    /\ SM!TypeOK <=> P!TypeOK
    /\ SM!Init <=> P!Init
    /\ \A c : SM!NewEphemeral(c) <=> P!NewEphemeral(c)
    /\ \A c, k : SM!ReadClock(c, k) <=> P!ReadClock(c, k)
    /\ \A c : SM!GetOrCreate(c) <=> P!GetOrCreate(c)
    /\ \A c : SM!Hit(c) <=> P!Hit(c)
    /\ \A c : SM!Create(c) <=> P!Create(c)
<1>1. \A S : SM!Cardinality(S) = P!Cardinality(S)
  BY DEF SM!Cardinality, P!Cardinality
<1>2. \A t : SM!Evictions(t) = P!Evictions(t)
  BY <1>1 DEF SM!Evictions, P!Evictions
<1>3. SM!Allocatable = P!Allocatable
  BY DEF SM!Allocatable, P!Allocatable, SM!Reachable, P!Reachable
<1>4. \A t : SM!Unexpired(t) = P!Unexpired(t)
  BY DEF SM!Unexpired, P!Unexpired, SM!WithoutKeys, P!WithoutKeys, SM!Expired, P!Expired
<1>5. \A f, D : SM!WithoutKeys(f, D) = P!WithoutKeys(f, D)
  BY DEF SM!WithoutKeys, P!WithoutKeys
<1>6. \A f, k, v : SM!Put(f, k, v) = P!Put(f, k, v)
  BY DEF SM!Put, P!Put
<1>7. \A c : SM!Hit(c) <=> P!Hit(c)
  BY <1>4, <1>6 DEF SM!Hit, P!Hit
<1>8. \A c : SM!Create(c) <=> P!Create(c)
  BY <1>2, <1>3, <1>4, <1>5, <1>6 DEF SM!Create, P!Create
<1>9. \A c : SM!GetOrCreate(c) <=> P!GetOrCreate(c)
  BY <1>7, <1>8 DEF SM!GetOrCreate, P!GetOrCreate
<1>10. \A c : SM!NewEphemeral(c) <=> P!NewEphemeral(c)
  BY <1>3 DEF SM!NewEphemeral, P!NewEphemeral
<1>11. \A c, k : SM!ReadClock(c, k) <=> P!ReadClock(c, k)
  BY DEF SM!ReadClock, P!ReadClock
<1>12. SM!TypeOK <=> P!TypeOK
  BY DEF SM!TypeOK, P!TypeOK, SM!Tables, P!Tables, SM!Entry, P!Entry, SM!Instants, P!Instants,
         SM!Lookup, P!Lookup, SM!Pruner, P!Pruner
<1>13. SM!Init <=> P!Init
  BY DEF SM!Init, P!Init
<1> QED
  BY <1>7, <1>8, <1>9, <1>10, <1>11, <1>12, <1>13

-----------------------------------------------------------------------------
\* The places at which a handler has made its lookup in handleWithAdapters,
\* and those at which it has made the one in handleAdapterStream.
HasAdapter == {"replay", "call", "write", "stream", "again", "open", "streaming", "remember",
               "fallback", "chatBuffer"}
HasStream == {"again", "open", "streaming", "remember", "fallback", "chatBuffer"}

\* The handlers' own variables.
HandlersInv ==
    /\ pc \in [Requests -> Places] /\ plan \in Plans
    /\ history \in [Requests -> SUBSET Requests]
    /\ DOMAIN sent = Requests /\ \A r \in Requests : DOMAIN sent[r] \subseteq history[r]
    /\ \A r \in Requests : pc[r] \in {"stream", "again"} => DOMAIN sent[r] = history[r]
    /\ \A r \in Requests : pc[r] = "idle" => DOMAIN sent[r] = {}
    /\ emitted \in [Requests -> Nat]
    /\ answered \subseteq Requests /\ disturbed \subseteq Requests
    /\ \A r \in Requests : pc[r] \in {"call", "write"} => ~plan[r].stream

\* No time passes within the model, so no session expires; without a limit none
\* is evicted either, and what a handler holds is what the table has.
LookupsInv ==
    /\ clock = 0 /\ \A k \in DOMAIN sessions : sessions[k].lastUsed = 0
    /\ \A c \in Requests \X Sites :
          lookup[c] # Idle => lookup[c].now = 0 /\ lookup[c].key = Conv(c[1])
    /\ \A r \in Requests : pc[r] \in HasAdapter => SessionAt(r, "adapter") \in Sessions
    /\ \A r \in Requests : pc[r] \in HasStream => SessionAt(r, "stream") \in Sessions
    /\ maxSessions = 0 => \A c \in Requests \X Sites :
          Conv(c[1]) # NoKey /\ held[c] # NoSession =>
              Conv(c[1]) \in DOMAIN sessions /\ held[c] = sessions[Conv(c[1])].sess

\* A cache that holds blocks of the right turns, and the turns remembered in it
\* unless it is full.
CacheOk(state, turns, mixed) ==
    /\ P!IsCache(state, Requests, {})
    /\ turns \subseteq Requests
    /\ \A id \in DOMAIN state.records :
          state.records[id] # {} /\ (id \notin mixed => state.records[id] = {id})
    /\ turns \subseteq DOMAIN state.records \/ Len(state.order) = Limit

CachesInv ==
    /\ DOMAIN thinking = Sessions /\ DOMAIN kept = Sessions
    /\ \A s \in Sessions : CacheOk(thinking[s], kept[s], disturbed)

\* Whose reasoning and tool calls a buffer contains.
Contents(b) == b.text \cup b.completed \cup P!Elements(b.ids)

Buffer == [text : SUBSET Requests, completed : SUBSET Requests, ids : Seq(Requests)]

\* A buffer contains what its owner emitted and what disturbed requests did.
BuffersInv ==
    /\ buffer \in [Protocols -> Buffer]
    /\ owner \in [Protocols -> Requests \cup {NoId}]
    /\ \A p \in Protocols :
          /\ P!Distinct(buffer[p].ids)
          /\ \A q \in P!Elements(buffer[p].ids) :
                plan[q].protocol = p /\ emitted[q] = Len(Events(p))
          /\ Contents(buffer[p]) \subseteq {owner[p]} \cup disturbed
          /\ owner[p] \notin disturbed => Contents(buffer[p]) \subseteq {owner[p]}
    /\ \A r \in Requests :
          plan[r].stream /\ pc[r] \in {"streaming", "remember", "fallback", "chatBuffer", "done"}
              => owner[plan[r].protocol] \in Requests

ReplayInv ==
    /\ SM!TypeOK /\ HandlersInv /\ LookupsInv /\ CachesInv /\ BuffersInv /\ FaithfulReplay

-----------------------------------------------------------------------------
\* Newest keeps everything or fills the order up to the limit.
LEMMA NewestKeepsOrFills ==
    ASSUME NEW X, NEW s \in Seq(X)
    PROVE  /\ Len(s) >= Limit => Len(P!Newest(s)) = Limit
           /\ P!Elements(P!Newest(s)) = P!Elements(s) \/ Len(P!Newest(s)) = Limit
<1>1. /\ Len(P!Newest(s)) = Len(s) - P!Dropped(Len(s)) /\ Len(s) \in Nat
  BY SessionConstants, P!NewestShape, LenProperties
<1>2. CASE Len(s) <= Limit
  BY <1>2, SessionConstants, P!NewestWithinLimit, LimitIsNatural, LenProperties
<1>3. CASE ~ (Len(s) <= Limit)
  BY <1>1, <1>3, LimitIsNatural DEF P!Dropped
<1> QED
  BY <1>2, <1>3

\* Remembering a block of the right turn keeps a cache as it should be.
LEMMA RememberKeepsCache ==
    ASSUME NEW state, NEW turns, NEW mixed, CacheOk(state, turns, mixed),
           NEW ids \in Seq(Requests), P!Distinct(ids), NEW block,
           \A id \in P!Elements(ids) \ mixed : block \in {{}, {id}},
           NEW after, after = T!RememberForToolCalls(state, ids, block)
    PROVE  /\ CacheOk(after, turns, mixed)
           /\ block # {} => CacheOk(after, turns \cup P!Elements(ids), mixed)
<1> DEFINE named == P!Without(ids, {NoId})
<1>1. NoId \notin Requests /\ ids \in Seq(Requests \cup {NoId})
  <2>1. NoId \notin Requests
    BY ConstantsAssumption DEF ConstantsAssumption
  <2>2. P!Elements(ids) \subseteq Requests \cup {NoId}
    BY ElementOfSeq DEF P!Elements
  <2> QED
    BY <2>1, <2>2, SessionConstants, P!SeqOfElements
<1>2. /\ named \in Seq(Requests) /\ P!Distinct(named) /\ P!Elements(named) = P!Elements(ids) \ {NoId}
  BY <1>1, SessionConstants, P!NamedShape
<1>3. P!Elements(ids) \subseteq Requests /\ P!Elements(named) = P!Elements(ids)
  <2>1. P!Elements(ids) \subseteq Requests
    BY ElementOfSeq DEF P!Elements
  <2> QED
    BY <1>1, <1>2, <2>1
<1>4. after = IF block = {} \/ ids = <<>> THEN state ELSE P!WithRecords(state, named, block)
  BY SameCache
<1> HIDE DEF named
<1>5. CASE block = {} \/ ids = <<>>
  <2>1. after = state
    BY <1>4, <1>5
  <2>2. ids = <<>> => P!Elements(ids) = {}
    BY EmptySeq DEF P!Elements
  <2>3. ids = <<>> => turns \cup P!Elements(ids) = turns
    BY <2>2
  <2> QED
    BY <1>5, <2>1, <2>3
<1>6. CASE ~ (block = {} \/ ids = <<>>)
  <2>1. P!IsCache(state, Requests, {}) /\ after = P!WithRecords(state, named, block)
    BY <1>4, <1>6 DEF CacheOk
  <2>2. /\ P!IsCache(after, Requests, {})
        /\ P!Overwrites(state.records, after.records, P!Elements(ids), block)
        /\ after.order = P!Newest(state.order \o P!Without(named, DOMAIN state.records))
    BY <1>2, <1>3, <2>1, SessionConstants, P!ToolCallsRemembered
  <2>3. \A id \in DOMAIN after.records :
          after.records[id] # {} /\ (id \notin mixed => after.records[id] = {id})
    BY <1>6, <2>2 DEF P!Overwrites, CacheOk
  <2> DEFINE fresh == P!Without(named, DOMAIN state.records)
  <2>4. /\ state.order \in Seq(Requests) /\ DOMAIN state.records = P!Elements(state.order)
        /\ DOMAIN after.records = P!Elements(after.order)
    BY <2>1, <2>2 DEF P!IsCache, P!Holds
  <2>5. fresh \in Seq(Requests) /\ P!Elements(fresh) = P!Elements(ids) \ DOMAIN state.records
    BY <1>2, <1>3, SessionConstants, P!WithoutShape
  <2>6. after.order = P!Newest(state.order \o fresh)
    BY <2>2
  <2> HIDE DEF fresh
  <2>7. /\ state.order \o fresh \in Seq(Requests)
        /\ P!Elements(state.order \o fresh) = P!Elements(state.order) \cup P!Elements(fresh)
        /\ Len(state.order \o fresh) = Len(state.order) + Len(fresh)
        /\ Len(state.order) \in Nat /\ Len(fresh) \in Nat
    <3>1. /\ state.order \o fresh \in Seq(Requests)
          /\ Len(state.order \o fresh) = Len(state.order) + Len(fresh)
          /\ Len(state.order) \in Nat /\ Len(fresh) \in Nat
      BY <2>4, <2>5, ConcatProperties, LenProperties
    <3>2. P!Elements(state.order \o fresh) = P!Elements(state.order) \cup P!Elements(fresh)
      BY <2>4, <2>5, SessionConstants, P!ConcatShape
    <3> QED
      BY <3>1, <3>2
  <2>8. DOMAIN after.records = DOMAIN state.records \cup P!Elements(ids) \/ Len(after.order) = Limit
    BY <2>4, <2>5, <2>6, <2>7, NewestKeepsOrFills
  <2>9. Len(state.order) = Limit => Len(after.order) = Limit
    <3>1. Len(state.order \o fresh) >= Limit => Len(after.order) = Limit
      BY <2>6, <2>7, NewestKeepsOrFills
    <3>2. Len(state.order) = Limit => Len(state.order \o fresh) >= Limit
      BY <2>7, LimitIsNatural
    <3> QED
      BY <3>1, <3>2
  <2>10. turns \subseteq Requests /\ (turns \subseteq DOMAIN state.records \/ Len(state.order) = Limit)
    BY DEF CacheOk
  <2>11. turns \cup P!Elements(ids) \subseteq DOMAIN after.records \/ Len(after.order) = Limit
    BY <2>8, <2>9, <2>10
  <2> QED
    BY <1>3, <2>2, <2>3, <2>10, <2>11 DEF CacheOk
<1> QED
  BY <1>5, <1>6

LEMMA EmptyCacheOk == ASSUME NEW mixed PROVE CacheOk(T!EmptyState, {}, mixed)
BY SessionConstants, SameCache, P!EmptyIsCache DEF CacheOk, T!EmptyState

\* Caches of objects that became unreachable are reset.
LEMMA CollectKeepsCaches ==
    ASSUME CachesInv, Collect, UNCHANGED disturbed
    PROVE  CachesInv'
<1>1. DOMAIN thinking' = Sessions /\ DOMAIN kept' = Sessions
  BY DEF Collect
<1>2. ASSUME NEW s \in Sessions PROVE CacheOk(thinking'[s], kept'[s], disturbed)
  <2>1. \/ thinking'[s] = thinking[s] /\ kept'[s] = kept[s]
        \/ thinking'[s] = T!EmptyState /\ kept'[s] = {}
    BY DEF Collect
  <2> QED
    BY <2>1, EmptyCacheOk DEF CachesInv
<1> QED
  BY <1>1, <1>2 DEF CachesInv

\* A handler remembers its own turn from its response.
LEMMA OwnTurnKeepsCaches ==
    ASSUME CachesInv, NEW r \in Requests, NEW s, Remember(s, <<r>>, {r}),
           kept' = [kept EXCEPT ![s] = @ \cup {r}], UNCHANGED disturbed
    PROVE  CachesInv'
<1>1. <<r>> \in Seq(Requests) /\ P!Distinct(<<r>>) /\ P!Elements(<<r>>) = {r}
  BY DEF P!Distinct, P!Elements
<1>2. DOMAIN thinking' = Sessions /\ DOMAIN kept' = Sessions
  BY DEF Remember, CachesInv
<1>3. ASSUME NEW o \in Sessions PROVE CacheOk(thinking'[o], kept'[o], disturbed)
  <2>1. CacheOk(thinking[o], kept[o], disturbed)
    BY DEF CachesInv
  <2>2. CASE o = s
    <3>1. thinking'[o] = T!RememberForToolCalls(thinking[o], <<r>>, {r}) /\ kept'[o] = kept[o] \cup {r}
      BY <2>2 DEF Remember, CachesInv
    <3>2. \A id \in P!Elements(<<r>>) \ disturbed : {r} \in {{}, {id}}
      BY <1>1
    <3>3. {r} # {}
      OBVIOUS
    <3>4. CacheOk(thinking'[o], kept[o] \cup P!Elements(<<r>>), disturbed)
      BY <1>1, <2>1, <3>1, <3>2, <3>3, RememberKeepsCache
    <3> QED
      BY <1>1, <3>1, <3>4
  <2>3. CASE o # s
    BY <2>1, <2>3 DEF Remember, CachesInv
  <2> QED
    BY <2>2, <2>3
<1> QED
  BY <1>2, <1>3 DEF CachesInv

\* The block that is read from a buffer for its tool calls is theirs.
LEMMA BlockOfBuffer ==
    ASSUME BuffersInv, NEW p \in Protocols, NEW block,
           block \subseteq buffer[p].text \/ block \subseteq buffer[p].completed
    PROVE  /\ buffer[p].ids \in Seq(Requests) /\ P!Distinct(buffer[p].ids)
           /\ \A id \in P!Elements(buffer[p].ids) \ disturbed : block \in {{}, {id}}
<1>1. /\ Contents(buffer[p]) \subseteq {owner[p]} \cup disturbed
      /\ owner[p] \notin disturbed => Contents(buffer[p]) \subseteq {owner[p]}
      /\ buffer[p].ids \in Seq(Requests) /\ P!Distinct(buffer[p].ids)
  BY DEF BuffersInv, Buffer
<1>2. ASSUME NEW id \in P!Elements(buffer[p].ids) \ disturbed PROVE block \in {{}, {id}}
  <2>1. id = owner[p] /\ owner[p] \notin disturbed
    BY <1>1, <1>2 DEF Contents
  <2>2. block \subseteq {id}
    BY <1>1, <2>1 DEF Contents
  <2> QED
    BY <2>2
<1> QED
  BY <1>1, <1>2

-----------------------------------------------------------------------------
LEMMA ReplayInit == ASSUME Init PROVE ReplayInv
<1>1. SM!TypeOK
  <2>1. SM!Init
    BY DEF Init
  <2>2. P!Init => P!TypeOK
    BY SessionConstants, P!InitIsTyped
  <2> QED
    BY <2>1, <2>2, SameTable
<1>2. HandlersInv
  BY DEF Init, HandlersInv, Places
<1>3. LookupsInv
  BY DEF Init, SM!Init, LookupsInv, HasAdapter, HasStream, SessionAt
<1>4. CachesInv
  BY EmptyCacheOk DEF Init, CachesInv
<1>5. BuffersInv
  <2>1. <<>> \in Seq(Requests) /\ P!Distinct(<<>>) /\ P!Elements(<<>>) = {}
    BY EmptySeq DEF P!Distinct, P!Elements
  <2>2. EmptyBuffer \in Buffer /\ EmptyBuffer.ids = <<>> /\ Contents(EmptyBuffer) = {}
    BY <2>1 DEF EmptyBuffer, Buffer, Contents
  <2>3. \A p \in Protocols : buffer[p] = EmptyBuffer /\ owner[p] = NoId
    BY DEF Init
  <2>4. buffer \in [Protocols -> Buffer] /\ owner \in [Protocols -> Requests \cup {NoId}]
    BY <2>2 DEF Init
  <2>5. \A r \in Requests : pc[r] = "idle"
    BY DEF Init
  <2> QED
    BY <2>1, <2>2, <2>3, <2>4, <2>5 DEF BuffersInv
<1>6. FaithfulReplay
  BY DEF Init, FaithfulReplay
<1> QED
  BY <1>1, <1>2, <1>3, <1>4, <1>5, <1>6 DEF ReplayInv

\* What a handler sends is the thinking of the turn it belongs to.
LEMMA CachedIsFaithful ==
    ASSUME CachesInv, NEW s \in Sessions, NEW id, id \notin disturbed
    PROVE  T!CachedForToolCall(thinking[s], id) \in {{}, {id}}
BY DEF CachesInv, CacheOk, T!CachedForToolCall

\* The plans are what the assumption on them says.
LEMMA PlanShape ==
    ASSUME HandlersInv, NEW r \in Requests
    PROVE  /\ plan[r].protocol \in Protocols /\ plan[r].stream \in BOOLEAN
           /\ Conv(r) \in Keys \cup {NoKey} /\ plan \in [Requests -> Plan]
BY PlansAssumption DEF HandlersInv, Plan, Conv


\* What a step does to the table of sessions: nothing, a step of a lookup, or
\* the end of a handler.
LEMMA TableSteps ==
    ASSUME Next
    PROVE  \/ UNCHANGED sessionVars
           \/ \E r \in Requests, site \in Sites :
                 LookupEphemeral(r, site) \/ LookupBegin(r, site) \/ LookupEnd(r, site)
           \/ \E r \in Requests, outcome \in {"done", "failed"} : Finish(r, outcome)
BY DEF Next, Arrive, Replay, ReplayAgain, FailUpstream, RememberResponse, WriteResponse, OpenStream,
       Emit, Deliver, Abort, RememberStreamed, RememberFallback, CacheChatBuffer

LEMMA FinishKeepsTypes ==
    ASSUME SM!TypeOK, NEW r \in Requests, NEW outcome, Finish(r, outcome)
    PROVE  SM!TypeOK'
BY DEF Finish, SM!TypeOK, SM!Tables, SM!Entry, SM!Instants, SM!Lookup, SM!Pruner

LEMMA TableStep == ASSUME ReplayInv, Next PROVE SM!TypeOK'
<1>1. P!TypeOK /\ SM!TypeOK
  BY SameTable DEF ReplayInv
<1>2. ASSUME NEW r \in Requests, NEW site \in Sites,
             LookupEphemeral(r, site) \/ LookupBegin(r, site) \/ LookupEnd(r, site)
      PROVE  SM!TypeOK'
  <2>1. <<r, site>> \in Requests \X Sites /\ Conv(r) \in Keys \cup {NoKey}
    BY PlanShape DEF ReplayInv
  <2>2. P!NewEphemeral(<<r, site>>) \/ P!ReadClock(<<r, site>>, Conv(r)) \/ P!GetOrCreate(<<r, site>>)
    BY <1>2, SameTable DEF LookupEphemeral, LookupBegin, LookupEnd
  <2>3. Conv(r) \in Keys \/ ~ P!ReadClock(<<r, site>>, Conv(r)) \/ P!NewEphemeral(<<r, site>>)
            \/ P!GetOrCreate(<<r, site>>)
    BY <1>2, <2>1, SameTable DEF LookupEphemeral, LookupBegin, LookupEnd
  <2>4. P!Next
    BY <2>1, <2>2, <2>3 DEF P!Next
  <2>5. P!TypeOK'
    BY <1>1, <2>4, SessionConstants, P!TypeStep
  <2>6. P!TypeOK' => SM!TypeOK'
    BY DEF SM!TypeOK, P!TypeOK, SM!Tables, P!Tables, SM!Entry, P!Entry, SM!Instants, P!Instants,
           SM!Lookup, P!Lookup, SM!Pruner, P!Pruner
  <2> QED
    BY <2>5, <2>6
<1>3. CASE UNCHANGED sessionVars
  BY <1>1, <1>3 DEF sessionVars, SM!TypeOK, SM!Tables, SM!Entry, SM!Instants, SM!Lookup, SM!Pruner
<1>4. ASSUME NEW r \in Requests, NEW outcome \in {"done", "failed"}, Finish(r, outcome)
      PROVE  SM!TypeOK'
  BY <1>1, <1>4, FinishKeepsTypes
<1> QED
  BY <1>2, <1>3, <1>4, TableSteps

\* The places a lookup leads to.
LEMMA AfterShape ==
    ASSUME NEW site \in Sites
    PROVE  /\ After[site] \in {"adapter", "replay", "again"}
           /\ After[site] = "adapter" <=> site = "dispatch"
           /\ After[site] = "replay" <=> site = "adapter"
           /\ After[site] = "again" <=> site = "stream"
BY DEF After, Sites

LEMMA HandlersStep == ASSUME ReplayInv, Next PROVE HandlersInv'
<1>1. HandlersInv
  BY DEF ReplayInv
<1>2. ASSUME NEW r \in Requests, Arrive(r) PROVE HandlersInv'
  BY <1>1, <1>2 DEF Arrive, HandlersInv, Places, bufferVars
<1>3. ASSUME NEW r \in Requests, NEW site \in Sites, LookupEphemeral(r, site) \/ LookupEnd(r, site)
      PROVE  HandlersInv'
  <2>1. /\ pc[r] = site /\ pc' = [pc EXCEPT ![r] = After[site]]
        /\ UNCHANGED <<plan, history, sent, emitted, answered, disturbed>>
    BY <1>3 DEF LookupEphemeral, LookupEnd, bufferVars
  <2>2. After[site] \in Places /\ After[site] \notin {"stream", "idle", "call", "write"}
        /\ (After[site] = "again" => site = "stream")
    BY AfterShape DEF Places
  <2> QED
    BY <1>1, <2>1, <2>2 DEF HandlersInv
<1>4. ASSUME NEW r \in Requests, NEW site \in Sites, LookupBegin(r, site) PROVE HandlersInv'
  BY <1>1, <1>4 DEF LookupBegin, HandlersInv, requestVars, bufferVars
<1>5. ASSUME NEW r \in Requests, Replay(r) PROVE HandlersInv'
  BY <1>1, <1>5 DEF Replay, HandlersInv, Places, Cached, bufferVars
<1>6. ASSUME NEW r \in Requests, ReplayAgain(r) PROVE HandlersInv'
  BY <1>1, <1>6 DEF ReplayAgain, HandlersInv, Places, bufferVars
<1>7. ASSUME NEW r \in Requests, FailUpstream(r) PROVE HandlersInv'
  BY <1>1, <1>7 DEF FailUpstream, Finish, HandlersInv, Places, bufferVars
<1>8. ASSUME NEW r \in Requests, RememberResponse(r) PROVE HandlersInv'
  BY <1>1, <1>8 DEF RememberResponse, HandlersInv, Places, bufferVars
<1>9. ASSUME NEW r \in Requests, WriteResponse(r) PROVE HandlersInv'
  BY <1>1, <1>9 DEF WriteResponse, Finish, HandlersInv, Places, bufferVars
<1>10. ASSUME NEW r \in Requests, OpenStream(r) PROVE HandlersInv'
  BY <1>1, <1>10 DEF OpenStream, HandlersInv, Places
<1>11. ASSUME NEW r \in Requests, Emit(r) PROVE HandlersInv'
  <2>1. owner[plan[r].protocol] \in Requests
    BY <1>11 DEF Emit, ReplayInv, BuffersInv
  <2> QED
    BY <1>1, <1>11, <2>1 DEF Emit, HandlersInv
<1>12. ASSUME NEW r \in Requests, Deliver(r) PROVE HandlersInv'
  BY <1>1, <1>12 DEF Deliver, HandlersInv, Places, bufferVars
<1>13. ASSUME NEW r \in Requests, Abort(r) PROVE HandlersInv'
  BY <1>1, <1>13 DEF Abort, HandlersInv, Places, bufferVars
<1>14. ASSUME NEW r \in Requests, RememberStreamed(r) PROVE HandlersInv'
  BY <1>1, <1>14 DEF RememberStreamed, HandlersInv, Places, bufferVars
<1>15. ASSUME NEW r \in Requests, RememberFallback(r) PROVE HandlersInv'
  BY <1>1, <1>15 DEF RememberFallback, HandlersInv, Places, bufferVars
<1>16. ASSUME NEW r \in Requests, CacheChatBuffer(r) PROVE HandlersInv'
  BY <1>1, <1>16 DEF CacheChatBuffer, Finish, HandlersInv, Places, bufferVars
<1> QED
  BY <1>2, <1>3, <1>4, <1>5, <1>6, <1>7, <1>8, <1>9, <1>10, <1>11, <1>12, <1>13, <1>14, <1>15, <1>16
    DEF Next

\* Nothing expires and, without a limit, nothing is evicted.
LEMMA NothingExpires ==
    ASSUME SM!TypeOK, LookupsInv, NEW now, now = 0
    PROVE  SM!Unexpired(now) = sessions
<1>1. ttl \in Nat \ {0}
  BY ConstantsAssumption DEF ConstantsAssumption, SM!TypeOK
<1>2. \A k \in DOMAIN sessions : ~ SM!Expired(sessions[k], now)
  BY <1>1 DEF SM!Expired, LookupsInv
<1>3. sessions = [k \in DOMAIN sessions |-> sessions[k]]
  BY DEF SM!TypeOK, SM!Tables
<1> QED
  BY <1>2, <1>3 DEF SM!Unexpired, SM!WithoutKeys

\* A step that leaves the handlers where they are, or moves one between places
\* that have made the same lookups.
LEMMA SameLookups ==
    ASSUME LookupsInv, UNCHANGED <<sessionVars, plan>>,
           NEW r \in Requests, NEW place, pc' = [pc EXCEPT ![r] = place] \/ pc' = pc,
           pc \in [Requests -> Places],
           place \in HasAdapter => pc[r] \in HasAdapter,
           place \in HasStream => pc[r] \in HasStream
    PROVE  LookupsInv'
<1>1. \A q \in Requests : /\ pc'[q] \in HasAdapter => pc[q] \in HasAdapter
                          /\ pc'[q] \in HasStream => pc[q] \in HasStream
  OBVIOUS
<1> QED
  BY <1>1 DEF LookupsInv, sessionVars, SessionAt, Conv

\* The lookup of a request without a key.
LEMMA EphemeralKeepsLookups ==
    ASSUME ReplayInv, NEW r \in Requests, NEW site \in Sites, LookupEphemeral(r, site)
    PROVE  LookupsInv'
<1>1. /\ LookupsInv /\ pc \in [Requests -> Places] /\ held \in [Requests \X Sites -> {NoSession} \cup Sessions]
  BY DEF ReplayInv, HandlersInv, SM!TypeOK
<1>2. PICK s \in Sessions : held' = [held EXCEPT ![<<r, site>>] = s]
  BY DEF LookupEphemeral, SM!NewEphemeral, SM!Allocatable
<1>3. /\ pc[r] = site /\ pc' = [pc EXCEPT ![r] = After[site]] /\ Conv(r) = NoKey
      /\ UNCHANGED <<clock, sessions, maxSessions, ttl, lookup, plan>>
  BY DEF LookupEphemeral, SM!NewEphemeral
<1>4. <<r, site>> \in Requests \X Sites
  OBVIOUS
<1>5. \A c \in Requests \X Sites : held'[c] = IF c = <<r, site>> THEN s ELSE held[c]
  BY <1>1, <1>2
<1>6. \A q \in Requests : Conv(q)' = Conv(q)
  BY <1>3 DEF Conv
<1>7. ASSUME NEW q \in Requests, pc'[q] \in HasAdapter PROVE SessionAt(q, "adapter")' \in Sessions
  <2>1. <<q, "adapter">> \in Requests \X Sites
    BY DEF Sites
  <2>2. CASE q = r /\ site = "adapter"
    BY <1>5, <2>1, <2>2 DEF SessionAt
  <2>3. CASE ~ (q = r /\ site = "adapter")
    <3>1. pc[q] \in HasAdapter
      BY <1>1, <1>3, <1>7, <2>3, AfterShape DEF HasAdapter, Sites
    <3>2. held'[<<q, "adapter">>] = held[<<q, "adapter">>]
      BY <1>5, <2>1, <2>3
    <3> QED
      BY <1>1, <3>1, <3>2 DEF LookupsInv, SessionAt
  <2> QED
    BY <2>2, <2>3
<1>8. ASSUME NEW q \in Requests, pc'[q] \in HasStream PROVE SessionAt(q, "stream")' \in Sessions
  <2>1. <<q, "stream">> \in Requests \X Sites
    BY DEF Sites
  <2>2. CASE q = r /\ site = "stream"
    BY <1>5, <2>1, <2>2 DEF SessionAt
  <2>3. CASE ~ (q = r /\ site = "stream")
    <3>1. pc[q] \in HasStream
      BY <1>1, <1>3, <1>8, <2>3, AfterShape DEF HasStream, Sites
    <3>2. held'[<<q, "stream">>] = held[<<q, "stream">>]
      BY <1>5, <2>1, <2>3
    <3> QED
      BY <1>1, <3>1, <3>2 DEF LookupsInv, SessionAt
  <2> QED
    BY <2>2, <2>3
<1>9. \A c \in Requests \X Sites : Conv(c[1]) # NoKey => held'[c] = held[c]
  BY <1>3, <1>5
<1> QED
  BY <1>1, <1>3, <1>6, <1>7, <1>8, <1>9 DEF LookupsInv

\* The lookup of a request with a key, before the mutex.
LEMMA BeginKeepsLookups ==
    ASSUME ReplayInv, NEW r \in Requests, NEW site \in Sites, LookupBegin(r, site)
    PROVE  LookupsInv'
<1>1. LookupsInv /\ lookup \in [Requests \X Sites -> {Idle} \cup SM!Lookup]
  BY DEF ReplayInv, SM!TypeOK
<1>2. /\ lookup' = [lookup EXCEPT ![<<r, site>>] = [key |-> Conv(r), now |-> 0]]
      /\ UNCHANGED <<clock, sessions, maxSessions, held, pc, plan>>
  BY <1>1 DEF LookupBegin, SM!ReadClock, LookupsInv, requestVars
<1>3. \A c \in Requests \X Sites : lookup'[c] # Idle => lookup'[c].now = 0 /\ lookup'[c].key = Conv(c[1])
  BY <1>1, <1>2 DEF LookupsInv
<1> QED
  BY <1>1, <1>2, <1>3 DEF LookupsInv, SessionAt, Conv

\* The lookup of a request with a key, under the mutex: whatever other handlers
\* hold stays what the table has, unless something was evicted.
LEMMA EndKeepsLookups ==
    ASSUME ReplayInv, NEW r \in Requests, NEW site \in Sites, LookupEnd(r, site)
    PROVE  LookupsInv'
<1> DEFINE c == <<r, site>>
           k == lookup[c].key
<1>1. /\ LookupsInv /\ pc \in [Requests -> Places]
      /\ held \in [Requests \X Sites -> {NoSession} \cup Sessions]
      /\ lookup \in [Requests \X Sites -> {Idle} \cup SM!Lookup]
      /\ c \in Requests \X Sites /\ NoSession \notin Sessions
  BY ConstantsAssumption DEF ReplayInv, HandlersInv, SM!TypeOK, ConstantsAssumption
<1>2. /\ pc[r] = site /\ pc' = [pc EXCEPT ![r] = After[site]]
      /\ UNCHANGED <<clock, maxSessions, ttl, plan>>
      /\ lookup[c] # Idle /\ lookup' = [lookup EXCEPT ![c] = Idle]
      /\ SM!Hit(c) \/ SM!Create(c)
  BY DEF LookupEnd, SM!GetOrCreate
<1>3. k = Conv(r) /\ lookup[c].now = 0
  BY <1>1, <1>2 DEF LookupsInv
<1>4. SM!Unexpired(lookup[c].now) = sessions
  BY <1>3, NothingExpires DEF ReplayInv
<1>5. \A q \in DOMAIN sessions : sessions[q] \in SM!Entry
  BY DEF ReplayInv, SM!TypeOK, SM!Tables
<1> HIDE DEF c
<1>6. /\ \E s \in Sessions : held' = [held EXCEPT ![c] = s] /\ k \in DOMAIN sessions' /\ sessions'[k].sess = s
      /\ \A q \in DOMAIN sessions' : sessions'[q].lastUsed = 0
      /\ maxSessions = 0 => \A q \in DOMAIN sessions :
            q \in DOMAIN sessions' /\ sessions'[q].sess = sessions[q].sess
  <2>1. CASE SM!Hit(c)
    <3>1. /\ k \in DOMAIN sessions
          /\ sessions' = [sessions EXCEPT ![k].lastUsed = 0]
          /\ held' = [held EXCEPT ![c] = sessions[k].sess]
      BY <1>3, <1>4, <2>1 DEF SM!Hit
    <3>2. sessions[k].sess \in Sessions
      BY <1>5, <3>1 DEF SM!Entry
    <3>3. /\ DOMAIN sessions' = DOMAIN sessions
          /\ \A q \in DOMAIN sessions : /\ sessions'[q].sess = sessions[q].sess
                                        /\ sessions'[q].lastUsed = 0
      BY <1>1, <1>5, <3>1 DEF SM!Entry, LookupsInv
    <3> QED
      BY <3>1, <3>2, <3>3
  <2>2. CASE SM!Create(c)
    <3>1. PICK E \in SM!Evictions(sessions), s \in Sessions :
            /\ k \notin DOMAIN sessions
            /\ sessions' = SM!Put(SM!WithoutKeys(sessions, E), k, [sess |-> s, lastUsed |-> 0])
            /\ held' = [held EXCEPT ![c] = s]
      BY <1>3, <1>4, <2>2 DEF SM!Create, SM!Allocatable
    <3>2. /\ DOMAIN sessions' = (DOMAIN sessions \ E) \cup {k}
          /\ sessions'[k] = [sess |-> s, lastUsed |-> 0]
          /\ \A q \in DOMAIN sessions \ E : sessions'[q] = sessions[q]
      BY <3>1 DEF SM!Put, SM!WithoutKeys
    <3>3. maxSessions = 0 => E = {}
      BY <3>1 DEF SM!Evictions
    <3>4. \A q \in DOMAIN sessions' : sessions'[q].lastUsed = 0
      BY <1>1, <3>2 DEF LookupsInv
    <3>5. k \in DOMAIN sessions' /\ sessions'[k].sess = s
      BY <3>2
    <3>6. \A q \in DOMAIN sessions : maxSessions = 0 =>
              q \in DOMAIN sessions' /\ sessions'[q].sess = sessions[q].sess
      BY <3>2, <3>3
    <3> HIDE DEF k
    <3> QED
      BY <3>1, <3>4, <3>5, <3>6
  <2> QED
    BY <1>2, <2>1, <2>2
<1>7. PICK s \in Sessions : held' = [held EXCEPT ![c] = s] /\ k \in DOMAIN sessions' /\ sessions'[k].sess = s
  BY <1>6
<1>8. \A b \in Requests \X Sites : held'[b] = IF b = c THEN s ELSE held[b]
  BY <1>1, <1>7
<1>9. \A q \in Requests : Conv(q)' = Conv(q)
  BY <1>2 DEF Conv
<1>10. ASSUME NEW q \in Requests, pc'[q] \in HasAdapter PROVE SessionAt(q, "adapter")' \in Sessions
  <2>1. <<q, "adapter">> \in Requests \X Sites
    BY DEF Sites
  <2>2. CASE q = r /\ site = "adapter"
    BY <1>8, <2>1, <2>2 DEF SessionAt, c
  <2>3. CASE ~ (q = r /\ site = "adapter")
    <3>1. pc[q] \in HasAdapter
      BY <1>1, <1>2, <1>10, <2>3, AfterShape DEF HasAdapter, Sites
    <3>2. held'[<<q, "adapter">>] = held[<<q, "adapter">>]
      BY <1>8, <2>1, <2>3 DEF c
    <3> QED
      BY <1>1, <3>1, <3>2 DEF LookupsInv, SessionAt
  <2> QED
    BY <2>2, <2>3
<1>11. ASSUME NEW q \in Requests, pc'[q] \in HasStream PROVE SessionAt(q, "stream")' \in Sessions
  <2>1. <<q, "stream">> \in Requests \X Sites
    BY DEF Sites
  <2>2. CASE q = r /\ site = "stream"
    BY <1>8, <2>1, <2>2 DEF SessionAt, c
  <2>3. CASE ~ (q = r /\ site = "stream")
    <3>1. pc[q] \in HasStream
      BY <1>1, <1>2, <1>11, <2>3, AfterShape DEF HasStream, Sites
    <3>2. held'[<<q, "stream">>] = held[<<q, "stream">>]
      BY <1>8, <2>1, <2>3 DEF c
    <3> QED
      BY <1>1, <3>1, <3>2 DEF LookupsInv, SessionAt
  <2> QED
    BY <2>2, <2>3
<1>12. ASSUME maxSessions = 0, NEW b \in Requests \X Sites, Conv(b[1]) # NoKey, held'[b] # NoSession
       PROVE  Conv(b[1]) \in DOMAIN sessions' /\ held'[b] = sessions'[Conv(b[1])].sess
  <2>1. CASE b = c
    <3>1. b[1] = r
      BY <2>1 DEF c
    <3> QED
      BY <1>3, <1>7, <1>8, <2>1, <3>1
  <2>2. CASE b # c
    <3>1. held'[b] = held[b]
      BY <1>8, <2>2
    <3>2. Conv(b[1]) \in DOMAIN sessions /\ held[b] = sessions[Conv(b[1])].sess
      BY <1>1, <1>12, <3>1 DEF LookupsInv
    <3> QED
      BY <1>6, <1>12, <3>1, <3>2
  <2> QED
    BY <2>1, <2>2
<1>13. \A b \in Requests \X Sites : lookup'[b] # Idle => lookup'[b] = lookup[b]
  BY <1>1, <1>2
<1>14. \A b \in Requests \X Sites : b[1] \in Requests
  OBVIOUS
<1> QED
  BY <1>1, <1>2, <1>6, <1>9, <1>10, <1>11, <1>12, <1>13, <1>14 DEF LookupsInv

\* The end of a handler leaves what the others hold.
LEMMA FinishKeepsLookups ==
    ASSUME ReplayInv, NEW r \in Requests, NEW outcome \in {"done", "failed"}, Finish(r, outcome),
           UNCHANGED plan
    PROVE  LookupsInv'
<1>1. LookupsInv /\ pc \in [Requests -> Places]
  BY DEF ReplayInv, HandlersInv
<1>2. /\ pc' = [pc EXCEPT ![r] = outcome]
      /\ held' = [h \in Requests \X Sites |-> IF h[1] = r THEN NoSession ELSE held[h]]
      /\ UNCHANGED <<clock, sessions, maxSessions, lookup, plan>>
  BY DEF Finish
<1>3. \A q \in Requests : /\ pc'[q] \in HasAdapter => q # r /\ pc[q] \in HasAdapter
                          /\ pc'[q] \in HasStream => q # r /\ pc[q] \in HasStream
  BY <1>1, <1>2 DEF HasAdapter, HasStream
<1>4. \A q \in Requests, site \in Sites : q # r => held'[<<q, site>>] = held[<<q, site>>]
  BY <1>2
<1>5. \A q \in Requests : Conv(q)' = Conv(q)
  BY <1>2 DEF Conv
<1>6. /\ \A q \in Requests : pc'[q] \in HasAdapter => SessionAt(q, "adapter")' \in Sessions
      /\ \A q \in Requests : pc'[q] \in HasStream => SessionAt(q, "stream")' \in Sessions
  BY <1>1, <1>3, <1>4 DEF LookupsInv, SessionAt, Sites
<1>7. \A b \in Requests \X Sites : held'[b] # NoSession => held'[b] = held[b]
  BY <1>2
<1>8. \A b \in Requests \X Sites : b[1] \in Requests
  OBVIOUS
<1> QED
  BY <1>1, <1>2, <1>5, <1>6, <1>7, <1>8 DEF LookupsInv

LEMMA LookupsStep == ASSUME ReplayInv, Next PROVE LookupsInv'
<1>1. LookupsInv /\ pc \in [Requests -> Places] /\ HandlersInv
  BY DEF ReplayInv, HandlersInv
<1>2. ASSUME NEW r \in Requests, Arrive(r) PROVE LookupsInv'
  <2>1. pc' = [pc EXCEPT ![r] = "dispatch"] /\ UNCHANGED <<sessionVars, plan>>
    BY <1>2 DEF Arrive
  <2>2. "dispatch" \notin HasAdapter /\ "dispatch" \notin HasStream
    BY DEF HasAdapter, HasStream
  <2> QED
    BY <1>1, <2>1, <2>2, SameLookups
<1>3. ASSUME NEW r \in Requests, NEW site \in Sites,
             LookupEphemeral(r, site) \/ LookupBegin(r, site) \/ LookupEnd(r, site)
      PROVE  LookupsInv'
  BY <1>3, EphemeralKeepsLookups, BeginKeepsLookups, EndKeepsLookups
<1>4. ASSUME NEW r \in Requests, Replay(r) \/ ReplayAgain(r) \/ RememberResponse(r) \/ OpenStream(r)
                \/ Emit(r) \/ Deliver(r) \/ Abort(r) \/ RememberStreamed(r) \/ RememberFallback(r)
      PROVE  LookupsInv'
  <2>1. /\ UNCHANGED <<sessionVars, plan>>
        /\ \E place \in Places : /\ pc' = [pc EXCEPT ![r] = place] \/ pc' = pc
                                 /\ place \in HasAdapter => pc[r] \in HasAdapter
                                 /\ place \in HasStream => pc[r] \in HasStream
    <3>1. CASE Replay(r)
      BY <3>1 DEF Replay, HasAdapter, HasStream, Places
    <3>2. CASE ReplayAgain(r)
      BY <3>2 DEF ReplayAgain, HasAdapter, HasStream, Places
    <3>3. CASE RememberResponse(r)
      BY <3>3 DEF RememberResponse, HasAdapter, HasStream, Places
    <3>4. CASE OpenStream(r)
      BY <3>4 DEF OpenStream, HasAdapter, HasStream, Places
    <3>5. CASE Emit(r)
      <4>1. pc' = pc /\ UNCHANGED <<sessionVars, plan>> /\ "idle" \in Places
        BY <3>5 DEF Emit, Places
      <4>2. "idle" \notin HasAdapter /\ "idle" \notin HasStream
        BY DEF HasAdapter, HasStream
      <4> QED
        BY <4>1, <4>2
    <3>6. CASE Deliver(r)
      BY <3>6 DEF Deliver, HasAdapter, HasStream, Places
    <3>7. CASE Abort(r)
      BY <3>7 DEF Abort, HasAdapter, HasStream, Places
    <3>8. CASE RememberStreamed(r)
      BY <3>8 DEF RememberStreamed, HasAdapter, HasStream, Places
    <3>9. CASE RememberFallback(r)
      BY <3>9 DEF RememberFallback, HasAdapter, HasStream, Places
    <3> QED
      BY <1>4, <3>1, <3>2, <3>3, <3>4, <3>5, <3>6, <3>7, <3>8, <3>9
  <2> QED
    BY <1>1, <2>1, SameLookups
<1>5. ASSUME NEW r \in Requests, FailUpstream(r) \/ WriteResponse(r) \/ CacheChatBuffer(r)
      PROVE  LookupsInv'
  BY <1>5, FinishKeepsLookups DEF FailUpstream, WriteResponse, CacheChatBuffer
<1> QED
  BY <1>2, <1>3, <1>4, <1>5 DEF Next

-----------------------------------------------------------------------------
\* What a handler finds in the buffer of an adapter, remembered in a session.
LEMMA BufferKeepsCache ==
    ASSUME CachesInv, BuffersInv, NEW p \in Protocols, NEW s \in Sessions, NEW block,
           block \subseteq buffer[p].text \/ block \subseteq buffer[p].completed,
           NEW after, after = T!RememberForToolCalls(thinking[s], buffer[p].ids, block)
    PROVE  CacheOk(after, kept[s], disturbed)
<1>1. CacheOk(thinking[s], kept[s], disturbed)
  BY DEF CachesInv
<1> DEFINE ids == buffer[p].ids
<1>2. /\ ids \in Seq(Requests) /\ P!Distinct(ids)
      /\ \A id \in P!Elements(ids) \ disturbed : block \in {{}, {id}}
  BY BlockOfBuffer
<1>3. after = T!RememberForToolCalls(thinking[s], ids, block)
  OBVIOUS
<1> HIDE DEF ids
<1> QED
  BY <1>1, <1>2, <1>3, RememberKeepsCache

LEMMA CachesStep == ASSUME ReplayInv, Next PROVE CachesInv'
<1>1. CachesInv /\ BuffersInv /\ LookupsInv
  BY DEF ReplayInv
<1>2. ASSUME NEW r \in Requests, NEW site \in Sites, LookupEphemeral(r, site) \/ LookupEnd(r, site)
      PROVE  CachesInv'
  <2>1. Collect /\ UNCHANGED disturbed
    BY <1>2 DEF LookupEphemeral, LookupEnd, bufferVars
  <2> QED
    BY <1>1, <2>1, CollectKeepsCaches
<1>3. ASSUME UNCHANGED <<thinking, kept, disturbed>> PROVE CachesInv'
  BY <1>1, <1>3 DEF CachesInv
<1>4. ASSUME NEW r \in Requests,
             \/ Arrive(r) \/ Replay(r) \/ ReplayAgain(r) \/ OpenStream(r) \/ Deliver(r) \/ Abort(r)
             \/ \E site \in Sites : LookupBegin(r, site)
      PROVE  CachesInv'
  <2>1. UNCHANGED <<thinking, kept, disturbed>>
    BY <1>4 DEF Arrive, LookupBegin, Replay, ReplayAgain, OpenStream, Deliver, Abort, bufferVars
  <2> QED
    BY <1>3, <2>1
<1>5. ASSUME NEW r \in Requests, FailUpstream(r) \/ WriteResponse(r) PROVE CachesInv'
  <2>1. Collect /\ UNCHANGED disturbed
    BY <1>5 DEF FailUpstream, WriteResponse, bufferVars
  <2> QED
    BY <1>1, <2>1, CollectKeepsCaches
<1>6. ASSUME NEW r \in Requests, RememberResponse(r) \/ RememberStreamed(r) PROVE CachesInv'
  <2>1. \E s : /\ Remember(s, <<r>>, {r}) /\ kept' = [kept EXCEPT ![s] = @ \cup {r}]
               /\ UNCHANGED disturbed
    BY <1>6 DEF RememberResponse, RememberStreamed, bufferVars
  <2> QED
    BY <1>1, <2>1, OwnTurnKeepsCaches
<1>7. ASSUME NEW r \in Requests, Emit(r) PROVE CachesInv'
  <2>1. disturbed \subseteq disturbed' /\ UNCHANGED <<thinking, kept>>
    BY <1>7 DEF Emit
  <2> QED
    BY <1>1, <2>1 DEF CachesInv, CacheOk
<1>8. ASSUME NEW r \in Requests, RememberFallback(r) PROVE CachesInv'
  <2> DEFINE s == SessionAt(r, "stream")
             after == T!RememberForToolCalls(thinking[s], buffer["anthropic"].ids,
                                             buffer["anthropic"].completed)
  <2>1. /\ s \in Sessions /\ thinking' = [thinking EXCEPT ![s] = after]
        /\ UNCHANGED <<kept, disturbed>>
    BY <1>1, <1>8 DEF RememberFallback, Remember, LookupsInv, HasStream, bufferVars
  <2>2. CacheOk(after, kept[s], disturbed)
    BY <1>1, <2>1, BufferKeepsCache DEF Protocols
  <2> HIDE DEF s, after
  <2> QED
    BY <1>1, <2>1, <2>2 DEF CachesInv
<1>9. ASSUME NEW r \in Requests, CacheChatBuffer(r) PROVE CachesInv'
  <2> DEFINE s == SessionAt(r, "stream")
             after == T!RememberForToolCalls(thinking[s], buffer["chat"].ids, buffer["chat"].text)
  <2>1. /\ s \in Sessions /\ UNCHANGED disturbed
        /\ thinking' = [o \in Sessions |->
                 IF o \notin SM!Reachable' THEN T!EmptyState
                 ELSE IF o = s THEN after ELSE thinking[o]]
        /\ kept' = [o \in Sessions |-> IF o \in SM!Reachable' THEN kept[o] ELSE {}]
    BY <1>1, <1>9 DEF CacheChatBuffer, LookupsInv, HasStream, bufferVars
  <2>2. CacheOk(after, kept[s], disturbed)
    BY <1>1, <2>1, BufferKeepsCache DEF Protocols
  <2> HIDE DEF s, after
  <2>3. ASSUME NEW o \in Sessions PROVE CacheOk(thinking'[o], kept'[o], disturbed)
    <3>1. \/ thinking'[o] = T!EmptyState /\ kept'[o] = {}
          \/ thinking'[o] = thinking[o] /\ kept'[o] = kept[o]
          \/ o = s /\ thinking'[o] = after /\ kept'[o] = kept[o]
      BY <2>1
    <3> QED
      BY <1>1, <2>2, <3>1, EmptyCacheOk DEF CachesInv
  <2> QED
    BY <2>1, <2>3 DEF CachesInv
<1> QED
  BY <1>2, <1>4, <1>5, <1>6, <1>7, <1>8, <1>9 DEF Next

\* A tool call is the last event of its stream.
LEMMA EventShape ==
    ASSUME NEW p \in Protocols, NEW n \in 1 .. Len(Events(p))
    PROVE  /\ Events(p)[n] \in {"start", "think", "tool"}
           /\ Events(p)[n] = "tool" => n = Len(Events(p))
BY DEF Events, Protocols

\* One more event in a buffer adds at most its request to the contents, and to
\* the tool calls only if it is one.
LEMMA BufferedShape ==
    ASSUME NEW b \in Buffer, P!Distinct(b.ids), NEW r \in Requests, r \notin P!Elements(b.ids),
           NEW event \in {"start", "think", "tool"}, NEW after, after = Buffered(b, event, r)
    PROVE  /\ after \in Buffer /\ P!Distinct(after.ids)
           /\ Contents(after) \subseteq Contents(b) \cup {r}
           /\ \/ P!Elements(after.ids) = P!Elements(b.ids)
              \/ event = "tool" /\ P!Elements(after.ids) = P!Elements(b.ids) \cup {r}
<1>2. b.ids \in Seq(Requests)
  BY DEF Buffer
<1>3. CASE event = "start"
  <2>1. after = [b EXCEPT !.text = {}]
    BY <1>3 DEF Buffered
  <2>2. after \in Buffer /\ after.ids = b.ids /\ after.text = {} /\ after.completed = b.completed
    BY <2>1 DEF Buffer
  <2> QED
    BY <2>2 DEF Contents
<1>4. CASE event = "think"
  <2>1. after = [b EXCEPT !.text = @ \cup {r}, !.completed = b.text \cup {r}]
    BY <1>4 DEF Buffered
  <2>2. /\ after \in Buffer /\ after.ids = b.ids
        /\ after.text = b.text \cup {r} /\ after.completed = b.text \cup {r}
    BY <2>1 DEF Buffer
  <2> QED
    BY <2>2 DEF Contents
<1>5. CASE event = "tool"
  <2>1. after = [b EXCEPT !.ids = Append(@, r)]
    BY <1>5 DEF Buffered
  <2>2. Append(b.ids, r) \in Seq(Requests)
    BY <1>2, AppendProperties
  <2>3. /\ after \in Buffer /\ after.ids = Append(b.ids, r)
        /\ after.text = b.text /\ after.completed = b.completed
    BY <2>1, <2>2 DEF Buffer
  <2>4. P!Distinct(Append(b.ids, r)) /\ P!Elements(Append(b.ids, r)) = P!Elements(b.ids) \cup {r}
    BY <1>2, SessionConstants, P!AppendNew
  <2> QED
    BY <1>5, <2>3, <2>4 DEF Contents
<1> QED
  BY <1>3, <1>4, <1>5

\* The buffers do not depend on what else changes, if no handler gets to its
\* stream without opening it.
LEMMA SameBuffers ==
    ASSUME BuffersInv, UNCHANGED <<buffer, owner, disturbed, plan, emitted>>,
           \A r \in Requests :
               plan[r].stream /\ pc'[r] \in {"streaming", "remember", "fallback", "chatBuffer", "done"}
                   => pc[r] \in {"streaming", "remember", "fallback", "chatBuffer", "done"}
    PROVE  BuffersInv'
BY DEF BuffersInv

LEMMA OpenKeepsBuffers ==
    ASSUME HandlersInv, BuffersInv, NEW r \in Requests, OpenStream(r)
    PROVE  BuffersInv'
<1> DEFINE p == plan[r].protocol
<1>1. p \in Protocols /\ pc \in [Requests -> Places]
  BY PlanShape DEF HandlersInv
<1>2. /\ buffer' = [buffer EXCEPT ![p] = EmptyBuffer] /\ owner' = [owner EXCEPT ![p] = r]
      /\ pc' = [pc EXCEPT ![r] = "streaming"] /\ UNCHANGED <<plan, emitted, disturbed>>
  BY DEF OpenStream
<1> HIDE DEF p
<1>3. <<>> \in Seq(Requests) /\ P!Distinct(<<>>) /\ P!Elements(<<>>) = {}
  BY EmptySeq DEF P!Distinct, P!Elements
<1>4. /\ EmptyBuffer \in Buffer /\ P!Distinct(EmptyBuffer.ids) /\ P!Elements(EmptyBuffer.ids) = {}
      /\ Contents(EmptyBuffer) = {}
  BY <1>3 DEF EmptyBuffer, Buffer, Contents
<1>5. /\ buffer \in [Protocols -> Buffer] /\ owner \in [Protocols -> Requests \cup {NoId}]
  BY DEF BuffersInv
<1>6. buffer' \in [Protocols -> Buffer] /\ owner' \in [Protocols -> Requests \cup {NoId}]
  BY <1>2, <1>4, <1>5
<1>7. \A q \in Protocols :
         /\ q # p => buffer'[q] = buffer[q] /\ owner'[q] = owner[q]
         /\ q = p => buffer'[q] = EmptyBuffer /\ owner'[q] = r
  BY <1>1, <1>2, <1>5
<1>8. ASSUME NEW q \in Protocols
      PROVE  /\ P!Distinct(buffer'[q].ids)
             /\ \A i \in P!Elements(buffer'[q].ids) :
                  plan'[i].protocol = q /\ emitted'[i] = Len(Events(q))
             /\ Contents(buffer'[q]) \subseteq {owner'[q]} \cup disturbed'
             /\ owner'[q] \notin disturbed' => Contents(buffer'[q]) \subseteq {owner'[q]}
  BY <1>2, <1>4, <1>7 DEF BuffersInv
<1>9. ASSUME NEW q \in Requests, plan'[q].stream,
             pc'[q] \in {"streaming", "remember", "fallback", "chatBuffer", "done"}
      PROVE  owner'[plan'[q].protocol] \in Requests
  <2>1. CASE q = r
    BY <1>1, <1>2, <1>7, <2>1 DEF p
  <2>2. CASE q # r
    <3>1. owner[plan[q].protocol] \in Requests /\ plan[q].protocol \in Protocols
      BY <1>1, <1>2, <1>9, <2>2, PlanShape DEF BuffersInv
    <3> QED
      BY <1>2, <1>7, <3>1
  <2> QED
    BY <2>1, <2>2
<1> QED
  BY <1>6, <1>8, <1>9 DEF BuffersInv

LEMMA EmitKeepsBuffers ==
    ASSUME HandlersInv, BuffersInv, NEW r \in Requests, Emit(r)
    PROVE  BuffersInv'
<1> DEFINE p == plan[r].protocol
           n == emitted[r] + 1
           after == Buffered(buffer[p], Events(p)[n], r)
<1>1. p \in Protocols /\ emitted \in [Requests -> Nat]
  BY PlanShape DEF HandlersInv
<1>2. /\ emitted[r] < Len(Events(p)) /\ Len(Events(p)) \in Nat
      /\ emitted' = [emitted EXCEPT ![r] = n] /\ emitted'[r] = n
      /\ buffer' = [buffer EXCEPT ![p] = after]
      /\ disturbed' = IF owner[p] = r THEN disturbed ELSE disturbed \cup {r, owner[p]}
      /\ UNCHANGED <<pc, plan, owner>>
  BY <1>1 DEF Emit, Events
<1>3. n \in 1 .. Len(Events(p)) /\ n \in Nat
  BY <1>1, <1>2
<1>4. buffer[p] \in Buffer /\ P!Distinct(buffer[p].ids)
  BY <1>1 DEF BuffersInv
<1>5. \A q \in Protocols : r \notin P!Elements(buffer[q].ids)
  BY <1>2 DEF BuffersInv
<1> HIDE DEF p, n
<1>6. /\ after \in Buffer /\ P!Distinct(after.ids)
      /\ Contents(after) \subseteq Contents(buffer[p]) \cup {r}
      /\ \/ P!Elements(after.ids) = P!Elements(buffer[p].ids)
         \/ n = Len(Events(p)) /\ P!Elements(after.ids) = P!Elements(buffer[p].ids) \cup {r}
  <2> DEFINE event == Events(p)[n]
             b == buffer[p]
  <2>1. r \notin P!Elements(b.ids) /\ after = Buffered(b, event, r)
    BY <1>1, <1>5
  <2>2. event \in {"start", "think", "tool"} /\ (event = "tool" => n = Len(Events(p)))
    BY <1>1, <1>3, EventShape
  <2>3. b \in Buffer /\ P!Distinct(b.ids)
    BY <1>4
  <2> HIDE DEF after, event, b
  <2>4. /\ after \in Buffer /\ P!Distinct(after.ids)
        /\ Contents(after) \subseteq Contents(b) \cup {r}
        /\ \/ P!Elements(after.ids) = P!Elements(b.ids)
           \/ event = "tool" /\ P!Elements(after.ids) = P!Elements(b.ids) \cup {r}
    BY <2>1, <2>2, <2>3, BufferedShape, ZenonT(60)
  <2>5. \/ P!Elements(after.ids) = P!Elements(b.ids)
        \/ n = Len(Events(p)) /\ P!Elements(after.ids) = P!Elements(b.ids) \cup {r}
    BY <2>2, <2>4
  <2>6. after \in Buffer /\ P!Distinct(after.ids) /\ Contents(after) \subseteq Contents(b) \cup {r}
    BY <2>4
  <2> QED
    BY <2>5, <2>6 DEF b
<1> HIDE DEF after
<1>7. buffer \in [Protocols -> Buffer] /\ owner \in [Protocols -> Requests \cup {NoId}]
  BY DEF BuffersInv
<1>8. buffer' \in [Protocols -> Buffer]
  BY <1>2, <1>6, <1>7
<1>9. \A q \in Protocols : buffer'[q] = IF q = p THEN after ELSE buffer[q]
  BY <1>1, <1>2, <1>7
<1>10. \A q \in Requests : q # r => emitted'[q] = emitted[q]
  BY <1>1, <1>2
<1>11. ASSUME NEW q \in Protocols
       PROVE  /\ P!Distinct(buffer'[q].ids)
              /\ Contents(buffer'[q]) \subseteq {owner[q]} \cup disturbed'
              /\ owner[q] \notin disturbed' => Contents(buffer'[q]) \subseteq {owner[q]}
  <2>1. /\ P!Distinct(buffer[q].ids) /\ Contents(buffer[q]) \subseteq {owner[q]} \cup disturbed
        /\ owner[q] \notin disturbed => Contents(buffer[q]) \subseteq {owner[q]}
    BY DEF BuffersInv
  <2>2. CASE q = p
    BY <1>2, <1>6, <1>9, <2>1, <2>2
  <2>3. CASE q # p
    BY <1>2, <1>9, <2>1, <2>3
  <2> QED
    BY <2>2, <2>3
<1>12. ASSUME NEW q \in Protocols, NEW i \in P!Elements(buffer'[q].ids)
       PROVE  plan[i].protocol = q /\ emitted'[i] = Len(Events(q))
  <2>1. CASE i \in P!Elements(buffer[q].ids)
    <3>1. plan[i].protocol = q /\ emitted[i] = Len(Events(q)) /\ i # r /\ i \in Requests
      <4>1. buffer[q].ids \in Seq(Requests)
        BY <1>7 DEF Buffer
      <4>2. i \in Requests
        BY <2>1, <4>1, ElementOfSeq DEF P!Elements
      <4> QED
        BY <1>5, <2>1, <4>2 DEF BuffersInv
    <3> QED
      BY <1>10, <3>1
  <2>2. CASE i \notin P!Elements(buffer[q].ids)
    <3>1. q = p /\ i = r /\ n = Len(Events(p))
      BY <1>6, <1>9, <1>12, <2>2
    <3> QED
      BY <1>2, <3>1 DEF p
  <2> QED
    BY <2>1, <2>2
<1> QED
  BY <1>2, <1>7, <1>8, <1>11, <1>12 DEF BuffersInv

LEMMA BuffersStep == ASSUME ReplayInv, Next PROVE BuffersInv'
<1>1. BuffersInv /\ HandlersInv /\ pc \in [Requests -> Places]
  BY DEF ReplayInv, HandlersInv
<1> DEFINE Moves(r, places) == \/ pc' = pc
                               \/ \E place \in places : pc' = [pc EXCEPT ![r] = place]
           Elsewhere == {"dispatch", "adapter", "replay", "call", "write", "stream", "again", "open",
                         "failed"}
           Opened == {"streaming", "remember", "fallback", "chatBuffer", "done"}
<1>2. ASSUME NEW r \in Requests, UNCHANGED <<buffer, owner, disturbed, plan, emitted>>,
             \/ Moves(r, Elsewhere)
             \/ Moves(r, Opened) /\ (plan[r].stream => pc[r] \in Opened)
      PROVE  BuffersInv'
  <2>1. \A q \in Requests : plan[q].stream /\ pc'[q] \in Opened => pc[q] \in Opened
    BY <1>1, <1>2
  <2> QED
    BY <1>1, <1>2, <2>1, SameBuffers
<1>3. ASSUME NEW r \in Requests,
             \/ Arrive(r) \/ Replay(r) \/ ReplayAgain(r) \/ FailUpstream(r) \/ RememberResponse(r)
             \/ \E site \in Sites :
                   LookupEphemeral(r, site) \/ LookupBegin(r, site) \/ LookupEnd(r, site)
      PROVE  BuffersInv'
  <2>1. UNCHANGED <<buffer, owner, disturbed, plan, emitted>>
    BY <1>3 DEF Arrive, Replay, ReplayAgain, FailUpstream, RememberResponse, LookupEphemeral,
                LookupBegin, LookupEnd, bufferVars, requestVars
  <2>2. Moves(r, Elsewhere)
    BY <1>3, AfterShape DEF Arrive, Replay, ReplayAgain, FailUpstream, Finish, RememberResponse,
                LookupEphemeral, LookupBegin, LookupEnd, requestVars
  <2> HIDE DEF Moves, Elsewhere
  <2> QED
    BY <1>2, <2>1, <2>2
<1>4. ASSUME NEW r \in Requests,
             WriteResponse(r) \/ Deliver(r) \/ Abort(r) \/ RememberStreamed(r)
                \/ RememberFallback(r) \/ CacheChatBuffer(r)
      PROVE  BuffersInv'
  <2>1. UNCHANGED <<buffer, owner, disturbed, plan, emitted>>
    BY <1>4 DEF WriteResponse, Deliver, Abort, RememberStreamed, RememberFallback, CacheChatBuffer,
                bufferVars
  <2>2. Moves(r, Opened) /\ (plan[r].stream => pc[r] \in Opened)
    BY <1>1, <1>4 DEF WriteResponse, Deliver, Abort, RememberStreamed, RememberFallback,
                CacheChatBuffer, Finish, HandlersInv
  <2> HIDE DEF Moves, Opened
  <2> QED
    BY <1>2, <2>1, <2>2
<1>5. ASSUME NEW r \in Requests, OpenStream(r) \/ Emit(r) PROVE BuffersInv'
  BY <1>1, <1>5, OpenKeepsBuffers, EmitKeepsBuffers
<1> QED
  BY <1>3, <1>4, <1>5 DEF Next

LEMMA FaithfulStep == ASSUME ReplayInv, Next PROVE FaithfulReplay'
<1>1. /\ CachesInv /\ LookupsInv /\ HandlersInv /\ FaithfulReplay /\ DOMAIN sent = Requests
  BY DEF ReplayInv, HandlersInv
<1>2. disturbed \subseteq disturbed'
  BY DEF Next, Arrive, LookupEphemeral, LookupBegin, LookupEnd, Replay, ReplayAgain, FailUpstream,
         RememberResponse, WriteResponse, OpenStream, Emit, Deliver, Abort, RememberStreamed,
         RememberFallback, CacheChatBuffer, bufferVars
<1>3. ASSUME sent' = sent PROVE FaithfulReplay'
  BY <1>1, <1>2, <1>3 DEF FaithfulReplay
<1>4. ASSUME NEW r \in Requests, Replay(r) PROVE FaithfulReplay'
  <2>1. /\ sent' = [sent EXCEPT ![r] = Cached(SessionAt(r, "adapter"), history[r])]
        /\ SessionAt(r, "adapter") \in Sessions
    BY <1>1, <1>4 DEF Replay, LookupsInv, HasAdapter
  <2>2. \A id \in DOMAIN Cached(SessionAt(r, "adapter"), history[r]) \ disturbed :
            Cached(SessionAt(r, "adapter"), history[r])[id] \in {{}, {id}}
    BY <1>1, <2>1, CachedIsFaithful DEF Cached
  <2> QED
    BY <1>1, <1>2, <2>1, <2>2 DEF FaithfulReplay
<1>5. ASSUME NEW r \in Requests, ReplayAgain(r) PROVE FaithfulReplay'
  <2>1. CASE plan[r].protocol = "chat"
    <3> DEFINE again == [id \in history[r] |->
                          IF sent[r][id] # {} THEN sent[r][id]
                          ELSE T!CachedForToolCall(thinking[SessionAt(r, "stream")], id)]
    <3>1. sent' = [sent EXCEPT ![r] = again] /\ SessionAt(r, "stream") \in Sessions
      BY <1>1, <1>5, <2>1 DEF ReplayAgain, LookupsInv, HasStream
    <3>2. DOMAIN sent[r] = history[r]
      BY <1>1, <1>5 DEF ReplayAgain, HandlersInv
    <3>3. \A id \in DOMAIN again \ disturbed : again[id] \in {{}, {id}}
      BY <1>1, <3>1, <3>2, CachedIsFaithful DEF FaithfulReplay
    <3> HIDE DEF again
    <3> QED
      BY <1>1, <1>2, <3>1, <3>3 DEF FaithfulReplay
  <2>2. CASE plan[r].protocol # "chat"
    BY <1>3, <1>5, <2>2 DEF ReplayAgain
  <2> QED
    BY <2>1, <2>2
<1>6. (\E r \in Requests : Replay(r) \/ ReplayAgain(r)) \/ sent' = sent
  BY DEF Next, Arrive, LookupEphemeral, LookupBegin, LookupEnd, FailUpstream, requestVars,
         RememberResponse, WriteResponse, OpenStream, Emit, Deliver, Abort, RememberStreamed,
         RememberFallback, CacheChatBuffer
<1> QED
  BY <1>3, <1>4, <1>5, <1>6

-----------------------------------------------------------------------------
LEMMA ReplayStep == ASSUME ReplayInv, [Next]_vars PROVE ReplayInv'
<1>1. CASE Next
  BY <1>1, TableStep, HandlersStep, LookupsStep, CachesStep, BuffersStep, FaithfulStep DEF ReplayInv
<1>2. CASE UNCHANGED vars
  <2>1. UNCHANGED <<sessionVars, pc, plan, history, sent, emitted, answered, thinking, buffer, owner,
                    disturbed, kept>>
    BY <1>2 DEF vars, requestVars, bufferVars
  <2>2. SM!TypeOK' /\ LookupsInv'
    BY <2>1 DEF ReplayInv, SM!TypeOK, SM!Tables, SM!Entry, SM!Instants, SM!Lookup, SM!Pruner,
                LookupsInv, sessionVars, SessionAt, Conv
  <2>3. HandlersInv' /\ CachesInv' /\ FaithfulReplay'
    BY <2>1 DEF ReplayInv, HandlersInv, CachesInv, FaithfulReplay
  <2>4. BuffersInv'
    BY <2>1, SameBuffers DEF ReplayInv
  <2> QED
    BY <2>2, <2>3, <2>4 DEF ReplayInv
<1> QED
  BY <1>1, <1>2

LEMMA InvIsTyped == ASSUME ReplayInv PROVE TypeOK
<1>1. \A s \in Sessions : T!WellFormed(thinking[s]) /\ kept[s] \subseteq Requests
  BY SessionConstants, SameCache, P!CacheIsWellFormed DEF ReplayInv, CachesInv, CacheOk
<1> QED
  BY <1>1 DEF ReplayInv, HandlersInv, TypeOK

LEMMA InvAgrees == ASSUME ReplayInv PROVE LookupsAgree
<1>1. ASSUME NEW r \in Requests, maxSessions = 0, Conv(r) # NoKey,
             pc[r] \in {"again", "open", "streaming", "remember"}
      PROVE  SessionAt(r, "adapter") = SessionAt(r, "stream")
  <2>1. SessionAt(r, "adapter") \in Sessions /\ SessionAt(r, "stream") \in Sessions
    BY <1>1 DEF ReplayInv, LookupsInv, HasAdapter, HasStream
  <2>2. NoSession \notin Sessions
    BY ConstantsAssumption DEF ConstantsAssumption
  <2>3. ASSUME NEW site \in Sites, SessionAt(r, site) \in Sessions
        PROVE  SessionAt(r, site) = sessions[Conv(r)].sess
    <3>1. <<r, site>> \in Requests \X Sites /\ <<r, site>>[1] = r
      OBVIOUS
    <3> QED
      BY <1>1, <2>2, <2>3, <3>1 DEF ReplayInv, LookupsInv, SessionAt
  <2> QED
    BY <2>1, <2>3 DEF Sites
<1> QED
  BY <1>1, InvIsTyped DEF LookupsAgree

\* Without a limit on the sessions, the lookups that a request makes one after
\* the other (sessionForRequest in handleWithAdapters and handleAdapterStream)
\* find the same session, whatever other handlers look up in between.
THEOREM LookupsAlwaysAgree == Spec => []LookupsAgree
<1>1. Init => ReplayInv
  BY ReplayInit
<1>2. ReplayInv /\ [Next]_vars => ReplayInv'
  BY ReplayStep
<1>3. ReplayInv => LookupsAgree
  BY InvAgrees
<1> QED
  BY <1>1, <1>2, <1>3, PTL DEF Spec

\* A turn whose events did not share an adapter's buffer is replayed with its
\* own thinking or with none, although the buffers are shared by all requests
\* of a protocol and read by handlers of the other one.
THEOREM ReplayIsFaithful == Spec => []FaithfulReplay
<1>1. Init => ReplayInv
  BY ReplayInit
<1>2. ReplayInv /\ [Next]_vars => ReplayInv'
  BY ReplayStep
<1>3. ReplayInv => FaithfulReplay
  BY DEF ReplayInv
<1> QED
  BY <1>1, <1>2, <1>3, PTL DEF Spec

\* A handler leaves "replay" by replaying.
LEMMA OnlyReplayLeaves ==
    ASSUME Next, pc \in [Requests -> Places], NEW r \in Requests, pc[r] = "replay", pc'[r] # "replay"
    PROVE  Replay(r)
<1>1. ASSUME NEW q \in Requests,
             \/ Arrive(q) \/ ReplayAgain(q) \/ FailUpstream(q) \/ RememberResponse(q)
             \/ WriteResponse(q) \/ OpenStream(q) \/ Emit(q) \/ Deliver(q) \/ Abort(q)
             \/ RememberStreamed(q) \/ RememberFallback(q) \/ CacheChatBuffer(q)
      PROVE  FALSE
  <2>1. pc' = pc \/ (pc[q] # "replay" /\ \E place : pc' = [pc EXCEPT ![q] = place])
    BY <1>1 DEF Arrive, ReplayAgain, FailUpstream, Finish, RememberResponse, WriteResponse,
                OpenStream, Emit, Deliver, Abort, RememberStreamed, RememberFallback, CacheChatBuffer
  <2> QED
    BY <2>1
<1>2. ASSUME NEW q \in Requests, NEW site \in Sites,
             LookupEphemeral(q, site) \/ LookupBegin(q, site) \/ LookupEnd(q, site)
      PROVE  FALSE
  <2>1. pc' = pc \/ (pc[q] = site /\ \E place : pc' = [pc EXCEPT ![q] = place])
    BY <1>2 DEF LookupEphemeral, LookupBegin, LookupEnd, requestVars
  <2> QED
    BY <2>1 DEF Sites
<1>3. ASSUME NEW q \in Requests, Replay(q), q # r PROVE FALSE
  BY <1>3 DEF Replay
<1> QED
  BY <1>1, <1>2, <1>3 DEF Next

\* What a handler remembered in a session is replayed by the next request that
\* finds this session, as long as the cache is not full.
THEOREM RememberedTurnsReturn == Spec => RememberedIsReplayed
<1>1. Init => ReplayInv
  BY ReplayInit
<1>2. ReplayInv /\ [Next]_vars => ReplayInv'
  BY ReplayStep
<1> DEFINE Returned == \A r \in Requests : pc[r] = "replay" /\ pc'[r] # "replay" =>
          LET s == SessionAt(r, "adapter")
          IN  \A id \in history[r] \cap kept[s] :
                sent'[r][id] # {} \/ Len(thinking[s].order) = Limit
<1>3. ReplayInv /\ [Next]_vars => [Returned]_vars
  <2> SUFFICES ASSUME ReplayInv, Next, NEW r \in Requests, pc[r] = "replay", pc'[r] # "replay"
               PROVE  LET s == SessionAt(r, "adapter")
                      IN  \A id \in history[r] \cap kept[s] :
                            sent'[r][id] # {} \/ Len(thinking[s].order) = Limit
    OBVIOUS
  <2>1. pc \in [Requests -> Places] /\ DOMAIN sent = Requests
    BY DEF ReplayInv, HandlersInv
  <2>2. Replay(r)
    BY <2>1, OnlyReplayLeaves
  <2> DEFINE s == SessionAt(r, "adapter")
  <2>3. s \in Sessions /\ CacheOk(thinking[s], kept[s], disturbed)
    BY DEF ReplayInv, LookupsInv, HasAdapter, CachesInv
  <2>4. sent'[r] = Cached(s, history[r])
    BY <2>1, <2>2 DEF Replay
  <2> HIDE DEF s
  <2>5. \A id \in history[r] \cap kept[s] : sent'[r][id] # {} \/ Len(thinking[s].order) = Limit
    BY <2>3, <2>4 DEF Cached, T!CachedForToolCall, CacheOk
  <2> QED
    BY <2>5 DEF s
<1> QED
  BY <1>1, <1>2, <1>3, PTL DEF Spec, RememberedIsReplayed
=============================================================================
