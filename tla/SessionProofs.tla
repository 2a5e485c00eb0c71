---------------------------- MODULE SessionProofs ----------------------------
(***************************************************************************)
(* What holds of the session table, for every set of keys, callers, limits *)
(* and times to live; and of the thinking cache that a session keeps, for  *)
(* any limit, any keys, any blocks and any number of handlers.  The cache  *)
(* needs induction and sequences of distinct elements.                     *)
(***************************************************************************)
EXTENDS SessionManager, ThinkingCache, SequenceTheorems, FiniteSetTheorems,
        WellFoundedInduction, TLAPS

\* Instants are integers, in order.
LEMMA InstantsAreNaturals == \A t \in Instants : t \in Nat /\ 0 <= t /\ t <= MaxClock
BY ConstantsAssumption DEF ConstantsAssumption, Instants

\* A table has finitely many keys, each a key with an entry.
LEMMA TableShape ==
    ASSUME NEW T \in Tables
    PROVE  /\ DOMAIN T \subseteq Keys
           /\ IsFiniteSet(DOMAIN T)
           /\ \A k \in DOMAIN T : T[k] \in Entry
           /\ T \in [DOMAIN T -> Entry]
<1>1. PICK D \in SUBSET Keys : T \in [D -> Entry]
  BY DEF Tables
<1> QED
  BY <1>1, FS_Subset, ConstantsAssumption DEF ConstantsAssumption

\* A function on a set of keys with entries as values is a table.
LEMMA IsTable ==
    ASSUME NEW D, D \subseteq Keys, NEW T, T \in [D -> Entry]
    PROVE  T \in Tables
BY DEF Tables

\* Dropping keys from a table yields a table with the other entries unchanged.
LEMMA WithoutKeysShape ==
    ASSUME NEW T \in Tables, NEW D
    PROVE  /\ WithoutKeys(T, D) \in Tables
           /\ DOMAIN WithoutKeys(T, D) = DOMAIN T \ D
           /\ \A k \in DOMAIN T \ D : WithoutKeys(T, D)[k] = T[k]
<1>1. /\ DOMAIN T \subseteq Keys
      /\ \A k \in DOMAIN T : T[k] \in Entry
  BY TableShape
<1>2. WithoutKeys(T, D) \in [DOMAIN T \ D -> Entry]
  BY <1>1 DEF WithoutKeys
<1>3. WithoutKeys(T, D) \in Tables
  BY <1>1, <1>2, IsTable
<1> QED
  BY <1>3 DEF WithoutKeys

\* Inserting or overwriting one entry of a table yields a table.
LEMMA PutShape ==
    ASSUME NEW T \in Tables, NEW k \in Keys, NEW e \in Entry
    PROVE  /\ Put(T, k, e) \in Tables
           /\ DOMAIN Put(T, k, e) = DOMAIN T \cup {k}
           /\ Put(T, k, e)[k] = e
           /\ \A j \in DOMAIN T \ {k} : Put(T, k, e)[j] = T[j]
<1>1. /\ DOMAIN T \subseteq Keys
      /\ \A j \in DOMAIN T : T[j] \in Entry
  BY TableShape
<1>2. Put(T, k, e) \in [DOMAIN T \cup {k} -> Entry]
  BY <1>1 DEF Put
<1>3. Put(T, k, e) \in Tables
  BY <1>1, <1>2, IsTable
<1> QED
  BY <1>3 DEF Put

-----------------------------------------------------------------------------
(***************************************************************************)
(* What the sections under the mutex do to the table, as facts that the    *)
(* invariant and the action properties share.                              *)
(***************************************************************************)

\* Pruning removes the entries that are too old for the time it is given.
LEMMA UnexpiredShape ==
    ASSUME TypeOK, NEW now
    PROVE  /\ Unexpired(now) \in Tables
           /\ DOMAIN Unexpired(now) = { k \in DOMAIN sessions : ~Expired(sessions[k], now) }
           /\ \A k \in DOMAIN Unexpired(now) : Unexpired(now)[k] = sessions[k]
<1> DEFINE D == { k \in DOMAIN sessions : Expired(sessions[k], now) }
<1>1. sessions \in Tables
  BY DEF TypeOK
<1>2. /\ WithoutKeys(sessions, D) \in Tables
      /\ DOMAIN WithoutKeys(sessions, D) = DOMAIN sessions \ D
      /\ \A k \in DOMAIN sessions \ D : WithoutKeys(sessions, D)[k] = sessions[k]
  <2> HIDE DEF D
  <2> QED BY <1>1, WithoutKeysShape
<1>3. Unexpired(now) = WithoutKeys(sessions, D)
  BY DEF Unexpired
<1> QED
  BY <1>2, <1>3

\* A lookup that waits for the mutex has a key and a time.
LEMMA WaitingLookup ==
    ASSUME TypeOK, NEW c \in Callers, lookup[c] # Idle
    PROVE  lookup[c].key \in Keys /\ lookup[c].now \in Instants
BY DEF TypeOK, Lookup

\* A hit keeps the unexpired entries and restamps the one it is about.
LEMMA HitShape ==
    ASSUME TypeOK, NEW c \in Callers, lookup[c] # Idle, Hit(c)
    PROVE  /\ lookup[c].key \in DOMAIN sessions
           /\ sessions' \in Tables
           /\ DOMAIN sessions' =
                { j \in DOMAIN sessions : ~Expired(sessions[j], lookup[c].now) }
           /\ \A j \in DOMAIN sessions' :
                /\ sessions'[j].sess = sessions[j].sess
                /\ j # lookup[c].key =>
                     sessions'[j] = sessions[j] /\ served'[j] = served[j]
                /\ j = lookup[c].key =>
                     sessions'[j].lastUsed = lookup[c].now /\ served'[j] = clock
           /\ served' \in [DOMAIN sessions' -> Instants]
           /\ held' \in [Callers -> {NoSession} \cup Sessions]
<1> DEFINE k == lookup[c].key
           now == lookup[c].now
           kept == Unexpired(now)
<1>1. k \in Keys /\ now \in Instants
  BY WaitingLookup
<1>2. /\ kept \in Tables
      /\ DOMAIN kept = { j \in DOMAIN sessions : ~Expired(sessions[j], now) }
      /\ \A j \in DOMAIN kept : kept[j] = sessions[j]
  BY UnexpiredShape
<1>3. /\ k \in DOMAIN kept
      /\ sessions' = [kept EXCEPT ![k].lastUsed = now]
      /\ held' = [held EXCEPT ![c] = kept[k].sess]
      /\ served' = Put([j \in DOMAIN kept |-> served[j]], k, clock)
  BY DEF Hit
<1>4. /\ kept \in [DOMAIN kept -> Entry]
      /\ DOMAIN kept \subseteq Keys
      /\ sessions[k] \in Entry
  BY <1>2, <1>3, TableShape
<1>5. sessions' \in [DOMAIN kept -> Entry] /\ DOMAIN sessions' = DOMAIN kept
  BY <1>1, <1>3, <1>4 DEF Entry
<1>6. sessions' \in Tables
  BY <1>4, <1>5, IsTable
<1>7. /\ \A j \in DOMAIN kept \ {k} : sessions'[j] = sessions[j]
      /\ sessions'[k] = [sess |-> sessions[k].sess, lastUsed |-> now]
  BY <1>2, <1>3, <1>4 DEF Entry
<1>8. /\ served' \in [DOMAIN kept -> Instants]
      /\ served'[k] = clock
      /\ \A j \in DOMAIN kept \ {k} : served'[j] = served[j]
  <2>1. /\ served \in [DOMAIN sessions -> Instants]
        /\ clock \in Instants
        /\ DOMAIN kept \subseteq DOMAIN sessions
    BY <1>2 DEF TypeOK
  <2>2. DOMAIN kept \cup {k} = DOMAIN kept
    BY <1>3
  <2> QED BY <1>3, <2>1, <2>2 DEF Put
<1>9. held' \in [Callers -> {NoSession} \cup Sessions]
  BY <1>2, <1>3, <1>4 DEF Entry, TypeOK
<1>10. \A j \in DOMAIN sessions' :
         /\ sessions'[j].sess = sessions[j].sess
         /\ j # k => sessions'[j] = sessions[j] /\ served'[j] = served[j]
         /\ j = k => sessions'[j].lastUsed = now /\ served'[j] = clock
  <2> HIDE DEF k, now, kept
  <2> QED BY <1>5, <1>7, <1>8
<1> QED
  BY <1>2, <1>3, <1>5, <1>6, <1>8, <1>9, <1>10

\* A miss keeps the unexpired entries outside the evicted set E, and adds one.
LEMMA CreateShape ==
    ASSUME TypeOK, NEW c \in Callers, lookup[c] # Idle, Create(c)
    PROVE  /\ lookup[c].key \in Keys
           /\ lookup[c].key \notin DOMAIN Unexpired(lookup[c].now)
           /\ \E E \in Evictions(Unexpired(lookup[c].now)) :
                /\ DOMAIN sessions' =
                     (DOMAIN Unexpired(lookup[c].now) \ E) \cup {lookup[c].key}
                /\ \A j \in DOMAIN Unexpired(lookup[c].now) \ E :
                     sessions'[j] = sessions[j] /\ served'[j] = served[j]
           /\ sessions'[lookup[c].key].lastUsed = lookup[c].now
           /\ served'[lookup[c].key] = clock
           /\ sessions' \in Tables
           /\ served' \in [DOMAIN sessions' -> Instants]
           /\ held' \in [Callers -> {NoSession} \cup Sessions]
<1> DEFINE k == lookup[c].key
           now == lookup[c].now
           kept == Unexpired(now)
<1>1. k \in Keys /\ now \in Instants
  BY WaitingLookup
<1>2. /\ kept \in Tables
      /\ DOMAIN kept = { j \in DOMAIN sessions : ~Expired(sessions[j], now) }
      /\ \A j \in DOMAIN kept : kept[j] = sessions[j]
  BY UnexpiredShape
<1>3. PICK E \in Evictions(kept), s \in Sessions :
        /\ k \notin DOMAIN kept
        /\ sessions' = Put(WithoutKeys(kept, E), k, [sess |-> s, lastUsed |-> now])
        /\ held' = [held EXCEPT ![c] = s]
        /\ served' = Put([j \in DOMAIN kept \ E |-> served[j]], k, clock)
  BY DEF Create, Allocatable
<1> DEFINE T == WithoutKeys(kept, E)
           e == [sess |-> s, lastUsed |-> now]
<1>4. /\ T \in Tables
      /\ DOMAIN T = DOMAIN kept \ E
      /\ \A j \in DOMAIN kept \ E : T[j] = kept[j]
  <2> HIDE DEF kept
  <2> QED BY <1>2, WithoutKeysShape
<1>5. e \in Entry
  BY <1>1 DEF Entry
<1>6. /\ Put(T, k, e) \in Tables
      /\ DOMAIN Put(T, k, e) = DOMAIN T \cup {k}
      /\ Put(T, k, e)[k] = e
      /\ \A j \in DOMAIN T \ {k} : Put(T, k, e)[j] = T[j]
  <2> HIDE DEF T, e, k
  <2> QED BY <1>1, <1>4, <1>5, PutShape
<1>7. /\ sessions' \in Tables
      /\ DOMAIN sessions' = (DOMAIN kept \ E) \cup {k}
      /\ sessions'[k] = e
      /\ \A j \in DOMAIN kept \ E : sessions'[j] = sessions[j]
  BY <1>2, <1>3, <1>4, <1>6
<1>8. /\ served' \in [(DOMAIN kept \ E) \cup {k} -> Instants]
      /\ served'[k] = clock
      /\ \A j \in DOMAIN kept \ E : served'[j] = served[j]
  <2>1. /\ served \in [DOMAIN sessions -> Instants]
        /\ clock \in Instants
        /\ DOMAIN kept \subseteq DOMAIN sessions
    BY <1>2 DEF TypeOK
  <2> QED BY <1>3, <2>1 DEF Put
<1>9. held' \in [Callers -> {NoSession} \cup Sessions]
  BY <1>3 DEF TypeOK
<1>10. \E F \in Evictions(kept) :
         /\ DOMAIN sessions' = (DOMAIN kept \ F) \cup {k}
         /\ \A j \in DOMAIN kept \ F : sessions'[j] = sessions[j] /\ served'[j] = served[j]
  <2> HIDE DEF k, kept
  <2> QED BY <1>3, <1>7, <1>8
<1>11. sessions'[k].lastUsed = now
  BY <1>7
<1> QED
  BY <1>1, <1>3, <1>7, <1>8, <1>9, <1>10, <1>11

\* Prune, run by the background goroutine, only drops expired entries.
LEMMA PruneShape ==
    ASSUME TypeOK, Prune
    PROVE  /\ sessions' \in Tables
           /\ DOMAIN sessions' = { k \in DOMAIN sessions : ~Expired(sessions[k], pruner.now) }
           /\ \A k \in DOMAIN sessions' : sessions'[k] = sessions[k] /\ served'[k] = served[k]
           /\ served' \in [DOMAIN sessions' -> Instants]
<1>1. /\ Unexpired(pruner.now) \in Tables
      /\ DOMAIN Unexpired(pruner.now) =
            { k \in DOMAIN sessions : ~Expired(sessions[k], pruner.now) }
      /\ \A k \in DOMAIN Unexpired(pruner.now) : Unexpired(pruner.now)[k] = sessions[k]
  BY UnexpiredShape
<1>2. served \in [DOMAIN sessions -> Instants]
  BY DEF TypeOK
<1> QED
  BY <1>1, <1>2 DEF Prune

-----------------------------------------------------------------------------
\* The table, its history and the actors keep their types.
LEMMA TypeStep == TypeOK /\ [Next]_vars => TypeOK'
<1> SUFFICES ASSUME TypeOK, [Next]_vars PROVE TypeOK'
  OBVIOUS
<1>1. CASE Tick
  <2>1. clock' \in Instants
    BY <1>1, ConstantsAssumption DEF Tick, TypeOK, Instants, ConstantsAssumption
  <2> QED BY <1>1, <2>1 DEF Tick, TypeOK
<1>2. ASSUME NEW m \in Limits, NEW t \in TTLs, Reconfigure(m, t) PROVE TypeOK'
  BY <1>2 DEF Reconfigure, TypeOK
<1>3. ASSUME NEW c \in Callers, NEW k \in Keys, ReadClock(c, k) PROVE TypeOK'
  BY <1>3 DEF ReadClock, TypeOK, Lookup
<1>4. ASSUME NEW c \in Callers, NewEphemeral(c) PROVE TypeOK'
  BY <1>4 DEF NewEphemeral, Allocatable, TypeOK
<1>5. ASSUME NEW c \in Callers, GetOrCreate(c) PROVE TypeOK'
  <2>1. /\ lookup[c] # Idle
        /\ lookup' = [lookup EXCEPT ![c] = Idle]
        /\ UNCHANGED <<clock, maxSessions, ttl, pruner, stopping>>
    BY <1>5 DEF GetOrCreate
  <2>2. /\ sessions' \in Tables
        /\ served' \in [DOMAIN sessions' -> Instants]
        /\ held' \in [Callers -> {NoSession} \cup Sessions]
    <3>1. CASE Hit(c)
      BY <2>1, <3>1, HitShape DEF TypeOK
    <3>2. CASE Create(c)
      BY <2>1, <3>2, CreateShape DEF TypeOK
    <3> QED BY <1>5, <3>1, <3>2 DEF GetOrCreate
  <2> QED BY <2>1, <2>2 DEF TypeOK
<1>6. ASSUME NEW c \in Callers, Release(c) PROVE TypeOK'
  BY <1>6 DEF Release, TypeOK
<1>7. CASE PrunerTick
  BY <1>7 DEF PrunerTick, TypeOK, Pruner
<1>8. CASE Prune
  <2>1. sessions' \in Tables /\ served' \in [DOMAIN sessions' -> Instants]
    BY <1>8, PruneShape
  <2>2. pruner' \in Pruner
    BY <1>8, ConstantsAssumption DEF Prune, Pruner, Instants, ConstantsAssumption
  <2> QED BY <1>8, <2>1, <2>2 DEF Prune, TypeOK
<1>9. CASE Stop
  BY <1>9 DEF Stop, TypeOK
<1>10. CASE PrunerExit
  BY <1>10, ConstantsAssumption
    DEF PrunerExit, TypeOK, Pruner, Instants, ConstantsAssumption
<1>11. CASE UNCHANGED vars
  BY <1>11 DEF vars, TypeOK
<1> QED
  BY <1>1, <1>2, <1>3, <1>4, <1>5, <1>6, <1>7, <1>8, <1>9, <1>10, <1>11 DEF Next

\* Every initial state has the types.
LEMMA InitIsTyped == Init => TypeOK
<1> SUFFICES ASSUME Init PROVE TypeOK
  OBVIOUS
<1>1. 0 \in Instants
  BY ConstantsAssumption DEF ConstantsAssumption, Instants
<1>2. sessions \in [{} -> Entry] /\ served \in [{} -> Instants] /\ DOMAIN sessions = {}
  BY DEF Init
<1>3. sessions \in Tables
  BY <1>2, IsTable
<1> QED BY <1>1, <1>3, <1>2 DEF Init, TypeOK, Pruner

\* The types of the session manager's variables are what TypeOK says, in every
\* reachable state and for every value of the constants.
THEOREM TypeCorrect == Spec => []TypeOK
BY InitIsTyped, TypeStep, PTL DEF Spec

-----------------------------------------------------------------------------
\* No entry is stamped later than it was handed out, by any step.
LEMMA StampsStep == TypeOK /\ StampsLagGrants /\ [Next]_vars => StampsLagGrants'
<1> SUFFICES ASSUME TypeOK, StampsLagGrants, [Next]_vars PROVE StampsLagGrants'
  OBVIOUS
<1>1. CASE Tick
  <2>1. clock <= clock' /\ UNCHANGED <<sessions, lookup, pruner, served>>
    BY <1>1, InstantsAreNaturals DEF Tick, TypeOK
  <2>2. \A k \in DOMAIN sessions :
          sessions[k].lastUsed \in Instants /\ served[k] \in Instants
    BY TableShape DEF TypeOK, Entry
  <2>3. \A c \in Callers : lookup[c] # Idle => lookup[c].now \in Instants
    BY WaitingLookup
  <2>4. pruner.now \in Instants /\ clock \in Instants /\ clock' \in Instants
    BY <1>1, TypeStep DEF TypeOK, Pruner
  <2> QED BY <2>1, <2>2, <2>3, <2>4, InstantsAreNaturals DEF StampsLagGrants
<1>2. ASSUME NEW m \in Limits, NEW t \in TTLs, Reconfigure(m, t) PROVE StampsLagGrants'
  BY <1>2 DEF Reconfigure, StampsLagGrants
<1>3. ASSUME NEW c \in Callers, NEW k \in Keys, ReadClock(c, k) PROVE StampsLagGrants'
  <2>1. clock <= clock
    BY InstantsAreNaturals DEF TypeOK
  <2> QED BY <1>3, <2>1 DEF ReadClock, StampsLagGrants, TypeOK
<1>4. ASSUME NEW c \in Callers, NewEphemeral(c) PROVE StampsLagGrants'
  BY <1>4 DEF NewEphemeral, StampsLagGrants
<1>5. ASSUME NEW c \in Callers, GetOrCreate(c) PROVE StampsLagGrants'
  <2>1. /\ lookup[c] # Idle
        /\ lookup' = [lookup EXCEPT ![c] = Idle]
        /\ UNCHANGED <<clock, pruner>>
    BY <1>5 DEF GetOrCreate
  <2>2. lookup[c].now <= clock /\ clock <= clock
    BY <2>1, InstantsAreNaturals DEF StampsLagGrants, TypeOK
  <2>3. \A k \in DOMAIN sessions' :
          sessions'[k].lastUsed <= served'[k] /\ served'[k] <= clock
    <3>1. CASE Hit(c)
      BY <2>1, <2>2, <3>1, HitShape DEF StampsLagGrants
    <3>2. CASE Create(c)
      <4>1. DOMAIN Unexpired(lookup[c].now) \subseteq DOMAIN sessions
        BY UnexpiredShape
      <4>2. /\ sessions'[lookup[c].key].lastUsed = lookup[c].now /\ served'[lookup[c].key] = clock
            /\ \A k \in DOMAIN sessions' \ {lookup[c].key} :
                 k \in DOMAIN sessions /\ sessions'[k] = sessions[k] /\ served'[k] = served[k]
        <5>1. PICK E \in Evictions(Unexpired(lookup[c].now)) :
                /\ DOMAIN sessions' = (DOMAIN Unexpired(lookup[c].now) \ E) \cup {lookup[c].key}
                /\ \A j \in DOMAIN Unexpired(lookup[c].now) \ E :
                     sessions'[j] = sessions[j] /\ served'[j] = served[j]
          BY <2>1, <3>2, CreateShape
        <5>2. sessions'[lookup[c].key].lastUsed = lookup[c].now /\ served'[lookup[c].key] = clock
          BY <2>1, <3>2, CreateShape
        <5> QED BY <4>1, <5>1, <5>2
      <4>3. ASSUME NEW k \in DOMAIN sessions'
            PROVE  sessions'[k].lastUsed <= served'[k] /\ served'[k] <= clock
        <5>1. CASE k = lookup[c].key
          BY <2>2, <4>2, <5>1
        <5>2. CASE k # lookup[c].key
          BY <4>2, <5>2 DEF StampsLagGrants
        <5> QED BY <5>1, <5>2
      <4> QED BY <4>3
    <3> QED BY <1>5, <3>1, <3>2 DEF GetOrCreate
  <2> QED BY <2>1, <2>3 DEF StampsLagGrants, TypeOK
<1>6. ASSUME NEW c \in Callers, Release(c) PROVE StampsLagGrants'
  BY <1>6 DEF Release, StampsLagGrants
<1>7. CASE PrunerTick
  <2>1. clock <= clock
    BY InstantsAreNaturals DEF TypeOK
  <2> QED BY <1>7, <2>1 DEF PrunerTick, StampsLagGrants
<1>8. CASE Prune
  <2>1. 0 <= clock
    BY InstantsAreNaturals DEF TypeOK
  <2> QED BY <1>8, <2>1, PruneShape DEF Prune, StampsLagGrants
<1>9. CASE Stop
  BY <1>9 DEF Stop, StampsLagGrants
<1>10. CASE PrunerExit
  <2>1. 0 <= clock
    BY InstantsAreNaturals DEF TypeOK
  <2> QED BY <1>10, <2>1 DEF PrunerExit, StampsLagGrants
<1>11. CASE UNCHANGED vars
  BY <1>11 DEF vars, StampsLagGrants
<1> QED
  BY <1>1, <1>2, <1>3, <1>4, <1>5, <1>6, <1>7, <1>8, <1>9, <1>10, <1>11 DEF Next

\* The stamps of the table never run ahead of the grants of the mutex: the
\* strengthening that the two theorems about removals below rest on.
THEOREM StampsSafe == Spec => []StampsLagGrants
<1>1. Init => StampsLagGrants
  BY DEF Init, StampsLagGrants
<1> QED
  BY <1>1, TypeCorrect, StampsStep, PTL DEF Spec

-----------------------------------------------------------------------------
\* Only GetOrCreate and Prune touch the table.
LEMMA TableUntouched ==
    ASSUME [Next]_vars, ~Prune, \A c \in Callers : ~GetOrCreate(c)
    PROVE  UNCHANGED <<sessions, served>>
BY DEF Next, vars, Tick, Reconfigure, ReadClock, NewEphemeral, Release,
       PrunerTick, Stop, PrunerExit

\* What the eviction loop leaves below the limit.
LEMMA EvictionsBound ==
    ASSUME NEW T, NEW E \in Evictions(T), maxSessions \in Nat, maxSessions # 0,
           IsFiniteSet(DOMAIN T)
    PROVE  Cardinality(DOMAIN T \ E) < maxSessions
<1>1. CASE Cardinality(DOMAIN T) >= maxSessions
  BY <1>1 DEF Evictions
<1>2. CASE ~(Cardinality(DOMAIN T) >= maxSessions)
  <2>1. E = {}
    BY <1>2 DEF Evictions
  <2>2. DOMAIN T \ E = DOMAIN T
    BY <2>1
  <2>3. Cardinality(DOMAIN T) \in Nat
    BY FS_CardinalityType
  <2> QED BY <1>2, <2>2, <2>3
<1> QED
  BY <1>1, <1>2

\* A key is only ever added to a table that then is within the limit.
THEOREM InsertsWithinLimit == Spec => InsertWithinLimit
<1>1. ASSUME TypeOK, [Next]_vars
      PROVE  \/ DOMAIN sessions' \subseteq DOMAIN sessions
             \/ maxSessions = 0
             \/ Cardinality(DOMAIN sessions') <= maxSessions
  <2>1. ASSUME NEW c \in Callers, GetOrCreate(c), maxSessions # 0, Create(c)
        PROVE  Cardinality(DOMAIN sessions') <= maxSessions
    <3> DEFINE kept == Unexpired(lookup[c].now)
               k == lookup[c].key
    <3>1. lookup[c] # Idle
      BY <2>1 DEF GetOrCreate
    <3>2. PICK E \in Evictions(kept) : DOMAIN sessions' = (DOMAIN kept \ E) \cup {k}
      BY <1>1, <2>1, <3>1, CreateShape
    <3>3. kept \in Tables /\ k \notin DOMAIN kept
      BY <1>1, <2>1, <3>1, CreateShape, UnexpiredShape
    <3>4. IsFiniteSet(DOMAIN kept)
      <4> HIDE DEF kept
      <4> QED BY <3>3, TableShape
    <3>5. maxSessions \in Nat
      BY <1>1, ConstantsAssumption DEF TypeOK, ConstantsAssumption
    <3> HIDE DEF kept, k
    <3>6. Cardinality(DOMAIN kept \ E) < maxSessions
      BY <2>1, <3>2, <3>4, <3>5, EvictionsBound
    <3>7. IsFiniteSet(DOMAIN kept \ E)
      BY <3>4, FS_Subset
    <3>8. Cardinality((DOMAIN kept \ E) \cup {k}) = Cardinality(DOMAIN kept \ E) + 1
      BY <3>3, <3>7, FS_AddElement
    <3>9. Cardinality(DOMAIN kept \ E) \in Nat
      BY <3>7, FS_CardinalityType
    <3> QED BY <3>2, <3>5, <3>6, <3>8, <3>9
  <2>2. ASSUME NEW c \in Callers, GetOrCreate(c), Hit(c)
        PROVE  DOMAIN sessions' \subseteq DOMAIN sessions
    BY <1>1, <2>2, HitShape DEF GetOrCreate
  <2>3. CASE Prune
    BY <1>1, <2>3, PruneShape
  <2> QED BY <1>1, <2>1, <2>2, <2>3, TableUntouched DEF GetOrCreate
<1> QED
  BY <1>1, TypeCorrect, PTL DEF Spec, InsertWithinLimit

\* A session that is gone after a step either was asked for longer ago than
\* the time to live, or made room for another in a table at its limit.
LEMMA Removal ==
    ASSUME TypeOK, StampsLagGrants, [Next]_vars,
           NEW k \in DOMAIN sessions, ~(clock - sessions[k].lastUsed > ttl),
           k \notin DOMAIN sessions' \/ sessions'[k].sess # sessions[k].sess
    PROVE  \E c \in Callers :
             /\ lookup[c] # Idle /\ Create(c)
             /\ k \in DOMAIN Unexpired(lookup[c].now)
<1>1. /\ clock \in Nat /\ ttl \in Nat /\ sessions[k].lastUsed \in Nat
  <2>1. sessions[k] \in Entry
    BY TableShape DEF TypeOK
  <2> QED BY <2>1, InstantsAreNaturals, ConstantsAssumption
             DEF TypeOK, Entry, ConstantsAssumption
<1>2. ASSUME NEW now \in Instants, now <= clock
      PROVE  ~Expired(sessions[k], now)
  BY <1>1, <1>2, InstantsAreNaturals DEF Expired
<1>3. ~Prune
  <2> SUFFICES ASSUME Prune PROVE FALSE
    OBVIOUS
  <2>1. pruner.now \in Instants /\ pruner.now <= clock
    BY DEF TypeOK, Pruner, StampsLagGrants
  <2>2. k \in DOMAIN sessions' /\ sessions'[k] = sessions[k]
    BY <1>2, <2>1, PruneShape
  <2> QED BY <2>2
<1>4. PICK c \in Callers : GetOrCreate(c)
  BY <1>3, TableUntouched
<1>5. /\ lookup[c] # Idle
      /\ Hit(c) \/ Create(c)
      /\ lookup[c].now \in Instants /\ lookup[c].now <= clock
  BY <1>4, WaitingLookup DEF GetOrCreate, StampsLagGrants
<1>6. ~Expired(sessions[k], lookup[c].now)
  BY <1>2, <1>5
<1>7. ~Hit(c)
  BY <1>5, <1>6, HitShape
<1> QED
  BY <1>5, <1>6, <1>7, UnexpiredShape

\* Eviction is least-recently-used up to the lag of the stamps.
THEOREM EvictsLeastRecentSafe == Spec => EvictsLeastRecent
<1>1. ASSUME TypeOK, StampsLagGrants, [Next]_vars,
             NEW k \in DOMAIN sessions \ DOMAIN sessions',
             ~(clock - sessions[k].lastUsed > ttl),
             NEW j \in DOMAIN sessions \cap DOMAIN sessions', sessions'[j] = sessions[j]
      PROVE  sessions[k].lastUsed <= served[j]
  <2>1. PICK c \in Callers :
          lookup[c] # Idle /\ Create(c) /\ k \in DOMAIN Unexpired(lookup[c].now)
    BY <1>1, Removal
  <2> DEFINE kept == Unexpired(lookup[c].now)
  <2>2. PICK E \in Evictions(kept) : DOMAIN sessions' = (DOMAIN kept \ E) \cup {lookup[c].key}
    BY <1>1, <2>1, CreateShape
  <2>3. k \in E
    BY <1>1, <2>1, <2>2
  <2>4. \A e \in E, i \in DOMAIN kept \ E : kept[e].lastUsed <= kept[i].lastUsed
    BY <2>3 DEF Evictions
  <2>5. j \in DOMAIN kept
    <3> SUFFICES ASSUME j = lookup[c].key, j \notin DOMAIN kept PROVE FALSE
      BY <2>2
    <3>1. Expired(sessions[j], lookup[c].now)
      BY <1>1, UnexpiredShape
    <3>2. sessions[j].lastUsed = lookup[c].now
      BY <1>1, <2>1, CreateShape
    <3>3. lookup[c].now \in Nat /\ ttl \in Nat /\ ttl # 0
      BY <1>1, <2>1, WaitingLookup, InstantsAreNaturals, ConstantsAssumption
      DEF TypeOK, ConstantsAssumption
    <3> QED BY <3>1, <3>2, <3>3 DEF Expired
  <2>6. j \in DOMAIN kept \ E
    BY <1>1, <2>1, <2>2, <2>5, CreateShape
  <2>7. sessions[k].lastUsed <= sessions[j].lastUsed
    <3>1. kept[k] = sessions[k] /\ kept[j] = sessions[j]
      BY <1>1, <2>1, <2>5, UnexpiredShape
    <3> QED BY <2>3, <2>4, <2>6, <3>1
  <2>8. /\ sessions[k].lastUsed \in Nat
        /\ sessions[j].lastUsed \in Nat
        /\ served[j] \in Nat
    BY <1>1, TableShape, InstantsAreNaturals DEF TypeOK, Entry
  <2> QED BY <1>1, <2>7, <2>8 DEF StampsLagGrants
<1>2. TypeOK /\ StampsLagGrants /\ [Next]_vars =>
        [\A k \in DOMAIN sessions \ DOMAIN sessions' :
            \/ clock - sessions[k].lastUsed > ttl
            \/ \A j \in DOMAIN sessions \cap DOMAIN sessions' :
                 sessions'[j] = sessions[j] => sessions[k].lastUsed <= served[j]]_vars
  BY <1>1
<1> QED
  BY <1>2, TypeCorrect, StampsSafe, PTL DEF Spec, EvictsLeastRecent

\* A conversation that is still within its time to live keeps its session
\* object as long as the table is below its limit.
THEOREM LiveSessionsKept == Spec => KeepsLiveSessions
<1>1. ASSUME TypeOK, StampsLagGrants, [Next]_vars, NEW k \in DOMAIN sessions,
             ~(clock - sessions[k].lastUsed > ttl),
             ~(maxSessions > 0 /\ Cardinality(DOMAIN sessions) >= maxSessions)
      PROVE  k \in DOMAIN sessions' /\ sessions'[k].sess = sessions[k].sess
  <2> SUFFICES ASSUME k \notin DOMAIN sessions' \/ sessions'[k].sess # sessions[k].sess
               PROVE  FALSE
    OBVIOUS
  <2>1. PICK c \in Callers :
          lookup[c] # Idle /\ Create(c) /\ k \in DOMAIN Unexpired(lookup[c].now)
    BY <1>1, Removal
  <2> DEFINE kept == Unexpired(lookup[c].now)
  <2>2. PICK E \in Evictions(kept) :
          /\ DOMAIN sessions' = (DOMAIN kept \ E) \cup {lookup[c].key}
          /\ \A j \in DOMAIN kept \ E : sessions'[j] = sessions[j] /\ served'[j] = served[j]
    BY <1>1, <2>1, CreateShape
  <2>3. E # {}
    BY <2>1, <2>2
  <2>4. maxSessions > 0 /\ Cardinality(DOMAIN kept) >= maxSessions
    BY <2>3 DEF Evictions
  <2>5. Cardinality(DOMAIN kept) <= Cardinality(DOMAIN sessions)
    <3>1. DOMAIN kept \subseteq DOMAIN sessions
      BY <1>1, UnexpiredShape
    <3>2. IsFiniteSet(DOMAIN sessions)
      BY <1>1, TableShape DEF TypeOK
    <3> HIDE DEF kept
    <3> QED BY <3>1, <3>2, FS_Subset
  <2>6. /\ Cardinality(DOMAIN kept) \in Nat
        /\ Cardinality(DOMAIN sessions) \in Nat
        /\ maxSessions \in Nat
    <3>1. IsFiniteSet(DOMAIN sessions)
      BY <1>1, TableShape DEF TypeOK
    <3>2. DOMAIN kept \subseteq DOMAIN sessions
      BY <1>1, UnexpiredShape
    <3>3. IsFiniteSet(DOMAIN kept)
      <4> HIDE DEF kept
      <4> QED BY <3>1, <3>2, FS_Subset
    <3> HIDE DEF kept
    <3> QED BY <1>1, <3>1, <3>3, FS_CardinalityType, ConstantsAssumption
            DEF TypeOK, ConstantsAssumption
  <2> HIDE DEF kept
  <2> QED BY <1>1, <2>4, <2>5, <2>6
<1>2. TypeOK /\ StampsLagGrants /\ [Next]_vars =>
        [\A k \in DOMAIN sessions :
            \/ clock - sessions[k].lastUsed > ttl
            \/ maxSessions > 0 /\ Cardinality(DOMAIN sessions) >= maxSessions
            \/ k \in DOMAIN sessions' /\ sessions'[k].sess = sessions[k].sess]_vars
  BY <1>1
<1> QED
  BY <1>2, TypeCorrect, StampsSafe, PTL DEF Spec, KeepsLiveSessions

-----------------------------------------------------------------------------
(***************************************************************************)
(* Induction over the naturals, from the fact that < is well founded.      *)
(***************************************************************************)

LEMMA LessOnNat == \A x, y \in Nat : <<x, y>> \in OpToRel(<, Nat) <=> x < y
BY DEF OpToRel

\* A set of naturals with 0 and all successors of its elements has all: there
\* is no least one among the others.
LEMMA Induction ==
    ASSUME NEW S \in SUBSET Nat, 0 \in S, \A n \in S : n + 1 \in S
    PROVE  S = Nat
<1> DEFINE Less == OpToRel(<, Nat)
           Rest == Nat \ S
<1>1. IsWellFoundedOn(Less, Nat)
  BY NatLessThanWellFounded
<1>2. \A x, y \in Nat : <<x, y>> \in Less <=> x < y
  BY LessOnNat
<1> HIDE DEF Less
<1>3. Rest # {} => \E n \in Rest : \A m \in Rest : ~ (<<m, n>> \in Less)
  <2> HIDE DEF Rest
  <2>1. Rest \subseteq Nat
    BY DEF Rest
  <2> QED
    BY <1>1, <2>1, WFMin
<1>4. ASSUME NEW n \in Rest PROVE n # 0 /\ n - 1 \in Rest /\ n - 1 < n
  BY <1>4
<1> QED
  BY <1>2, <1>3, <1>4

-----------------------------------------------------------------------------
(***************************************************************************)
(* Without, which is defined by recursion.                                 *)
(***************************************************************************)

\* f is the function that Without(s, S) chooses, on the first m elements.
IsKept(f, s, S, m) ==
    f = [n \in 0 .. m |-> IF n = 0 THEN <<>>
            ELSE IF s[n] \in S THEN f[n - 1] ELSE Append(f[n - 1], s[n])]

\* What that says of f.
KeepsStepwise(f, s, S) ==
    /\ f[0] = <<>>
    /\ \A n \in 1 .. Len(s) :
         f[n] = IF s[n] \in S THEN f[n - 1] ELSE Append(f[n - 1], s[n])

\* There is such a function.
LEMMA KeptExists == ASSUME NEW s, NEW S, NEW m \in Nat PROVE \E f : IsKept(f, s, S, m)
<1> DEFINE
      Step(f, n) == IF s[n] \in S THEN f[n - 1] ELSE Append(f[n - 1], s[n])
      Good == { k \in Nat : \E f : f = [n \in 0 .. k |-> IF n = 0 THEN <<>> ELSE Step(f, n)] }
<1>1. 0 \in Good
  <2> DEFINE f == [n \in 0 .. 0 |-> <<>>]
  <2>1. f = [n \in 0 .. 0 |-> IF n = 0 THEN <<>> ELSE Step(f, n)]
    OBVIOUS
  <2> HIDE DEF f
  <2> QED BY <2>1
<1>2. ASSUME NEW k \in Good PROVE k + 1 \in Good
  <2>1. PICK f : f = [n \in 0 .. k |-> IF n = 0 THEN <<>> ELSE Step(f, n)]
    OBVIOUS
  <2> DEFINE g == [n \in 0 .. k + 1 |-> IF n = k + 1 THEN Step(f, n) ELSE f[n]]
  <2>2. \A n \in 0 .. k : n # k + 1 /\ g[n] = f[n]
    OBVIOUS
  <2>3. \A n \in 1 .. k + 1 : n - 1 \in 0 .. k /\ Step(g, n) = Step(f, n)
    BY <2>2
  <2>4. \A n \in 0 .. k + 1 : g[n] = IF n = 0 THEN <<>> ELSE Step(g, n)
    <3> TAKE n \in 0 .. k + 1
    <3>1. CASE n = k + 1
      BY <3>1, <2>3
    <3>2. CASE n # k + 1 /\ n # 0
      <4>1. n \in 0 .. k /\ n \in 1 .. k + 1
        BY <3>2
      <4>2. f[n] = Step(f, n)
        BY <2>1, <3>2, <4>1
      <4> QED
        BY <2>2, <2>3, <3>2, <4>1, <4>2
    <3>3. CASE n = 0
      BY <3>3, <2>1, <2>2
    <3> QED BY <3>1, <3>2, <3>3
  <2>5. g = [n \in 0 .. k + 1 |-> IF n = 0 THEN <<>> ELSE Step(g, n)]
    <3>1. g = [n \in 0 .. k + 1 |-> g[n]]
      OBVIOUS
    <3> HIDE DEF g
    <3> QED BY <2>4, <3>1
  <2>6. \E h : h = [n \in 0 .. k + 1 |-> IF n = 0 THEN <<>> ELSE Step(h, n)]
    <3> HIDE DEF g
    <3> QED BY <2>5
  <2> HIDE DEF Step
  <2> QED BY <2>6
<1>3. Good = Nat
  <2>1. Good \in SUBSET Nat
    OBVIOUS
  <2> HIDE DEF Good
  <2> QED BY <1>1, <1>2, <2>1, Induction
<1> QED
  BY <1>3 DEF IsKept

-----------------------------------------------------------------------------
(***************************************************************************)
(* Sequences of distinct elements.                                         *)
(***************************************************************************)

Elements(s) == { s[i] : i \in 1 .. Len(s) }

Distinct(s) == \A i, j \in 1 .. Len(s) : s[i] = s[j] => i = j

\* One more element, which is new.
LEMMA AppendNew ==
    ASSUME NEW X, NEW s \in Seq(X), NEW x \in X
    PROVE  /\ Append(s, x) \in Seq(X)
           /\ Elements(Append(s, x)) = Elements(s) \cup {x}
           /\ Distinct(s) /\ x \notin Elements(s) => Distinct(Append(s, x))
<1>1. /\ Append(s, x) \in Seq(X) /\ Len(Append(s, x)) = Len(s) + 1 /\ Len(s) \in Nat
      /\ \A i \in 1 .. Len(s) : Append(s, x)[i] = s[i]
      /\ Append(s, x)[Len(s) + 1] = x
  BY AppendProperties, LenProperties
<1>2. 1 .. Len(s) + 1 = (1 .. Len(s)) \cup {Len(s) + 1}
  BY <1>1
<1>3. Elements(Append(s, x)) = Elements(s) \cup {x}
  BY <1>1, <1>2 DEF Elements
<1>4. ASSUME Distinct(s), x \notin Elements(s) PROVE Distinct(Append(s, x))
  <2> SUFFICES ASSUME NEW i \in 1 .. Len(s) + 1, NEW j \in 1 .. Len(s) + 1,
                      Append(s, x)[i] = Append(s, x)[j]
               PROVE  i = j
    BY <1>1 DEF Distinct
  <2> QED
    BY <1>1, <1>2, <1>4 DEF Distinct, Elements
<1> QED
  BY <1>1, <1>3, <1>4

\* Without goes through the sequence from its beginning.
LEMMA WithoutUnfolds ==
    ASSUME NEW s, NEW S, Len(s) \in Nat
    PROVE  \E g : Without(s, S) = g[Len(s)] /\ KeepsStepwise(g, s, S)
<1> DEFINE g == CHOOSE f : IsKept(f, s, S, Len(s))
<1>1. IsKept(g, s, S, Len(s))
  BY KeptExists
<1>2. Without(s, S) = g[Len(s)]
  BY DEF Without, IsKept
<1> HIDE DEF g
<1>3. KeepsStepwise(g, s, S)
  <2>1. g[0] = <<>>
    BY <1>1 DEF IsKept
  <2>2. ASSUME NEW n \in 1 .. Len(s)
        PROVE  g[n] = IF s[n] \in S THEN g[n - 1] ELSE Append(g[n - 1], s[n])
    <3>1. n \in 0 .. Len(s) /\ n # 0
      OBVIOUS
    <3> QED
      BY <1>1, <3>1 DEF IsKept
  <2> QED
    BY <2>1, <2>2 DEF KeepsStepwise
<1> QED
  BY <1>2, <1>3

\* What Without leaves: the other elements, distinct if they were.
LEMMA WithoutShape ==
    ASSUME NEW X, NEW s \in Seq(X), NEW S
    PROVE  /\ Without(s, S) \in Seq(X)
           /\ Elements(Without(s, S)) = Elements(s) \ S
           /\ Distinct(s) => Distinct(Without(s, S))
<1>1. Len(s) \in Nat /\ \A i \in 1 .. Len(s) : s[i] \in X
  BY LenProperties, ElementOfSeq
<1>2. PICK g : Without(s, S) = g[Len(s)] /\ KeepsStepwise(g, s, S)
  BY <1>1, WithoutUnfolds
<1> DEFINE Before(n) == { s[i] : i \in 1 .. n }
           Good == { n \in Nat : n <= Len(s) =>
                       /\ g[n] \in Seq(X)
                       /\ Elements(g[n]) = Before(n) \ S
                       /\ Distinct(s) => Distinct(g[n]) }
<1>4. 0 \in Good
  <2>1. g[0] = <<>>
    BY <1>2 DEF KeepsStepwise
  <2>2. <<>> \in Seq(X) /\ Len(<<>>) = 0
    BY EmptySeq
  <2>3. Elements(<<>>) = {} /\ Distinct(<<>>) /\ Before(0) = {}
    BY <2>2 DEF Elements, Distinct
  <2> QED
    BY <2>1, <2>2, <2>3
<1>5. ASSUME NEW n \in Good PROVE n + 1 \in Good
  <2> SUFFICES ASSUME n + 1 <= Len(s)
               PROVE  /\ g[n + 1] \in Seq(X)
                      /\ Elements(g[n + 1]) = Before(n + 1) \ S
                      /\ Distinct(s) => Distinct(g[n + 1])
    OBVIOUS
  <2>1. /\ n \in Nat /\ n <= Len(s) /\ n + 1 \in 0 .. Len(s) /\ n + 1 \in 1 .. Len(s)
        /\ n + 1 # 0 /\ n + 1 - 1 = n
    BY <1>1
  <2>2. /\ g[n] \in Seq(X)
        /\ Elements(g[n]) = Before(n) \ S
        /\ Distinct(s) => Distinct(g[n])
    BY <2>1
  <2>3. g[n + 1] = IF s[n + 1] \in S THEN g[n] ELSE Append(g[n], s[n + 1])
    BY <1>2, <2>1 DEF KeepsStepwise
  <2>4. Before(n + 1) = Before(n) \cup {s[n + 1]} /\ s[n + 1] \in X
    BY <1>1, <2>1
  <2>5. Distinct(s) => s[n + 1] \notin Before(n)
    BY <1>1, <2>1 DEF Distinct
  <2> HIDE DEF Before
  <2>6. CASE s[n + 1] \in S
    BY <2>2, <2>3, <2>4, <2>6
  <2>7. CASE s[n + 1] \notin S
    <3>1. g[n + 1] = Append(g[n], s[n + 1])
      BY <2>3, <2>7
    <3>2. /\ Append(g[n], s[n + 1]) \in Seq(X)
          /\ Elements(Append(g[n], s[n + 1])) = Elements(g[n]) \cup {s[n + 1]}
          /\ Distinct(g[n]) /\ s[n + 1] \notin Elements(g[n])
                => Distinct(Append(g[n], s[n + 1]))
      BY <2>2, <2>4, AppendNew
    <3> QED
      BY <2>2, <2>4, <2>5, <2>7, <3>1, <3>2
  <2> QED
    BY <2>6, <2>7
<1>6. Good = Nat
  <2>1. Good \in SUBSET Nat
    OBVIOUS
  <2> HIDE DEF Good
  <2> QED BY <1>4, <1>5, <2>1, Induction
<1>7. Before(Len(s)) = Elements(s)
  BY DEF Elements
<1> HIDE DEF Before
<1> QED
  BY <1>1, <1>2, <1>6, <1>7

\* A concatenation has the elements of both parts; it has none twice if
\* neither part has and they share none.
LEMMA ConcatShape ==
    ASSUME NEW X, NEW s \in Seq(X), NEW t \in Seq(X)
    PROVE  /\ Elements(s \o t) = Elements(s) \cup Elements(t)
           /\ Distinct(s) /\ Distinct(t) /\ Elements(s) \cap Elements(t) = {} => Distinct(s \o t)
<1>1. /\ s \o t \in Seq(X) /\ Len(s \o t) = Len(s) + Len(t) /\ Len(s) \in Nat /\ Len(t) \in Nat
      /\ \A i \in 1 .. Len(s) + Len(t) :
            (s \o t)[i] = IF i <= Len(s) THEN s[i] ELSE t[i - Len(s)]
  BY ConcatProperties, LenProperties
<1>2. /\ \A i \in 1 .. Len(s) : i \in 1 .. Len(s) + Len(t) /\ (s \o t)[i] = s[i]
      /\ \A i \in 1 .. Len(t) : i + Len(s) \in 1 .. Len(s) + Len(t) /\ (s \o t)[i + Len(s)] = t[i]
      /\ \A i \in 1 .. Len(s) + Len(t) : i \in 1 .. Len(s) \/ i - Len(s) \in 1 .. Len(t)
  <2>1. ASSUME NEW i \in 1 .. Len(s)
        PROVE  i \in 1 .. Len(s) + Len(t) /\ (s \o t)[i] = s[i]
    <3>1. i \in 1 .. Len(s) + Len(t) /\ i <= Len(s)
      BY <1>1
    <3> QED BY <1>1, <3>1
  <2>2. ASSUME NEW i \in 1 .. Len(t)
        PROVE  i + Len(s) \in 1 .. Len(s) + Len(t) /\ (s \o t)[i + Len(s)] = t[i]
    <3>1. i + Len(s) \in 1 .. Len(s) + Len(t) /\ ~ (i + Len(s) <= Len(s)) /\ i + Len(s) - Len(s) = i
      BY <1>1
    <3> QED BY <1>1, <3>1
  <2>3. \A i \in 1 .. Len(s) + Len(t) : i \in 1 .. Len(s) \/ i - Len(s) \in 1 .. Len(t)
    BY <1>1
  <2> QED
    BY <2>1, <2>2, <2>3
<1>3. \A i \in 1 .. Len(s) + Len(t) :
        \/ i \in 1 .. Len(s) /\ (s \o t)[i] = s[i]
        \/ i - Len(s) \in 1 .. Len(t) /\ (s \o t)[i] = t[i - Len(s)]
  <2> TAKE i \in 1 .. Len(s) + Len(t)
  <2>1. CASE i \in 1 .. Len(s)
    BY <1>2, <2>1
  <2>2. CASE i - Len(s) \in 1 .. Len(t)
    <3>1. i = (i - Len(s)) + Len(s)
      BY <1>1
    <3> QED BY <1>2, <2>2, <3>1
  <2> QED
    BY <1>2, <2>1, <2>2
<1>4. Elements(s \o t) = Elements(s) \cup Elements(t)
  <2>1. ASSUME NEW i \in 1 .. Len(s \o t) PROVE (s \o t)[i] \in Elements(s) \cup Elements(t)
    BY <1>1, <1>3 DEF Elements
  <2>2. ASSUME NEW i \in 1 .. Len(s) PROVE s[i] \in Elements(s \o t)
    BY <1>1, <1>2 DEF Elements
  <2>3. ASSUME NEW i \in 1 .. Len(t) PROVE t[i] \in Elements(s \o t)
    BY <1>1, <1>2 DEF Elements
  <2> QED
    BY <2>1, <2>2, <2>3 DEF Elements
<1>5. ASSUME Distinct(s), Distinct(t), Elements(s) \cap Elements(t) = {}
      PROVE  Distinct(s \o t)
  <2> SUFFICES ASSUME NEW i \in 1 .. Len(s) + Len(t), NEW j \in 1 .. Len(s) + Len(t),
                      (s \o t)[i] = (s \o t)[j]
               PROVE  i = j
    BY <1>1 DEF Distinct
  <2>1. CASE i \in 1 .. Len(s) /\ j \in 1 .. Len(s)
    BY <1>2, <1>5, <2>1 DEF Distinct
  <2>2. CASE i - Len(s) \in 1 .. Len(t) /\ j - Len(s) \in 1 .. Len(t)
    <3>1. (s \o t)[i] = t[i - Len(s)] /\ (s \o t)[j] = t[j - Len(s)]
      BY <1>1, <1>3, <2>2
    <3>2. i - Len(s) = j - Len(s)
      BY <1>5, <2>2, <3>1 DEF Distinct
    <3> QED BY <1>1, <3>2
  <2>3. CASE i \in 1 .. Len(s) /\ j - Len(s) \in 1 .. Len(t)
    <3>1. (s \o t)[i] = s[i] /\ (s \o t)[j] = t[j - Len(s)]
      BY <1>1, <1>3, <2>3
    <3> QED BY <1>5, <2>3, <3>1 DEF Elements
  <2>4. CASE i - Len(s) \in 1 .. Len(t) /\ j \in 1 .. Len(s)
    <3>1. (s \o t)[i] = t[i - Len(s)] /\ (s \o t)[j] = s[j]
      BY <1>1, <1>3, <2>4
    <3> QED BY <1>5, <2>4, <3>1 DEF Elements
  <2> QED
    BY <1>2, <2>1, <2>2, <2>3, <2>4
<1> QED
  BY <1>4, <1>5

-----------------------------------------------------------------------------
(***************************************************************************)
(* The operations of a thinking cache.                                     *)
(***************************************************************************)

\* How many of n keys pruneLocked drops.
Dropped(n) == IF n > Limit THEN n - Limit ELSE 0

\* Newest drops the first keys and keeps the others in their order.
LEMMA NewestShape ==
    ASSUME NEW X, NEW s \in Seq(X)
    PROVE  /\ Dropped(Len(s)) \in 0 .. Len(s)
           /\ Newest(s) \in Seq(X)
           /\ Len(Newest(s)) = Len(s) - Dropped(Len(s))
           /\ \A i \in 1 .. Len(s) - Dropped(Len(s)) : Newest(s)[i] = s[i + Dropped(Len(s))]
<1> DEFINE d == Dropped(Len(s))
<1>1. Len(s) \in Nat /\ \A i \in 1 .. Len(s) : s[i] \in X
  BY LenProperties, ElementOfSeq
<1>2. d \in 0 .. Len(s) /\ d \in Nat
  BY <1>1, LimitAssumption DEF Dropped
<1>3. Max({1, Len(s) - Limit + 1}) = d + 1
  <2> DEFINE S == {1, Len(s) - Limit + 1}
  <2>1. d + 1 \in S /\ \A x \in S : d + 1 >= x /\ x \in Int
    BY <1>1, LimitAssumption DEF Dropped
  <2>2. \A y \in S : (\A x \in S : y >= x) => y = d + 1
    <3> HIDE DEF S
    <3> QED BY <1>2, <2>1
  <2>3. Max(S) = CHOOSE x \in S : \A y \in S : x >= y
    BY DEF Max
  <2>4. Max(S) = d + 1
    <3> HIDE DEF S, d
    <3> QED BY <2>1, <2>2, <2>3
  <2> QED
    BY <2>4
<1>4. Newest(s) = SubSeq(s, d + 1, Len(s))
  BY <1>3 DEF Newest
<1>5. \A i \in d + 1 .. Len(s) : s[i] \in X
  BY <1>1, <1>2
<1> HIDE DEF d
<1>6. /\ SubSeq(s, d + 1, Len(s)) \in Seq(X)
      /\ Len(SubSeq(s, d + 1, Len(s))) = IF d + 1 <= Len(s) THEN Len(s) - (d + 1) + 1 ELSE 0
      /\ \A i \in 1 .. Len(s) - (d + 1) + 1 : SubSeq(s, d + 1, Len(s))[i] = s[(d + 1) + i - 1]
  BY <1>1, <1>2, <1>5, SubSeqProperties
<1>7. ASSUME NEW i \in 1 .. Len(s) - d PROVE Newest(s)[i] = s[i + d]
  <2>1. i \in 1 .. Len(s) - (d + 1) + 1 /\ (d + 1) + i - 1 = i + d
    BY <1>1, <1>2
  <2> QED
    BY <1>4, <1>6, <2>1
<1>8. Len(Newest(s)) = Len(s) - d
  BY <1>1, <1>2, <1>4, <1>6
<1> QED
  BY <1>2, <1>4, <1>6, <1>7, <1>8 DEF d

\* An order that is within the limit is kept whole.
LEMMA NewestWithinLimit ==
    ASSUME NEW X, NEW s \in Seq(X), Len(s) <= Limit
    PROVE  Newest(s) = s
<1>1. Dropped(Len(s)) = 0 /\ Len(s) \in Nat
  BY LenProperties, LimitAssumption DEF Dropped
<1>2. /\ Newest(s) \in Seq(X)
      /\ Len(Newest(s)) = Len(s)
      /\ \A i \in 1 .. Len(s) : Newest(s)[i] = s[i + 0]
  BY <1>1, NewestShape
<1>3. \A i \in 1 .. Len(s) : Newest(s)[i] = s[i]
  BY <1>1, <1>2
<1> QED
  BY <1>2, <1>3, SeqEqual

\* An order loses keys only when it is left at the limit.
LEMMA NewestIsFull ==
    ASSUME NEW X, NEW s \in Seq(X)
    PROVE  Newest(s) = s \/ Len(Newest(s)) = Limit
<1>1. Len(s) \in Nat /\ Limit \in Nat
  BY LenProperties, LimitAssumption
<1>2. CASE Len(s) <= Limit
  BY <1>2, NewestWithinLimit
<1>3. CASE Len(s) > Limit
  <2>1. Dropped(Len(s)) = Len(s) - Limit
    BY <1>3 DEF Dropped
  <2>2. Len(Newest(s)) = Len(s) - Dropped(Len(s))
    BY NewestShape
  <2> QED
    BY <1>1, <2>1, <2>2
<1> QED
  BY <1>1, <1>2, <1>3

\* A map holds exactly the keys of its order, once each, and no more than the
\* limit.
Holds(records, order, X) ==
    /\ order \in Seq(X) /\ Distinct(order)
    /\ DOMAIN records = Elements(order)
    /\ records = [k \in DOMAIN records |-> records[k]]
    /\ Len(order) <= Limit

\* A value with the fields of a cache.
IsState(state) ==
    state = [ records     |-> state.records,     order     |-> state.order,
              textRecords |-> state.textRecords, textOrder |-> state.textOrder ]

\* A cache whose maps are in order.
IsCache(state, X, Y) ==
    /\ IsState(state)
    /\ Holds(state.records, state.order, X)
    /\ Holds(state.textRecords, state.textOrder, Y)

LEMMA RangeIsElements ==
    ASSUME NEW X, NEW s \in Seq(X)
    PROVE  Range(s) = Elements(s) /\ (IsInjective(s) <=> Distinct(s))
BY LenProperties DEF Range, IsInjective, Elements, Distinct

LEMMA CacheIsWellFormed ==
    ASSUME NEW state, NEW X, NEW Y, IsCache(state, X, Y)
    PROVE  WellFormed(state)
<1>1. ASSUME NEW r, NEW o, NEW Z, Holds(r, o, Z) PROVE Indexed(r, o)
  BY <1>1, RangeIsElements DEF Holds, Indexed
<1> QED
  BY <1>1 DEF IsCache, WellFormed

LEMMA EmptyIsCache == ASSUME NEW X, NEW Y PROVE IsCache(EmptyState, X, Y)
<1>1. <<>> \in Seq(X) /\ <<>> \in Seq(Y) /\ Len(<<>>) = 0
  BY EmptySeq
<1>2. Elements(<<>>) = {} /\ Distinct(<<>>)
  BY <1>1 DEF Elements, Distinct
<1> QED
  BY <1>1, <1>2, LimitAssumption DEF EmptyState, IsCache, IsState, Holds

\* How result differs from records: block at some of the keys, some keys less.
Overwrites(records, result, keys, block) ==
    /\ \A k \in DOMAIN result : result[k] = IF k \in keys THEN block ELSE records[k]
    /\ DOMAIN result \subseteq DOMAIN records \cup keys

\* The map that the keys of an order have after a block was remembered for ks.
NewRecords(records, order, ks, block) ==
    [k \in Elements(order) |-> Overwrite(records, Elements(ks), block)[k]]

\* A map of a cache after a block was remembered for the keys ks.
LEMMA MapAfterRemember ==
    ASSUME NEW X, NEW records, NEW order, Holds(records, order, X),
           NEW ks \in Seq(X), Distinct(ks), NEW block,
           NEW after, after = Newest(Extend(order, records, ks))
    PROVE  /\ Holds(NewRecords(records, after, ks, block), after, X)
           /\ Overwrites(records, NewRecords(records, after, ks, block), Elements(ks), block)
<1> DEFINE result == NewRecords(records, after, ks, block)
<1> DEFINE fresh == Without(ks, DOMAIN records)
           longer == order \o fresh
<1>1. /\ fresh \in Seq(X) /\ Elements(fresh) = Elements(ks) \ DOMAIN records /\ Distinct(fresh)
  BY WithoutShape
<1>2. order \in Seq(X) /\ Distinct(order) /\ DOMAIN records = Elements(order)
  BY DEF Holds
<1>3. /\ longer \in Seq(X) /\ Distinct(longer)
      /\ Elements(longer) = DOMAIN records \cup Elements(ks)
  <2>1. /\ Elements(longer) = Elements(order) \cup Elements(fresh)
        /\ Elements(order) \cap Elements(fresh) = {} => Distinct(longer)
    BY <1>1, <1>2, ConcatShape
  <2>2. longer \in Seq(X)
    BY <1>1, <1>2, ConcatProperties
  <2> QED
    BY <1>1, <1>2, <2>1, <2>2
<1>4. Extend(order, records, ks) = longer
  BY DEF Extend
<1> HIDE DEF fresh, longer
<1>5. /\ after \in Seq(X) /\ Distinct(after) /\ Len(after) <= Limit
      /\ Elements(after) \subseteq Elements(longer)
  <2> DEFINE d == Dropped(Len(longer))
  <2>1. /\ d \in 0 .. Len(longer) /\ after \in Seq(X)
        /\ Len(after) = Len(longer) - d /\ Len(longer) \in Nat
        /\ \A i \in 1 .. Len(longer) - d : after[i] = longer[i + d]
    BY <1>3, <1>4, NewestShape, LenProperties
  <2>2. Len(after) <= Limit
    BY <2>1, LimitAssumption DEF Dropped
  <2> HIDE DEF d
  <2>3. \A i \in 1 .. Len(after) : i + d \in 1 .. Len(longer) /\ after[i] = longer[i + d]
    BY <2>1
  <2>4. Elements(after) \subseteq Elements(longer)
    BY <2>3 DEF Elements
  <2>5. Distinct(after)
    <3> SUFFICES ASSUME NEW i \in 1 .. Len(after), NEW j \in 1 .. Len(after), after[i] = after[j]
                 PROVE  i = j
      BY DEF Distinct
    <3>1. i + d = j + d
      BY <1>3, <2>3 DEF Distinct
    <3> QED
      BY <2>1, <3>1
  <2> QED
    BY <2>1, <2>2, <2>4, <2>5
<1>6. DOMAIN result = Elements(after) /\ result = [k \in DOMAIN result |-> result[k]]
  BY DEF NewRecords
<1>7. \A k \in DOMAIN result : result[k] = IF k \in Elements(ks) THEN block ELSE records[k]
  BY <1>3, <1>5 DEF Overwrite, NewRecords
<1> HIDE DEF result
<1>8. Holds(result, after, X) /\ Overwrites(records, result, Elements(ks), block)
  BY <1>3, <1>5, <1>6, <1>7 DEF Holds, Overwrites
<1> QED
  BY <1>8 DEF result

\* A map of a cache that is only pruned stays as it is.
LEMMA MapAfterPrune ==
    ASSUME NEW X, NEW records, NEW order, Holds(records, order, X)
    PROVE  /\ Newest(order) = order
           /\ Holds([k \in Range(order) |-> records[k]], order, X)
<1>1. order \in Seq(X) /\ Len(order) <= Limit /\ DOMAIN records = Elements(order)
  BY DEF Holds
<1>2. Newest(order) = order
  BY <1>1, NewestWithinLimit
<1>3. Range(order) = Elements(order)
  BY <1>1, RangeIsElements
<1> QED
  BY <1>2, <1>3 DEF Holds

\* A sequence is one of any set that has its elements.
LEMMA SeqOfElements ==
    ASSUME NEW Z, NEW s \in Seq(Z), NEW X, Elements(s) \subseteq X
    PROVE  s \in Seq(X)
<1>1. Len(s) \in Nat /\ s \in [1 .. Len(s) -> Z]
  BY LenProperties
<1>2. s \in [1 .. Len(s) -> X]
  BY <1>1 DEF Elements
<1> QED
  BY <1>1, <1>2, SeqDef

\* A cache after a block was remembered for the ids in named, none of them
\* empty, or for a text.
WithRecords(state, named, block) ==
    Pruned([state EXCEPT !.order = Extend(@, state.records, named),
                           !.records = Overwrite(@, Range(named), block)])

WithText(state, text, block) ==
    Pruned([state EXCEPT !.textOrder = Extend(@, state.textRecords, <<text>>),
                           !.textRecords = Overwrite(@, {text}, block)])

LEMMA Remembering ==
    /\ \A s, ids, block : RememberForToolCalls(s, ids, block) =
          IF block = NoPayload \/ ids = <<>> THEN s
          ELSE WithRecords(s, Without(ids, {NoKey}), block)
    /\ \A s, text, block : RememberForAssistantText(s, text, block) =
          IF block = NoPayload \/ text = NoKey THEN s ELSE WithText(s, text, block)
BY DEF RememberForToolCalls, RememberForAssistantText, WithRecords, WithText

\* The ids of an answer that are not empty.
LEMMA NamedShape ==
    ASSUME NEW X, NEW none, NEW ids \in Seq(X \cup {none}), Distinct(ids), none \notin X
    PROVE  /\ Without(ids, {none}) \in Seq(X) /\ Distinct(Without(ids, {none}))
           /\ Elements(Without(ids, {none})) = Elements(ids) \ {none}
           /\ Range(Without(ids, {none})) = Elements(ids) \ {none}
<1> DEFINE named == Without(ids, {none})
<1>1. /\ named \in Seq(X \cup {none}) /\ Distinct(named)
      /\ Elements(named) = Elements(ids) \ {none}
  BY WithoutShape
<1>2. Elements(ids) \subseteq X \cup {none}
  BY ElementOfSeq DEF Elements
<1> HIDE DEF named
<1>3. named \in Seq(X) /\ Range(named) = Elements(named)
  BY <1>1, <1>2, SeqOfElements, RangeIsElements
<1> QED
  BY <1>1, <1>3 DEF named

\* Remembering a block for the ids of an answer keeps a cache in order and
\* changes only the records of those ids.
LEMMA ToolCallsRemembered ==
    ASSUME NEW X, NEW Y, NEW state, IsCache(state, X, Y),
           NEW named \in Seq(X), Distinct(named), NEW block,
           NEW after, after = WithRecords(state, named, block)
    PROVE  /\ IsCache(after, X, Y)
           /\ Overwrites(state.records, after.records, Elements(named), block)
           /\ Overwrites(state.textRecords, after.textRecords, {}, block)
           /\ after.order = Newest(state.order \o Without(named, DOMAIN state.records))
<1> DEFINE order == Newest(Extend(state.order, state.records, named))
           records == NewRecords(state.records, order, named, block)
<1>2. /\ IsState(state)
      /\ Holds(state.records, state.order, X) /\ Holds(state.textRecords, state.textOrder, Y)
  BY DEF IsCache
<1>3. Holds(records, order, X) /\ Overwrites(state.records, records, Elements(named), block)
  BY <1>2, MapAfterRemember
<1>4. /\ Newest(state.textOrder) = state.textOrder
      /\ Holds([k \in Range(state.textOrder) |-> state.textRecords[k]], state.textOrder, Y)
      /\ DOMAIN state.textRecords = Range(state.textOrder)
  <2>1. DOMAIN state.textRecords = Range(state.textOrder)
    BY <1>2, RangeIsElements DEF Holds
  <2> QED
    BY <1>2, <2>1, MapAfterPrune
<1>5. Range(named) = Elements(named) /\ Range(order) = Elements(order)
  BY <1>3, RangeIsElements DEF Holds
<1>6. after = [ records     |-> records, order |-> order,
                textRecords |-> [k \in Range(state.textOrder) |-> state.textRecords[k]],
                textOrder   |-> state.textOrder ]
  <2> DEFINE grown == [state EXCEPT !.order = Extend(state.order, state.records, named),
                                    !.records = Overwrite(state.records, Range(named), block)]
  <2>1. after = Pruned(grown)
    BY DEF WithRecords
  <2>2. /\ grown.order = Extend(state.order, state.records, named)
        /\ grown.records = Overwrite(state.records, Elements(named), block)
        /\ grown.textOrder = state.textOrder /\ grown.textRecords = state.textRecords
    BY <1>2, <1>5 DEF IsState
  <2> HIDE DEF grown
  <2>3. Newest(grown.order) = order /\ Newest(grown.textOrder) = state.textOrder
    BY <1>4, <2>2
  <2>4. Pruned(grown) =
          [ records     |-> [k \in Range(order) |-> grown.records[k]], order |-> order,
            textRecords |-> [k \in Range(state.textOrder) |-> grown.textRecords[k]],
            textOrder   |-> state.textOrder ]
    <3> HIDE DEF order
    <3> QED BY <2>3 DEF Pruned
  <2>5. [k \in Range(order) |-> grown.records[k]] = records
    <3> HIDE DEF order
    <3> QED BY <1>5, <2>2 DEF NewRecords
  <2>6. [k \in Range(state.textOrder) |-> grown.textRecords[k]]
          = [k \in Range(state.textOrder) |-> state.textRecords[k]]
    BY <2>2
  <2> HIDE DEF order, records
  <2> QED
    BY <2>1, <2>4, <2>5, <2>6
<1>7. order = Newest(state.order \o Without(named, DOMAIN state.records))
  BY DEF Extend
<1> HIDE DEF order, records
<1>8. /\ after.records = records /\ after.order = order
      /\ after.textRecords = [k \in Range(state.textOrder) |-> state.textRecords[k]]
      /\ after.textOrder = state.textOrder /\ IsState(after)
  BY <1>6 DEF IsState
<1>9. IsCache(after, X, Y)
  BY <1>3, <1>4, <1>8 DEF IsCache
<1>10. Overwrites(state.records, after.records, Elements(named), block)
  BY <1>3, <1>8
<1>11. Overwrites(state.textRecords, after.textRecords, {}, block)
  BY <1>4, <1>8 DEF Overwrites
<1> QED
  BY <1>7, <1>8, <1>9, <1>10, <1>11

\* Remembering a block for a text changes only the record of that text.
LEMMA TextRemembered ==
    ASSUME NEW X, NEW Y, NEW state, IsCache(state, X, Y),
           NEW text \in Y, NEW block,
           NEW after, after = WithText(state, text, block)
    PROVE  /\ IsCache(after, X, Y)
           /\ Overwrites(state.records, after.records, {}, block)
           /\ Overwrites(state.textRecords, after.textRecords, {text}, block)
           /\ after.order = state.order
<1> DEFINE order == Newest(Extend(state.textOrder, state.textRecords, <<text>>))
           records == NewRecords(state.textRecords, order, <<text>>, block)
<1>1. <<text>> \in Seq(Y) /\ Distinct(<<text>>) /\ Elements(<<text>>) = {text}
  BY DEF Distinct, Elements
<1>2. /\ IsState(state)
      /\ Holds(state.records, state.order, X) /\ Holds(state.textRecords, state.textOrder, Y)
  BY DEF IsCache
<1>3. Holds(records, order, Y) /\ Overwrites(state.textRecords, records, {text}, block)
  BY <1>1, <1>2, MapAfterRemember
<1>4. /\ Newest(state.order) = state.order
      /\ Holds([k \in Range(state.order) |-> state.records[k]], state.order, X)
      /\ DOMAIN state.records = Range(state.order)
  <2>1. DOMAIN state.records = Range(state.order)
    BY <1>2, RangeIsElements DEF Holds
  <2> QED
    BY <1>2, <2>1, MapAfterPrune
<1>5. Range(order) = Elements(order)
  BY <1>3, RangeIsElements DEF Holds
<1>6. after = [ records     |-> [k \in Range(state.order) |-> state.records[k]],
                order       |-> state.order,
                textRecords |-> records, textOrder |-> order ]
  <2> DEFINE grown == [state EXCEPT
                          !.textOrder = Extend(state.textOrder, state.textRecords, <<text>>),
                          !.textRecords = Overwrite(state.textRecords, {text}, block)]
  <2>1. after = Pruned(grown)
    BY DEF WithText
  <2>2. /\ grown.textOrder = Extend(state.textOrder, state.textRecords, <<text>>)
        /\ grown.textRecords = Overwrite(state.textRecords, Elements(<<text>>), block)
        /\ grown.order = state.order /\ grown.records = state.records
    BY <1>1, <1>2 DEF IsState
  <2> HIDE DEF grown
  <2>3. Newest(grown.textOrder) = order /\ Newest(grown.order) = state.order
    BY <1>4, <2>2
  <2>4. Pruned(grown) =
          [ records     |-> [k \in Range(state.order) |-> grown.records[k]],
            order       |-> state.order,
            textRecords |-> [k \in Range(order) |-> grown.textRecords[k]],
            textOrder   |-> order ]
    <3> HIDE DEF order
    <3> QED BY <2>3 DEF Pruned
  <2>5. [k \in Range(order) |-> grown.textRecords[k]] = records
    <3> HIDE DEF order
    <3> QED BY <1>5, <2>2 DEF NewRecords
  <2>6. [k \in Range(state.order) |-> grown.records[k]]
          = [k \in Range(state.order) |-> state.records[k]]
    BY <2>2
  <2> HIDE DEF order, records
  <2> QED
    BY <2>1, <2>4, <2>5, <2>6
<1> HIDE DEF order, records
<1>7. /\ after.textRecords = records /\ after.textOrder = order
      /\ after.records = [k \in Range(state.order) |-> state.records[k]]
      /\ after.order = state.order /\ IsState(after)
  BY <1>6 DEF IsState
<1>8. IsCache(after, X, Y)
  BY <1>3, <1>4, <1>7 DEF IsCache
<1>9. Overwrites(state.records, after.records, {}, block)
  BY <1>4, <1>7 DEF Overwrites
<1> QED
  BY <1>3, <1>7, <1>8, <1>9

-----------------------------------------------------------------------------
(***************************************************************************)
(* One cache used by several handlers (ThinkingCache), for any handlers,   *)
(* ids, texts and blocks.                                                  *)
(***************************************************************************)

\* What remains to be remembered of an answer.
PendingInv ==
    pending \in [Handlers -> [text : Texts \cup {NoKey}, block : Blocks \cup {NoPayload}]]

\* The cache holds blocks under the keys it should.
HeldInv ==
    /\ IsCache(cache, Ids, Texts)
    /\ \A k \in DOMAIN cache.records : cache.records[k] \in Blocks
    /\ \A k \in DOMAIN cache.textRecords : cache.textRecords[k] \in Blocks

\* An id that was remembered is held, or the cache is full.
FullInv ==
    \A id \in DOMAIN latest : id \in DOMAIN cache.records \/ Len(cache.order) = Limit

\* A record is the block that was remembered last.
LatestInv ==
    \A id \in DOMAIN cache.records : id \in DOMAIN latest /\ cache.records[id] = latest[id]

CacheInv == PendingInv /\ HeldInv /\ FullInv /\ LatestInv

LEMMA EmptyCacheInv == ASSUME CacheInit PROVE CacheInv
<1>1. cache = EmptyState
  BY DEF CacheInit
<1>2. IsCache(cache, Ids, Texts)
  BY <1>1, EmptyIsCache
<1>3. DOMAIN cache.records = {} /\ DOMAIN cache.textRecords = {} /\ DOMAIN latest = {}
  BY <1>1 DEF EmptyState, CacheInit
<1> QED
  BY <1>2, <1>3 DEF CacheInit, Nothing, CacheInv, PendingInv, HeldInv, FullInv, LatestInv

\* The ids of an answer, in one section under the mutex.
LEMMA ToolCallsStep ==
    ASSUME CacheInv, NEW h \in Handlers, NEW ids \in Answers,
           NEW text \in Texts \cup {NoKey}, NEW block \in Blocks,
           IsInjective(ids), RememberToolCalls(h, ids, text, block)
    PROVE  CacheInv'
<1> DEFINE used == Without(ids, {NoKey})
           fresh == Without(used, DOMAIN cache.records)
<1>1. block # NoPayload /\ NoKey \notin Ids
  BY NamesAssumption
<1>2. ids \in Seq(Ids \cup {NoKey}) /\ Distinct(ids)
  <2>1. ids \in Seq(Ids \cup {NoKey})
    <3>1. CASE ids = <<>>
      BY <3>1, EmptySeq
    <3>2. CASE \E i \in Ids \cup {NoKey} : ids = <<i>>
      BY <3>2
    <3>3. CASE \E i, j \in Ids : ids = <<i, j>>
      BY <3>3
    <3> QED
      BY <3>1, <3>2, <3>3 DEF Answers
  <2> QED
    BY <2>1, RangeIsElements
<1>3. /\ used \in Seq(Ids) /\ Distinct(used) /\ Elements(used) = Elements(ids) \ {NoKey}
      /\ Range(used) = Elements(used)
  BY <1>1, <1>2, NamedShape
<1> HIDE DEF used
<1>4. fresh \in Seq(Ids) /\ Elements(fresh) = Elements(used) \ DOMAIN cache.records
  BY <1>3, WithoutShape
<1>5. /\ cache' = IF ids = <<>> THEN cache ELSE WithRecords(cache, used, block)
      /\ latest' = Overwrite(latest, Range(used), block)
      /\ pending' = [pending EXCEPT ![h] = [text |-> text, block |-> block]]
  BY <1>1, Remembering DEF RememberToolCalls, used
<1> HIDE DEF fresh
<1>6. PendingInv'
  BY <1>5 DEF CacheInv, PendingInv
<1>7. /\ IsCache(cache, Ids, Texts)
      /\ cache.order \in Seq(Ids) /\ DOMAIN cache.records = Elements(cache.order)
  BY DEF CacheInv, HeldInv, IsCache, Holds
<1>8. /\ DOMAIN latest' = DOMAIN latest \cup Elements(used)
      /\ \A k \in DOMAIN latest' : latest'[k] = IF k \in Elements(used) THEN block ELSE latest[k]
  BY <1>3, <1>5 DEF Overwrite
<1>9. CASE ids = <<>>
  <2>1. Elements(used) = {}
    <3>1. Elements(<<>>) = {}
      BY EmptySeq DEF Elements
    <3> QED
      BY <1>3, <1>9, <3>1
  <2>2. cache' = cache
    BY <1>5, <1>9
  <2>3. HeldInv' /\ FullInv' /\ LatestInv'
    BY <1>8, <2>1, <2>2 DEF CacheInv, HeldInv, FullInv, LatestInv, IsCache, IsState, Holds
  <2> QED
    BY <1>6, <2>3 DEF CacheInv
<1>10. CASE ids # <<>>
  <2>1. /\ IsCache(cache', Ids, Texts)
        /\ Overwrites(cache.records, cache'.records, Elements(used), block)
        /\ Overwrites(cache.textRecords, cache'.textRecords, {}, block)
        /\ cache'.order = Newest(cache.order \o Without(used, DOMAIN cache.records))
    <3>1. cache' = WithRecords(cache, used, block)
      BY <1>5, <1>10
    <3>2. used \in Seq(Ids) /\ Distinct(used)
      BY <1>3
    <3> QED
      BY <1>7, <3>1, <3>2, ToolCallsRemembered
  <2>2. /\ \A k \in DOMAIN cache'.records : cache'.records[k] \in Blocks
        /\ \A k \in DOMAIN cache'.textRecords : cache'.textRecords[k] \in Blocks
    BY <2>1 DEF Overwrites, CacheInv, HeldInv
  <2>3. LatestInv'
    BY <1>8, <2>1 DEF Overwrites, CacheInv, LatestInv
  <2>4. HeldInv'
    BY <2>1, <2>2 DEF HeldInv, IsCache, IsState, Holds
  <2>5. FullInv'
    <3> DEFINE longer == cache.order \o fresh
    <3>1. longer \in Seq(Ids) /\ Len(longer) = Len(cache.order) + Len(fresh)
      BY <1>4, <1>7, ConcatProperties
    <3>2. Elements(longer) = Elements(cache.order) \cup Elements(fresh)
      BY <1>4, <1>7, ConcatShape
    <3>3. /\ cache'.order = Newest(longer) /\ Len(cache'.order) <= Limit
          /\ DOMAIN cache'.records = Elements(cache'.order)
      BY <2>1 DEF fresh, IsCache, Holds
    <3> HIDE DEF longer
    <3>4. CASE Len(cache'.order) = Limit
      BY <3>4 DEF FullInv
    <3>5. CASE Len(cache'.order) # Limit
      <4>1. cache'.order = longer
        BY <3>1, <3>3, <3>5, NewestIsFull
      <4>2. Len(cache.order) # Limit
        <5>1. Len(cache.order) \in Nat /\ Len(fresh) \in Nat /\ Limit \in Nat
          BY <1>4, <1>7, LenProperties, LimitAssumption
        <5> QED
          BY <3>1, <3>3, <3>5, <4>1, <5>1
      <4>3. DOMAIN latest \subseteq DOMAIN cache.records
        BY <4>2 DEF CacheInv, FullInv
      <4>4. DOMAIN latest' \subseteq Elements(longer)
        BY <1>4, <1>7, <1>8, <3>2, <4>3
      <4> QED
        BY <3>3, <4>1, <4>4 DEF FullInv
    <3> QED
      BY <3>4, <3>5
  <2> QED
    BY <1>6, <2>3, <2>4, <2>5 DEF CacheInv
<1> QED
  BY <1>9, <1>10

\* The text of the answer, in a second section.
LEMMA TextStep ==
    ASSUME CacheInv, NEW h \in Handlers, RememberText(h)
    PROVE  CacheInv'
<1> DEFINE text == pending[h].text
           block == pending[h].block
<1>1. text \in Texts \cup {NoKey} /\ block \in Blocks \cup {NoPayload}
  BY DEF CacheInv, PendingInv
<1>2. /\ cache' = IF block = NoPayload \/ text = NoKey THEN cache
                  ELSE WithText(cache, text, block)
      /\ pending' = [pending EXCEPT ![h] = [text |-> NoKey, block |-> NoPayload]]
      /\ latest' = latest
  BY Remembering DEF RememberText, Nothing
<1> HIDE DEF text, block
<1>3. PendingInv'
  BY <1>2 DEF CacheInv, PendingInv
<1>4. CASE block = NoPayload \/ text = NoKey
  BY <1>2, <1>3, <1>4 DEF CacheInv, HeldInv, FullInv, LatestInv, IsCache, IsState, Holds
<1>5. CASE ~ (block = NoPayload \/ text = NoKey)
  <2>1. text \in Texts /\ block \in Blocks /\ cache' = WithText(cache, text, block)
    BY <1>1, <1>2, <1>5
  <2>2. IsCache(cache, Ids, Texts)
    BY DEF CacheInv, HeldInv
  <2>3. /\ IsCache(cache', Ids, Texts)
        /\ Overwrites(cache.records, cache'.records, {}, block)
        /\ Overwrites(cache.textRecords, cache'.textRecords, {text}, block)
        /\ cache'.order = cache.order
    <3>1. text \in Texts /\ cache' = WithText(cache, text, block)
      BY <2>1
    <3> QED BY <2>2, <3>1, TextRemembered
  <2>4. HeldInv' /\ FullInv' /\ LatestInv'
    BY <1>2, <2>1, <2>3
      DEF Overwrites, CacheInv, HeldInv, FullInv, LatestInv, IsCache, IsState, Holds
  <2> QED
    BY <1>3, <2>4 DEF CacheInv
<1> QED
  BY <1>4, <1>5

LEMMA CacheInvStep == ASSUME CacheInv, [CacheNext]_cacheVars PROVE CacheInv'
<1>1. CASE CacheNext
  <2>1. CASE \E h \in Handlers, ids \in Answers, text \in Texts \cup {NoKey}, block \in Blocks :
                IsInjective(ids) /\ RememberToolCalls(h, ids, text, block)
    BY <2>1, ToolCallsStep
  <2>2. CASE \E h \in Handlers : RememberText(h)
    BY <2>2, TextStep
  <2> QED
    BY <1>1, <2>1, <2>2 DEF CacheNext
<1>2. CASE UNCHANGED cacheVars
  BY <1>2 DEF cacheVars, CacheInv, PendingInv, HeldInv, FullInv, LatestInv, IsCache, IsState, Holds
<1> QED
  BY <1>1, <1>2

LEMMA InvDropsWhenFull == ASSUME CacheInv PROVE CacheDropsWhenFull
<1>1. /\ IsCache(cache, Ids, Texts)
      /\ \A k \in DOMAIN cache.records : cache.records[k] \in Blocks
      /\ \A k \in DOMAIN cache.textRecords : cache.textRecords[k] \in Blocks
  BY DEF CacheInv, HeldInv
<1>2. WellFormed(cache)
  BY <1>1, CacheIsWellFormed
<1>3. /\ DOMAIN cache.records = Elements(cache.order)
      /\ DOMAIN cache.textRecords = Elements(cache.textOrder)
      /\ cache.records = [k \in DOMAIN cache.records |-> cache.records[k]]
      /\ cache.textRecords = [k \in DOMAIN cache.textRecords |-> cache.textRecords[k]]
      /\ cache.order \in Seq(Ids) /\ cache.textOrder \in Seq(Texts)
  BY <1>1 DEF IsCache, Holds
<1>4. Elements(cache.order) \subseteq Ids /\ Elements(cache.textOrder) \subseteq Texts
  BY <1>3, ElementOfSeq DEF Elements
<1>5. /\ cache.records \in [DOMAIN cache.records -> Blocks]
      /\ cache.textRecords \in [DOMAIN cache.textRecords -> Blocks]
  BY <1>1, <1>3
<1>6. CacheTypeOK
  BY <1>2, <1>3, <1>4, <1>5 DEF CacheTypeOK, CacheInv, PendingInv
<1> QED
  BY <1>6 DEF CacheDropsWhenFull, CacheInv, FullInv

\* RememberFromContent and pruneLocked (deepseek_v4/state.go): each map holds
\* exactly what its order lists and no more than the limit, and the block of a
\* tool call is gone only when the map is full, however many handlers remember
\* in turn.
THEOREM CacheDropsOnlyWhenFull == CacheSpec => []CacheDropsWhenFull
<1>1. CacheInit => CacheInv
  BY EmptyCacheInv
<1>2. CacheInv /\ [CacheNext]_cacheVars => CacheInv'
  BY CacheInvStep
<1>3. CacheInv => CacheDropsWhenFull
  BY InvDropsWhenFull
<1> QED
  BY <1>1, <1>2, <1>3, PTL DEF CacheSpec

\* CachedForToolCall: a tool call gets the block last remembered for it or none.
THEOREM LatestIsReplayed == CacheSpec => []ReplaysLatest
<1>1. CacheInit => CacheInv
  BY EmptyCacheInv
<1>2. CacheInv /\ [CacheNext]_cacheVars => CacheInv'
  BY CacheInvStep
<1>3. CacheInv => ReplaysLatest
  BY DEF CacheInv, LatestInv, ReplaysLatest, CachedForToolCall
<1> QED
  BY <1>1, <1>2, <1>3, PTL DEF CacheSpec
=============================================================================
