--------------------------- MODULE SessionManager ---------------------------
(***************************************************************************)
(* The table of client sessions kept by InMemoryManager                    *)
(* (internal/service/server/session/manager.go) and used by every request  *)
(* handler through Server.sessionForRequest.                               *)
(*                                                                         *)
(* A lookup is two steps: the caller reads time.Now() and only then waits  *)
(* for the manager's mutex, so the times at which entries are stamped need *)
(* not be in the order in which the mutex is granted.  The section under   *)
(* the mutex is one action.  Both limits are read from the live            *)
(* configuration, which a reload may change between any two steps.         *)
(*                                                                         *)
(* A session object is a member of Sessions; one that is in no table entry *)
(* and in no caller's hands is garbage and may be allocated again.         *)
(***************************************************************************)
EXTENDS Integers, FiniteSets

CONSTANTS
    Keys,       \* the non-empty session keys that sessionKeyFromRequest yields
    Callers,    \* the lookups: each is made by one request handler
    Sessions,   \* session objects
    NoSession,  \* the nil pointer
    Idle,       \* a caller that is making no lookup
    Limits,     \* the values MaxSessions may be configured to, 0 for unlimited
    TTLs,       \* the values SessionTTL may be configured to
    MaxClock    \* bound: the last instant considered

ASSUME ConstantsAssumption ==
    /\ IsFiniteSet(Keys)
    /\ Limits \subseteq Nat
    /\ TTLs \subseteq Nat \ {0}
    /\ MaxClock \in Nat
    /\ NoSession \notin Sessions

VARIABLES
    clock,      \* the wall clock
    sessions,   \* m.sessions: a function from the present keys to entries
    maxSessions,\* m.config.MaxSessions()
    ttl,        \* m.config.SessionTTL()
    lookup,     \* per caller: Idle, or the key and the time read before the lock
    held,       \* per caller: the session its last lookup returned
    pruner,     \* the pruning goroutine: where it is, and the time it read
    stopping,   \* pruneStop is closed
    served      \* history: per present key, the instant its session was last handed out

vars == <<clock, sessions, maxSessions, ttl, lookup, held, pruner, stopping, served>>

-----------------------------------------------------------------------------
Instants == 0 .. MaxClock

Entry == [sess : Sessions, lastUsed : Instants]

Tables == UNION { [D -> Entry] : D \in SUBSET Keys }

\* The session objects that something still points to.
Reachable == { sessions[k].sess : k \in DOMAIN sessions }
                \cup { held[c] : c \in Callers }

\* Mutated form of Allocatable: the entry is stored before its session is made.
AllocatableNil == {NoSession}

\* The object an allocation returns: some one that nothing points to.  Which
\* one is not observable, so the choice is fixed.
Allocatable ==
    { s \in Sessions \ Reachable : s = CHOOSE f \in Sessions \ Reachable : TRUE }

\* f without the keys in D.
WithoutKeys(f, D) == [k \in DOMAIN f \ D |-> f[k]]

\* Mutated form of Expired: a session is dropped at its time to live, not after.
ExpiredEarly(entry, now) == now - entry.lastUsed >= ttl

\* pruneLocked's condition on an entry, against the time its caller read.
Expired(entry, now) == now - entry.lastUsed > ttl

Unexpired(now) == WithoutKeys(sessions, { k \in DOMAIN sessions : Expired(sessions[k], now) })

\* Mutated forms of Evictions: the loop stops one entry too late; any entry
\* goes; the test for "unlimited" is forgotten.
EvictionsOffByOne(table) ==
    IF maxSessions > 0 /\ Cardinality(DOMAIN table) > maxSessions
    THEN { E \in SUBSET DOMAIN table : Cardinality(DOMAIN table \ E) = maxSessions }
    ELSE { {} }

EvictionsAny(table) ==
    IF maxSessions > 0 /\ Cardinality(DOMAIN table) >= maxSessions
    THEN { E \in SUBSET DOMAIN table : Cardinality(DOMAIN table \ E) = maxSessions - 1 }
    ELSE { {} }

EvictionsUnlimited(table) ==
    IF maxSessions = 0 THEN { DOMAIN table } ELSE EvictionsAny(table)

\* What the loop around evictLRULocked may remove from table before an
\* insertion: it repeatedly deletes an entry with the oldest stamp (ties go to
\* the map's iteration order) until the table is one below the limit.
Evictions(table) ==
    IF maxSessions > 0 /\ Cardinality(DOMAIN table) >= maxSessions
    THEN { E \in SUBSET DOMAIN table :
             /\ Cardinality(DOMAIN table \ E) = maxSessions - 1
             /\ \A e \in E, k \in DOMAIN table \ E :
                  table[e].lastUsed <= table[k].lastUsed }
    ELSE { {} }

\* f with k mapped to v, whether or not k was in its domain.
Put(f, k, v) == [j \in DOMAIN f \cup {k} |-> IF j = k THEN v ELSE f[j]]

-----------------------------------------------------------------------------
Init ==
    /\ clock = 0
    /\ sessions = [k \in {} |-> NoSession]
    /\ maxSessions \in Limits
    /\ ttl \in TTLs
    /\ lookup = [c \in Callers |-> Idle]
    /\ held = [c \in Callers |-> NoSession]
    /\ pruner = [phase |-> "waiting", now |-> 0]
    /\ stopping = FALSE
    /\ served = [k \in {} |-> 0]

\* Time passes.
Tick ==
    /\ clock < MaxClock
    /\ clock' = clock + 1
    /\ UNCHANGED <<sessions, maxSessions, ttl, lookup, held, pruner, stopping, served>>

\* A configuration reload: the accessor reads the new snapshot from now on.
Reconfigure(m, t) ==
    /\ <<m, t>> # <<maxSessions, ttl>>
    /\ maxSessions' = m
    /\ ttl' = t
    /\ UNCHANGED <<clock, sessions, lookup, held, pruner, stopping, served>>

\* sessionForRequest for a request that names no session.
NewEphemeral(c) ==
    /\ lookup[c] = Idle
    /\ held[c] = NoSession
    /\ \E s \in Allocatable : held' = [held EXCEPT ![c] = s]
    /\ UNCHANGED <<clock, sessions, maxSessions, ttl, lookup, pruner, stopping, served>>

\* sessionForRequest for a request with a key: time.Now() is read before the
\* mutex is asked for.
ReadClock(c, k) ==
    /\ lookup[c] = Idle
    /\ held[c] = NoSession
    /\ lookup' = [lookup EXCEPT ![c] = [key |-> k, now |-> clock]]
    /\ UNCHANGED <<clock, sessions, maxSessions, ttl, held, pruner, stopping, served>>

\* GetOrCreate's branch for a key that survives the pruning: the stamp is
\* overwritten with the caller's time, be it older than the one it replaces.
Hit(c) ==
    LET k == lookup[c].key
        now == lookup[c].now
        kept == Unexpired(now)
    IN  /\ k \in DOMAIN kept
        /\ sessions' = [kept EXCEPT ![k].lastUsed = now]
        /\ held' = [held EXCEPT ![c] = kept[k].sess]
        /\ served' = Put([j \in DOMAIN kept |-> served[j]], k, clock)

\* GetOrCreate's branch for an absent key: make room, then insert.
Create(c) ==
    LET k == lookup[c].key
        now == lookup[c].now
        kept == Unexpired(now)
    IN  /\ k \notin DOMAIN kept
        /\ \E E \in Evictions(kept), s \in Allocatable :
             /\ sessions' = Put(WithoutKeys(kept, E), k, [sess |-> s, lastUsed |-> now])
             /\ held' = [held EXCEPT ![c] = s]
             /\ served' = Put([j \in DOMAIN kept \ E |-> served[j]], k, clock)

\* GetOrCreate, under the mutex.
GetOrCreate(c) ==
    /\ lookup[c] # Idle
    /\ Hit(c) \/ Create(c)
    /\ lookup' = [lookup EXCEPT ![c] = Idle]
    /\ UNCHANGED <<clock, maxSessions, ttl, pruner, stopping>>

\* The handler returns and drops its pointer.
Release(c) ==
    /\ held[c] # NoSession
    /\ held' = [held EXCEPT ![c] = NoSession]
    /\ UNCHANGED <<clock, sessions, maxSessions, ttl, lookup, pruner, stopping, served>>

\* Mutated form of PrunerTick: the cut-off is computed from a later instant.
PrunerTickAhead ==
    /\ pruner.phase = "waiting"
    /\ pruner' = [phase |-> "pruning", now |-> clock + ttl]
    /\ UNCHANGED <<clock, sessions, maxSessions, ttl, lookup, held, stopping, served>>

\* The hourly ticker fires; the goroutine reads the clock before the mutex.
PrunerTick ==
    /\ pruner.phase = "waiting"
    /\ pruner' = [phase |-> "pruning", now |-> clock]
    /\ UNCHANGED <<clock, sessions, maxSessions, ttl, lookup, held, stopping, served>>

\* Prune, under the mutex, and back to the select.
Prune ==
    /\ pruner.phase = "pruning"
    /\ sessions' = Unexpired(pruner.now)
    /\ served' = [k \in DOMAIN sessions' |-> served[k]]
    /\ pruner' = [phase |-> "waiting", now |-> 0]
    /\ UNCHANGED <<clock, maxSessions, ttl, lookup, held, stopping>>

\* Server.Close runs Stop once; the select may still choose the ticker.
Stop ==
    /\ ~stopping
    /\ stopping' = TRUE
    /\ UNCHANGED <<clock, sessions, maxSessions, ttl, lookup, held, pruner, served>>

\* The select chooses the closed pruneStop.
PrunerExit ==
    /\ pruner.phase = "waiting" /\ stopping
    /\ pruner' = [phase |-> "stopped", now |-> 0]
    /\ UNCHANGED <<clock, sessions, maxSessions, ttl, lookup, held, stopping, served>>

Next ==
    \/ Tick
    \/ \E m \in Limits, t \in TTLs : Reconfigure(m, t)
    \/ \E c \in Callers, k \in Keys : ReadClock(c, k)
    \/ \E c \in Callers : NewEphemeral(c) \/ GetOrCreate(c) \/ Release(c)
    \/ PrunerTick \/ Prune \/ Stop \/ PrunerExit

Spec == Init /\ [][Next]_vars

-----------------------------------------------------------------------------
Lookup == [key : Keys, now : Instants]

Pruner == [phase : {"waiting", "pruning", "stopped"}, now : Instants]

\* The types of the variables; the history covers exactly the present keys.
TypeOK ==
    /\ clock \in Instants
    /\ sessions \in Tables
    /\ maxSessions \in Limits
    /\ ttl \in TTLs
    /\ lookup \in [Callers -> {Idle} \cup Lookup]
    /\ held \in [Callers -> {NoSession} \cup Sessions]
    /\ pruner \in Pruner
    /\ stopping \in BOOLEAN
    /\ served \in [DOMAIN sessions -> Instants]

\* Stamps are read before the mutex is granted, so an entry is never stamped
\* later than it was handed out, and no caller's time lies in the future.
StampsLagGrants ==
    /\ \A k \in DOMAIN sessions : sessions[k].lastUsed <= served[k] /\ served[k] <= clock
    /\ \A c \in Callers : lookup[c] # Idle => lookup[c].now <= clock
    /\ pruner.now <= clock

\* GetOrCreate enforces MaxSessions (manager.go:72): a step that adds a key
\* leaves no more sessions than the limit in force, also when a reload has
\* lowered the limit under a table that was larger.
InsertWithinLimit ==
    [][DOMAIN sessions' \subseteq DOMAIN sessions
        \/ maxSessions = 0
        \/ Cardinality(DOMAIN sessions') <= maxSessions]_vars

\* Eviction is LRU up to the lag of the stamps: when a session goes although
\* its time to live is not over, no session that stays was already handed out
\* before the victim was last asked for.
EvictsLeastRecent ==
    [][\A k \in DOMAIN sessions \ DOMAIN sessions' :
          \/ clock - sessions[k].lastUsed > ttl
          \/ \A j \in DOMAIN sessions \cap DOMAIN sessions' :
               sessions'[j] = sessions[j] => sessions[k].lastUsed <= served[j]]_vars

\* A conversation keeps its session: the object behind a key that was asked
\* for less than the time to live ago is neither dropped nor replaced while
\* the table is below its limit, whoever else is served or pruned meanwhile.
KeepsLiveSessions ==
    [][\A k \in DOMAIN sessions :
          \/ clock - sessions[k].lastUsed > ttl
          \/ maxSessions > 0 /\ Cardinality(DOMAIN sessions) >= maxSessions
          \/ k \in DOMAIN sessions' /\ sessions'[k].sess = sessions[k].sess]_vars
=============================================================================
