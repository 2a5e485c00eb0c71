----------------------------- MODULE ConfigStore -----------------------------
(***************************************************************************)
(* The management API's configuration store: internal/service/api stages   *)
(* changes, internal/service/store/sqlite_store.go applies or discards     *)
(* them, internal/service/runtime swaps the snapshot that requests read,   *)
(* and internal/service/app loads the store when the process starts.       *)
(*                                                                         *)
(* A configuration is one table per resource, each a partial function from *)
(* keys to rows.  Of a provider's row only what decides validity and       *)
(* identity is kept: a member of Definitions, or Blank when a required     *)
(* field is empty; a route's row is its provider; the other rows are TRUE. *)
(***************************************************************************)
EXTENDS Integers, FiniteSets, Sequences, Functions

CONSTANTS
    Admins,      \* the requests to the management API that may run at once
    NoAdmin,     \* nobody holds applyMu
    Providers, Models, Aliases,
    Definitions, \* complete provider definitions
    Blank,       \* a provider definition without base_url or api_key
    Masked,      \* a PATCH body with the masked api_key and no base_url
    Keyless,     \* a PATCH body without an api_key
    YAML,        \* the configuration file the process is started with
    Imports,     \* per importable document: the changes it stages, in order
    MaxChanges   \* bound: how many changes are staged in all

VARIABLES
    running,    \* the process is up
    seeded,     \* the settings table has a mode row
    tables,     \* the main tables
    pending,    \* the rows of the changes table with applied = 0, by id
    nextId,     \* its AUTOINCREMENT
    active,     \* the runtime's snapshot
    todo,       \* per admin: the changes its handler has yet to stage
    applyMu,    \* the holder of SQLiteConfigStore.applyMu
    phase,      \* per admin: where its ApplyPendingChanges is
    batch,      \* per admin: the pending rows it listed
    loaded,     \* per admin: what it loaded after its commit
    missed,     \* history: the last load or reload, by an apply or at the start, failed
    effects     \* history: the ids of the changes that took effect, in order

dbVars == <<seeded, tables, pending, nextId, effects>>
applyVars == <<applyMu, phase, batch, loaded>>
vars == <<running, dbVars, active, missed, todo, applyVars>>

-----------------------------------------------------------------------------
Put(resource, key, row) ==
    [resource |-> resource, key |-> key, row |-> row, action |-> "put"]

Delete(resource, key) ==
    [resource |-> resource, key |-> key, row |-> Blank, action |-> "delete"]

None == [k \in {} |-> TRUE]

EmptyTables == [provider |-> None, model |-> None, offer |-> None, route |-> None]

\* A table with one row inserted or replaced, and without some rows.
With(table, key, row) == [k \in DOMAIN table \cup {key} |-> IF k = key THEN row ELSE table[k]]
Without(table, keys) == [k \in DOMAIN table \ keys |-> table[k]]

\* applyChangeTx: an upsert, or a deletion; deleting a provider deletes its offers.
ApplyChange(t, change) ==
    LET key == change.key IN
    IF change.action = "put"
    THEN [t EXCEPT ![change.resource] = With(@, key, change.row)]
    ELSE [r \in DOMAIN t |->
            IF r = change.resource THEN Without(t[r], {key})
            ELSE IF r = "offer" /\ change.resource = "provider"
                 THEN Without(t[r], { o \in DOMAIN t[r] : o[1] = key })
                 ELSE t[r]]

\* A finite set of ids in their order: ORDER BY id.
InOrder(ids) ==
    CHOOSE s \in [1 .. Cardinality(ids) -> ids] :
        /\ \A id \in ids : \E i \in 1 .. Cardinality(ids) : s[i] = id
        /\ \A i, j \in 1 .. Cardinality(ids) : i < j => s[i] < s[j]

\* The tables with a batch of changes applied in the order of their ids.
AppliedTo(t, b) ==
    LET ids == InOrder(DOMAIN b)
        after[n \in 0 .. Cardinality(DOMAIN b)] ==
            IF n = 0 THEN t ELSE ApplyChange(after[n - 1], b[ids[n]])
    IN  after[Cardinality(DOMAIN b)]

\* Config.Validate in transform mode.  An offer of an unknown provider makes
\* loadFileConfig invent that provider, without a base_url.
Valid(t) ==
    /\ DOMAIN t.provider # {}
    /\ \A p \in DOMAIN t.provider : t.provider[p] # Blank
    /\ \A o \in DOMAIN t.offer : o[1] \in DOMAIN t.provider /\ o[2] \in DOMAIN t.model
    /\ DOMAIN t.offer # {} \/ DOMAIN t.route # {}
    /\ \A a \in DOMAIN t.route : t.route[a] \in DOMAIN t.provider

\* LoadAll may succeed: nothing in what it reads makes it fail.
Loadable == seeded /\ Valid(tables)

ASSUME ConstantsAssumption ==
    /\ NoAdmin \notin Admins /\ {Masked, Keyless, Blank} \cap Definitions = {}
    /\ DOMAIN YAML = DOMAIN EmptyTables /\ Valid(YAML)
    /\ MaxChanges \in Nat

-----------------------------------------------------------------------------
\* A database that nothing was ever written to, or one that SeedFromConfig
\* filled from the configuration file; the process is about to start.
Init ==
    /\ running = FALSE
    /\ seeded \in BOOLEAN
    /\ tables = IF seeded THEN YAML ELSE EmptyTables
    /\ pending = None /\ nextId = 1 /\ effects = <<>>
    /\ active = YAML /\ missed = FALSE
    /\ todo = [a \in Admins |-> <<>>]
    /\ applyMu = NoAdmin
    /\ phase = [a \in Admins |-> "idle"]
    /\ batch = [a \in Admins |-> None]
    /\ loaded = [a \in Admins |-> YAML]

\* runTransform's bootstrap: the stored configuration, or that of the file when
\* LoadAll fails, be it for what is stored or because a query fails.  Its branch
\* that seeds an empty store needs a LoadAll that succeeds without a provider,
\* which Valid refuses.
Boot ==
    /\ ~running
    /\ running' = TRUE
    /\ \/ Loadable /\ active' = tables /\ missed' = FALSE
       \/ active' = YAML /\ missed' = TRUE
    /\ UNCHANGED <<dbVars, todo, applyVars>>

\* The process dies; what was committed stays.
Crash ==
    /\ running
    /\ running' = FALSE
    /\ todo' = [a \in Admins |-> <<>>]
    /\ applyMu' = NoAdmin
    /\ phase' = [a \in Admins |-> "idle"]
    /\ batch' = [a \in Admins |-> None]
    /\ loaded' = [a \in Admins |-> YAML]
    /\ UNCHANGED <<dbVars, active, missed>>

-----------------------------------------------------------------------------
\* A handler that is free to take a request decides, from the request and from
\* the snapshot it reads, which changes it is going to stage.
Decide(a, changes) ==
    /\ running /\ todo[a] = <<>> /\ phase[a] = "idle"
    /\ nextId <= MaxChanges
    /\ todo' = [todo EXCEPT ![a] = changes]
    /\ UNCHANGED <<running, dbVars, active, missed, applyVars>>

PutProvider(a, p, d) == Decide(a, <<Put("provider", p, d)>>)

\* The row that a PATCH stages.  An api_key is taken from the active provider
\* only where the body gives the mask, a base_url where it gives none; a body
\* without an api_key leaves the row without one.
Patched(p, body) ==
    IF body \in Definitions THEN body
    ELSE IF body = Masked /\ p \in DOMAIN active.provider THEN active.provider[p]
    ELSE Blank

PatchProvider(a, p, body) == Decide(a, <<Put("provider", p, Patched(p, body))>>)

DeleteProvider(a, p) ==
    p \in DOMAIN active.provider /\ Decide(a, <<Delete("provider", p)>>)

PutModel(a, m) == Decide(a, <<Put("model", m, TRUE)>>)

\* Refused while an active provider offers the model.
DeleteModel(a, m) ==
    /\ m \in DOMAIN active.model
    /\ \A o \in DOMAIN active.offer : o[2] # m
    /\ Decide(a, <<Delete("model", m)>>)

\* POST and PATCH of an offer: no check that its provider or model exists.
PutOffer(a, p, m) == Decide(a, <<Put("offer", <<p, m>>, TRUE)>>)

DeleteOffer(a, p, m) == Decide(a, <<Delete("offer", <<p, m>>)>>)

PutRoute(a, alias, p) == Decide(a, <<Put("route", alias, p)>>)

DeleteRoute(a, alias) ==
    alias \in DOMAIN active.route /\ Decide(a, <<Delete("route", alias)>>)

\* A document that is valid by itself is staged change by change.
Import(a) == \E changes \in Imports : Decide(a, changes)

\* StageChange: one INSERT.
StageChange(a) ==
    /\ todo[a] # <<>> /\ nextId <= MaxChanges
    /\ pending' = With(pending, nextId, Head(todo[a]))
    /\ nextId' = nextId + 1
    /\ todo' = [todo EXCEPT ![a] = Tail(@)]
    /\ UNCHANGED <<running, seeded, tables, effects, active, missed, applyVars>>

\* The INSERT fails: the handler answers with an error and stops where it is.
StageFails(a) ==
    /\ todo[a] # <<>>
    /\ todo' = [todo EXCEPT ![a] = <<>>]
    /\ UNCHANGED <<running, dbVars, active, missed, applyVars>>

\* DiscardPendingChanges: one DELETE, without applyMu.
Discard(a) ==
    /\ running /\ todo[a] = <<>> /\ phase[a] = "idle"
    /\ pending # None
    /\ pending' = None
    /\ UNCHANGED <<running, seeded, tables, nextId, effects, active, missed, todo, applyVars>>

-----------------------------------------------------------------------------
\* The holder of applyMu leaves ApplyPendingChanges.
Unlock(a) ==
    /\ applyMu' = NoAdmin
    /\ phase' = [phase EXCEPT ![a] = "idle"]
    /\ batch' = [batch EXCEPT ![a] = None]
    /\ loaded' = [loaded EXCEPT ![a] = YAML]

\* Mutated form of ApplyLock: the mutex is not taken.
ApplyLockFree(a) ==
    /\ running /\ todo[a] = <<>> /\ phase[a] = "idle"
    /\ pending # None
    /\ phase' = [phase EXCEPT ![a] = "listed"]
    /\ batch' = [batch EXCEPT ![a] = pending]
    /\ UNCHANGED <<running, dbVars, active, missed, todo, applyMu, loaded>>

\* ApplyPendingChanges takes the mutex and lists the pending rows; it returns
\* at once when there are none.
ApplyLock(a) ==
    /\ running /\ todo[a] = <<>> /\ phase[a] = "idle"
    /\ applyMu = NoAdmin
    /\ pending # None
    /\ applyMu' = a
    /\ phase' = [phase EXCEPT ![a] = "listed"]
    /\ batch' = [batch EXCEPT ![a] = pending]
    /\ UNCHANGED <<running, dbVars, active, missed, todo, loaded>>

\* The transaction fails, for instance because the client went away and its
\* context is cancelled: it is rolled back.
ApplyAbort(a) ==
    /\ phase[a] = "listed"
    /\ Unlock(a)
    /\ UNCHANGED <<running, dbVars, active, missed, todo>>

\* Mutated form of ApplyCommit: the rows are not marked as applied.
ApplyCommitUnmarked(a) ==
    /\ phase[a] = "listed"
    /\ tables' = AppliedTo(tables, batch[a])
    /\ effects' = effects \o InOrder(DOMAIN batch[a])
    /\ phase' = [phase EXCEPT ![a] = "committed"]
    /\ UNCHANGED <<running, seeded, pending, nextId, active, missed, todo, applyMu, batch, loaded>>

\* The transaction: every listed change, in order, and its mark as applied, on
\* those of the rows that are still there.
ApplyCommit(a) ==
    /\ phase[a] = "listed"
    /\ tables' = AppliedTo(tables, batch[a])
    /\ effects' = effects \o InOrder(DOMAIN batch[a])
    /\ pending' = Without(pending, DOMAIN batch[a])
    /\ phase' = [phase EXCEPT ![a] = "committed"]
    /\ UNCHANGED <<running, seeded, nextId, active, missed, todo, applyMu, batch, loaded>>

\* LoadAll, after the transaction.
Load(a) ==
    /\ phase[a] = "committed"
    /\ Loadable
    /\ loaded' = [loaded EXCEPT ![a] = tables]
    /\ phase' = [phase EXCEPT ![a] = "loaded"]
    /\ UNCHANGED <<running, dbVars, active, missed, todo, applyMu, batch>>

\* Mutated form of LoadFails: what was loaded is published unvalidated.
LoadUnvalidated(a) ==
    /\ phase[a] = "committed"
    /\ active' = tables
    /\ missed' = FALSE
    /\ Unlock(a)
    /\ UNCHANGED <<running, dbVars, todo>>

\* LoadAll fails, because it rejects what the transaction committed or because
\* a query or a scan fails: an error is answered, the runtime keeps its
\* snapshot, and the rows stay marked as applied.
LoadFails(a) ==
    /\ phase[a] = "committed"
    /\ missed' = TRUE
    /\ Unlock(a)
    /\ UNCHANGED <<running, dbVars, active, todo>>

\* Runtime.Reload rejects what was loaded, for instance because no provider
\* manager can be built of it: the same, and the database stays as it is.
ReloadFails(a) ==
    /\ phase[a] = "loaded"
    /\ missed' = TRUE
    /\ Unlock(a)
    /\ UNCHANGED <<running, dbVars, active, todo>>

\* Runtime.Reload stores the new snapshot; ApplyPendingChanges returns.
Publish(a) ==
    /\ phase[a] = "loaded"
    /\ active' = loaded[a]
    /\ missed' = FALSE
    /\ Unlock(a)
    /\ UNCHANGED <<running, dbVars, todo>>

-----------------------------------------------------------------------------
Manage(a) ==
    \/ \E p \in Providers, d \in Definitions : PutProvider(a, p, d)
    \/ \E p \in Providers, body \in Definitions \cup {Masked, Keyless} : PatchProvider(a, p, body)
    \/ \E p \in Providers : DeleteProvider(a, p)
    \/ \E m \in Models : PutModel(a, m) \/ DeleteModel(a, m)
    \/ \E p \in Providers, m \in Models : PutOffer(a, p, m) \/ DeleteOffer(a, p, m)
    \/ \E alias \in Aliases : DeleteRoute(a, alias) \/ \E p \in Providers : PutRoute(a, alias, p)
    \/ Import(a) \/ StageChange(a) \/ StageFails(a) \/ Discard(a)

Apply(a) ==
    \/ ApplyLock(a) \/ ApplyAbort(a) \/ ApplyCommit(a)
    \/ Load(a) \/ LoadFails(a) \/ ReloadFails(a) \/ Publish(a)

Next == Boot \/ Crash \/ \E a \in Admins : Manage(a) \/ Apply(a)

Spec == Init /\ [][Next]_vars

-----------------------------------------------------------------------------
\* The shapes of the variables.
TypeOK ==
    /\ running \in BOOLEAN /\ seeded \in BOOLEAN /\ missed \in BOOLEAN
    /\ DOMAIN tables = DOMAIN EmptyTables
    /\ nextId \in 1 .. MaxChanges + 1
    /\ DOMAIN pending \subseteq 1 .. nextId - 1
    /\ Range(effects) \subseteq 1 .. nextId - 1
    /\ applyMu \in Admins \cup {NoAdmin}
    /\ phase \in [Admins -> {"idle", "listed", "committed", "loaded"}]
    /\ \A a \in Admins : phase[a] = "idle" <=> applyMu # a

\* No request is ever served with a configuration that Config.Validate would
\* refuse, whatever was staged, applied half or crashed in between.
ActiveIsValid == running => Valid(active)

\* When no apply is between its commit and its end, requests are served with
\* what the database holds, unless the last load or reload failed: no apply
\* publishes what a later one has replaced.  After one that failed, which its
\* caller was told, requests may be served with what the database no longer
\* holds until the next one succeeds.
InSync ==
    (running /\ ~missed /\ \A a \in Admins : phase[a] \in {"idle", "listed"})
        => active = tables

\* A change takes effect at most once, and in the order of staging, across
\* failed transactions, crashes and concurrent discards.
AppliedInOrder == TypeOK /\ \A i, j \in DOMAIN effects : i < j => effects[i] < effects[j]

Stored == IF seeded THEN tables ELSE EmptyTables

Register == INSTANCE ConfigRegister WITH durable <- Stored, Fallback <- YAML

\* Staging, applying, discarding, crashing and restarting implement the
\* register that ConfigRegister describes.
ImplementsRegister == Register!Spec

=============================================================================
