-------------------------- MODULE ProviderManager --------------------------
(***************************************************************************)
(* What the provider manager answers: which providers a model name stands  *)
(* for, and how the web search of a provider, a model or a candidate was   *)
(* resolved when the program started.                                      *)
(*                                                                         *)
(* A configuration is a record                                             *)
(*   providers: key -> [address, credential, protocol, support, models,    *)
(*              offers, visual], where models is a function from the       *)
(*              catalog's names to [image], offers one to priorities       *)
(*   routes:    alias -> [provider, model]                                 *)
(*   searchKey: whether a Tavily or Firecrawl key is configured            *)
(* and a manager is what NewProviderManager makes of it.  A map of the     *)
(* code is a function; one loop over a map runs in any order.              *)
(***************************************************************************)
EXTENDS Integers, FiniteSets, Sequences, TLC, SequencesExt

CONSTANTS
    KeyOrder,    \* the provider keys, in the order of a dictionary
    Ref,         \* the names written as references: name -> [provider, model]
    NativeSearch \* the providers whose upstream accepts the native search tool

Keys == Range(KeyOrder)
Rank(k) == CHOOSE i \in DOMAIN KeyOrder : KeyOrder[i] = k

Unset == ""

\* Neither pattern matches: no provider, and the name as it is.
ParseModelRef(name) ==
    IF name \in DOMAIN Ref THEN Ref[name] ELSE [provider |-> Unset, model |-> name]

-----------------------------------------------------------------------------
(* The manager.                                                            *)

DefaultKey(providers) ==
    IF "default" \in DOMAIN providers THEN "default"
    ELSE IF Cardinality(DOMAIN providers) = 1 THEN CHOOSE k \in DOMAIN providers : TRUE
    ELSE Unset

NewProviderManager(c) ==
    [providers |-> c.providers, routes |-> c.routes,
     defaultK |-> DefaultKey(c.providers), resolvedWS |-> <<>>]

RouteKey(pm, alias) ==
    IF pm.routes[alias].provider = Unset THEN pm.defaultK ELSE pm.routes[alias].provider

\* The reverse index: who offers a name, and with which priority.
Offering(pm, name) ==
    { k \in DOMAIN pm.providers : name \in DOMAIN pm.providers[k].offers
                                              \cup DOMAIN pm.providers[k].models }

Priority(pm, k, name) ==
    IF name \in DOMAIN pm.providers[k].offers THEN pm.providers[k].offers[name] ELSE 0

ProtocolForKey(pm, k) ==
    IF k \in DOMAIN pm.providers THEN pm.providers[k].protocol ELSE "anthropic"

Candidate(pm, k, model) ==
    [key |-> k, model |-> model, protocol |-> ProtocolForKey(pm, k)]

\* A finite set as a sequence, sorted.
InOrder(S, before(_, _)) ==
    CHOOSE s \in [1 .. Cardinality(S) -> S] :
        /\ \A x \in S : \E i \in 1 .. Cardinality(S) : s[i] = x
        /\ \A i, j \in 1 .. Cardinality(S) : i < j => before(s[i], s[j])

\* The providers of a name by priority, those of the same one by their keys.
Sorted(pm, name) ==
    InOrder(Offering(pm, name),
            LAMBDA k, l : \/ Priority(pm, k, name) < Priority(pm, l, name)
                          \/ /\ Priority(pm, k, name) = Priority(pm, l, name)
                             /\ Rank(k) < Rank(l))

\* The candidates, the preferred one first; none stands for the error.
ResolveModel(pm, name) ==
    LET ref == ParseModelRef(name)
        alone(k, model) ==
            IF k \in DOMAIN pm.providers THEN <<Candidate(pm, k, model)>> ELSE <<>>
    IN  IF name \in DOMAIN pm.routes THEN alone(RouteKey(pm, name), pm.routes[name].model)
        ELSE IF ref.provider # Unset THEN alone(ref.provider, ref.model)
        ELSE [ i \in 1 .. Cardinality(Offering(pm, name)) |-> Candidate(pm, Sorted(pm, name)[i], name) ]

ModelMetaFor(pm, model, k) ==
    IF k \in DOMAIN pm.providers /\ model \in DOMAIN pm.providers[k].models
    THEN <<pm.providers[k].models[model]>>
    ELSE <<>>

-----------------------------------------------------------------------------
(* The lookups by model name that do not go through ResolveModel.  They    *)
(* read a reference before an alias, and end at the default provider.      *)

DirectRef(pm, name) ==
    /\ ParseModelRef(name).provider # Unset
    /\ ParseModelRef(name).provider \in DOMAIN pm.providers

ProtocolForModel(pm, name) ==
    ProtocolForKey(pm,
        IF ParseModelRef(name).provider # Unset THEN ParseModelRef(name).provider
        ELSE IF name \in DOMAIN pm.routes THEN RouteKey(pm, name)
        ELSE pm.defaultK)

ProviderKeyForModel(pm, name) ==
    IF DirectRef(pm, name) THEN ParseModelRef(name).provider
    ELSE IF name \in DOMAIN pm.routes THEN RouteKey(pm, name)
    ELSE pm.defaultK

\* None when there is no provider to fall back to.
ProviderAndUpstreamForModel(pm, name) ==
    IF DirectRef(pm, name) THEN <<ParseModelRef(name)>>
    ELSE IF name \in DOMAIN pm.routes
         THEN <<[provider |-> RouteKey(pm, name), model |-> pm.routes[name].model]>>
    ELSE IF pm.defaultK = Unset THEN <<>>
    ELSE <<[provider |-> pm.defaultK, model |-> name]>>

-----------------------------------------------------------------------------
(* Web search: what is stored under a provider, a model or a candidate.    *)

OfProvider(k) == <<"provider", k>>
OfModel(name) == <<"model", name>>
OfCandidate(k, model) == <<"candidate", k, model>>

Stored(pm, key) == IF key \in DOMAIN pm.resolvedWS THEN pm.resolvedWS[key] ELSE Unset

ResolvedWebSearchForModel(pm, name) ==
    LET target == ProviderAndUpstreamForModel(pm, name)
        candidates == { OfCandidate(target[i].provider, target[i].model) : i \in DOMAIN target }
        known == candidates \cap DOMAIN pm.resolvedWS
    IN  IF OfModel(name) \in DOMAIN pm.resolvedWS THEN Stored(pm, OfModel(name))
        ELSE IF known # {} THEN Stored(pm, CHOOSE key \in known : TRUE)
        ELSE Stored(pm, OfProvider(ProviderKeyForModel(pm, name)))

ResolvedWebSearchForCandidate(pm, k, model) ==
    IF OfCandidate(k, model) \in DOMAIN pm.resolvedWS
    THEN Stored(pm, OfCandidate(k, model))
    ELSE Stored(pm, OfProvider(k))

ResolvedWebSearchMode(pm, name, candidate) ==
    LET mode == ResolvedWebSearchForCandidate(pm, candidate.key, candidate.model)
    IN  IF mode # Unset THEN mode ELSE ResolvedWebSearchForModel(pm, name)

-----------------------------------------------------------------------------
(* The resolution at the start.  "support" is a provider's own setting,    *)
(* "auto" where it has none; settings per model or per route are left out. *)

Fallback(c) == IF c.searchKey THEN "injected" ELSE "disabled"

\* The upstream is asked with the anthropic protocol, whatever it speaks.
Probe(c, k) ==
    IF k \in NativeSearch /\ c.providers[k].protocol = "anthropic"
    THEN "enabled" ELSE Fallback(c)

ProviderSearch(c, k) ==
    LET p == c.providers[k]
    IN  CASE p.protocol = "anthropic" ->
               IF p.support = "auto" THEN Probe(c, k) ELSE p.support
          [] p.protocol = "openai-response" ->
               IF p.support \in {"disabled", "injected"} THEN "disabled" ELSE "enabled"
          [] OTHER -> Fallback(c)

\* The setting for a name; a name in several catalogs has that of the first
\* catalog met.
WebSearchForModel(c, name, order) ==
    LET ref == ParseModelRef(name)
        holders == SelectSeq(order, LAMBDA k : name \in DOMAIN c.providers[k].models)
        k == IF name \in DOMAIN c.routes /\ c.routes[name].provider # Unset
             THEN c.routes[name].provider
             ELSE IF ref.provider # Unset THEN ref.provider
             ELSE IF holders # <<>> THEN Head(holders)
             ELSE Unset
    IN  IF k \in DOMAIN c.providers THEN c.providers[k].support ELSE "auto"

\* Stores one mode for the name and for the candidate it leads to.
ResolveModelWebSearch(c, ws, name, k, model, order) ==
    LET protocol == ProtocolForModel(NewProviderManager(c), name)
        support == WebSearchForModel(c, name, order)
        mode == CASE protocol = "anthropic" ->
                       IF support = "auto" THEN Probe(c, k) ELSE support
                  [] protocol = "openai-response" ->
                       IF support \in {"disabled", "injected"} THEN "disabled" ELSE "enabled"
                  [] OTHER -> "disabled"
    IN  (OfModel(name) :> mode) @@ (OfCandidate(k, model) :> mode) @@ ws

\* Every name of the catalogs, written as a reference and bare, and then
\* every alias, the loops taking the providers in the given order.
ResolvePerProviderWebSearch(c, order) ==
    LET key(a) == RouteKey(NewProviderManager(c), a)
        own == [ slot \in { OfProvider(k) : k \in DOMAIN c.providers } |->
                   ProviderSearch(c, slot[2]) ]
        written(k, m) == SetToSeq({ r \in DOMAIN Ref : Ref[r] = [provider |-> k, model |-> m] })
                         \o <<m>>
        named(k, m) == [ j \in DOMAIN written(k, m) |-> <<written(k, m)[j], k, m>> ]
        catalog(k) ==
            FoldLeft(LAMBDA s, m : s \o named(k, m), <<>>, SetToSeq(DOMAIN c.providers[k].models))
        aliases == SetToSeq({ a \in DOMAIN c.routes : key(a) # Unset })
        todo == FoldLeft(LAMBDA s, k : s \o catalog(k), <<>>, order)
                \o [ i \in DOMAIN aliases |->
                       <<aliases[i], key(aliases[i]), c.routes[aliases[i]].model>> ]
    IN  FoldLeft(LAMBDA ws, t : ResolveModelWebSearch(c, ws, t[1], t[2], t[3], order), own, todo)

\* The manager that the program starts with.
BootManager(c, order) ==
    [NewProviderManager(c) EXCEPT !.resolvedWS = ResolvePerProviderWebSearch(c, order)]
=============================================================================
