------------------------------ MODULE Dispatch ------------------------------
(***************************************************************************)
(* One request to /v1/responses, from the gates of handleResponses to the  *)
(* return of its handler, while the configuration is reloaded around it.   *)
(*                                                                         *)
(* The handler has two ways.  A preferred candidate that speaks the        *)
(* client's own protocol is proxied (handleOpenAIResponse), the next       *)
(* candidate taking over when the connection fails.  Any other is called   *)
(* through the adapters (handleWithAdapters, handleAdapterStream), which   *)
(* stay with the preferred one.                                            *)
(*                                                                         *)
(* The handler keeps no snapshot of the runtime: it asks for the active    *)
(* manager or configuration anew at each of its steps, and an action here  *)
(* ends where the next such reading begins.  Requests share the runtime    *)
(* and the statistics, which are locked, and nothing else that matters     *)
(* here, so that one of them is enough.                                    *)
(***************************************************************************)
EXTENDS ProviderManager

CONSTANTS
    Configs,   \* the configurations a reload may bring, valid ones
    Names,     \* the model names a request may give
    Malformed, \* the addresses that no request can be built for
    MaxReloads \* bound: the number of reloads

ASSUME MaxReloadsAssumption == MaxReloads \in Nat

\* Keys, names, addresses and credentials are texts, and priorities numbers.
ASSUME NamesAssumption ==
    /\ KeyOrder \in Seq(STRING)
    /\ Names \subseteq STRING
    /\ \A name \in DOMAIN Ref : Ref[name] \in [provider : STRING, model : STRING]

ASSUME ConfigsAssumption ==
    \A c \in Configs :
       /\ DOMAIN c.providers \subseteq Keys
       /\ \A k \in DOMAIN c.providers :
             /\ c.providers[k].address \in STRING
             /\ c.providers[k].credential \in STRING
             /\ c.providers[k].protocol \in STRING
             /\ \A m \in DOMAIN c.providers[k].offers : c.providers[k].offers[m] \in Int
       /\ \A a \in DOMAIN c.routes : c.routes[a].model \in STRING

VARIABLES
    versions,   \* the snapshots of the runtime so far, the one of the start first
    req,        \* the request: its model, its image, whether it asks for a stream
    pc,         \* where the handler is
    resolvedAt, \* the version that the candidates were resolved with
    handledAt,  \* the version that the handler took its manager from
    candidates, \* the candidates that are left, the preferred one first
    attempt,    \* the candidate being tried
    injected,   \* the search tools of the proxy were put into the request
    client,     \* the address and credential of the client that is called, if any
    calls,      \* history: what was sent upstream
    answers,    \* history: what the client was answered
    reports,    \* history: what OnRequestCompleted was told
    counted     \* history: how often the statistics counted the request

vars == <<versions, req, pc, resolvedAt, handledAt, candidates, attempt, injected, client,
          calls, answers, reports, counted>>

-----------------------------------------------------------------------------
Images == {"none", "item", "nested"} \* an item of the input, or within a message
Requests == [model : Names, image : Images, stream : BOOLEAN]

Places == {"arriving", "resolving", "filtering", "proxying", "trying", "connecting", "copying",
           "adapting", "injecting", "choosing", "sending", "awaiting", "starting",
           "streaming", "done"}

Snapshot(c, pm) == [config |-> c, manager |-> pm]
Active == Len(versions)
Manager(n) == versions[n].manager
ProvidersOf(n) == versions[n].config.providers

Preferred == candidates[1]

\* Mutant: the client of the start is preferred.
ActiveClientStale(k, protocol) ==
    LET serving == { n \in {Active, 1} : k \in DOMAIN ProvidersOf(n)
                                           /\ ProvidersOf(n)[k].protocol = protocol }
    IN  IF 1 \in serving THEN <<ProvidersOf(1)[k]>>
        ELSE IF serving # {} THEN <<ProvidersOf(Active)[k]>> ELSE <<>>

\* The client of the chat and google protocols: from the active configuration
\* if the provider still speaks the protocol there, else the one of the start.
ActiveClient(k, protocol) ==
    LET serving == { n \in {Active, 1} :
                       /\ k \in DOMAIN ProvidersOf(n)
                       /\ ProvidersOf(n)[k].protocol = protocol }
    IN  IF Active \in serving THEN <<ProvidersOf(Active)[k]>>
        ELSE IF serving # {} THEN <<ProvidersOf(1)[k]>>
        ELSE <<>>

\* A candidate's own client, made with its manager.
CandidateClient(k) == <<ProvidersOf(resolvedAt)[k]>>

HasVisual(c, model) == model \in c.visual

Init ==
    /\ \E c \in Configs, order \in SetToSeqs(Keys) :
          versions = <<Snapshot(c, BootManager(c, SelectSeq(order,
                                    LAMBDA k : k \in DOMAIN c.providers)))>>
    /\ req \in Requests
    /\ pc = "arriving"
    /\ resolvedAt = 0
    /\ handledAt = 0
    /\ candidates = <<>>
    /\ attempt = 1
    /\ injected = FALSE
    /\ client = <<>>
    /\ calls = <<>>
    /\ answers = <<>>
    /\ reports = <<>>
    /\ counted = 0

-----------------------------------------------------------------------------
(* The runtime.                                                            *)

\* The new manager has no web search resolved: only the start resolves it.
Reload ==
    /\ Len(versions) <= MaxReloads
    /\ \E c \in Configs : versions' = Append(versions, Snapshot(c, NewProviderManager(c)))
    /\ UNCHANGED <<req, pc, resolvedAt, handledAt, candidates, attempt, injected, client,
                   calls, answers, reports, counted>>

-----------------------------------------------------------------------------
(* Ends.  writeOpenAIError answers with an error of the proxy itself; the  *)
(* metrics hear of a request only where the code tells them.               *)

Answer(from, status) == answers' = Append(answers, [from |-> from, status |-> status])
Report(status, k) == reports' = Append(reports, [status |-> status, key |-> k])

Refuse(status) ==
    /\ Answer("proxy", status)
    /\ pc' = "done"
    /\ UNCHANGED <<versions, req, resolvedAt, handledAt, candidates, attempt, injected, client,
                   calls, reports, counted>>

\* The proxying handler's deferred report names no provider.
RefuseAndReport(status) ==
    /\ Answer("proxy", status)
    /\ Report("error", Unset)
    /\ pc' = "done"

-----------------------------------------------------------------------------
(* handleResponses.                                                        *)

\* An upgrade, another method, an unreadable body, no JSON: in this order.
Reject ==
    /\ pc = "arriving"
    /\ \E status \in {426, 405, 400} : Refuse(status)

Accept ==
    /\ pc = "arriving"
    /\ pc' = "resolving"
    /\ UNCHANGED <<versions, req, resolvedAt, handledAt, candidates, attempt, injected, client,
                   calls, answers, reports, counted>>

UnknownModel ==
    /\ pc = "resolving"
    /\ ResolveModel(Manager(Active), req.model) = <<>>
    /\ Refuse(404)

Resolve ==
    /\ pc = "resolving"
    /\ candidates' = ResolveModel(Manager(Active), req.model)
    /\ candidates' # <<>>
    /\ resolvedAt' = Active
    /\ pc' = "filtering"
    /\ UNCHANGED <<versions, req, handledAt, attempt, injected, client, calls, answers, reports,
                   counted>>

\* Mutant: a model that a provider's catalog does not limit takes images.
TakesInputUnlessKnown(candidate) ==
    \/ req.image # "item"
    \/ \A i \in DOMAIN ModelMetaFor(Manager(Active), candidate.model, candidate.key) :
          ModelMetaFor(Manager(Active), candidate.model, candidate.key)[i].image

\* Only an item of the input itself counts as an image.
TakesInput(candidate) ==
    \/ req.image # "item"
    \/ \E i \in DOMAIN ModelMetaFor(Manager(Active), candidate.model, candidate.key) :
          ModelMetaFor(Manager(Active), candidate.model, candidate.key)[i].image

\* The candidates that pass a filter, in their order.
Kept(places) ==
    [ n \in 1 .. Cardinality(places) |-> candidates[InOrder(places, LAMBDA i, j : i < j)[n]] ]

FilterCandidatesByInput ==
    Kept({ i \in DOMAIN candidates : TakesInput(candidates[i]) })

NobodyTakesInput ==
    /\ pc = "filtering"
    /\ FilterCandidatesByInput = <<>>
    /\ Refuse(502)

\* The registry has an adapter for every other protocol a configuration may name.
Filter ==
    /\ pc = "filtering"
    /\ candidates' = FilterCandidatesByInput
    /\ candidates' # <<>>
    /\ pc' = IF candidates'[1].protocol = "openai-response" THEN "proxying" ELSE "adapting"
    /\ UNCHANGED <<versions, req, resolvedAt, handledAt, attempt, injected, client, calls,
                   answers, reports, counted>>

-----------------------------------------------------------------------------
(* handleOpenAIResponse.                                                   *)

Proxy ==
    /\ pc = "proxying"
    /\ handledAt' = Active
    /\ candidates' = Kept({ i \in DOMAIN candidates :
                                candidates[i].protocol = "openai-response" })
    /\ pc' = "trying"
    /\ UNCHANGED <<versions, req, resolvedAt, attempt, injected, client, calls, answers, reports,
                   counted>>

\* Mutant: the last candidate is never tried.
IsLastEarly == attempt + 1 >= Len(candidates)

IsLast == attempt = Len(candidates)

\* What cannot be tried, or fails to connect, hands over to the next candidate.
NextCandidate ==
    \/ /\ ~IsLast
       /\ attempt' = attempt + 1
       /\ pc' = "trying"
       /\ UNCHANGED <<answers, reports>>
    \/ /\ IsLast
       /\ RefuseAndReport(502)
       /\ UNCHANGED attempt

\* The address and the key are the handler's manager's, the model is the candidate's.
Target == LET k == candidates[attempt].key
          IN  IF k \in DOMAIN Manager(handledAt).providers
              THEN <<Manager(handledAt).providers[k]>> ELSE <<>>

Usable == \E i \in DOMAIN Target : Target[i].address \notin Malformed

SkipCandidate ==
    /\ pc = "trying"
    /\ ~Usable
    /\ NextCandidate
    /\ UNCHANGED <<versions, req, resolvedAt, handledAt, candidates, injected, client, calls,
                   counted>>

\* Mutant: the key is read from the active configuration, not from the manager.
TryCandidateMixed ==
    /\ pc = "trying"
    /\ Usable
    /\ calls' = Append(calls,
          [attempt |-> attempt, key |-> candidates[attempt].key,
           model |-> candidates[attempt].model, address |-> Target[1].address,
           credential |-> IF candidates[attempt].key \in DOMAIN ProvidersOf(Active)
                          THEN ProvidersOf(Active)[candidates[attempt].key].credential ELSE Unset,
           search |-> "none", visual |-> FALSE, loop |-> FALSE, outcome |-> "pending"])
    /\ pc' = "connecting"
    /\ UNCHANGED <<versions, req, resolvedAt, handledAt, candidates, attempt, injected, client,
                   answers, reports, counted>>

TryCandidate ==
    /\ pc = "trying"
    /\ Usable
    /\ calls' = Append(calls,
          [attempt |-> attempt, key |-> candidates[attempt].key,
           model |-> candidates[attempt].model,
           address |-> Target[1].address, credential |-> Target[1].credential,
           search |-> IF ResolvedWebSearchForModel(Manager(handledAt), req.model) = "enabled"
                      THEN "native" ELSE "none",
           visual |-> FALSE, loop |-> FALSE, outcome |-> "pending"])
    /\ pc' = "connecting"
    /\ UNCHANGED <<versions, req, resolvedAt, handledAt, candidates, attempt, injected, client,
                   answers, reports, counted>>

Outcome(o) == calls' = [calls EXCEPT ![Len(calls)].outcome = o]

FailToConnect ==
    /\ pc = "connecting"
    /\ Outcome("unreachable")
    /\ NextCandidate
    /\ UNCHANGED <<versions, req, resolvedAt, handledAt, candidates, injected, client, counted>>

\* Any answer of the upstream is the client's, an error too.
CopyHeader ==
    /\ pc = "connecting"
    /\ Outcome("answered")
    /\ \E status \in {200, 500} : Answer("upstream", status)
    /\ pc' = "copying"
    /\ UNCHANGED <<versions, req, resolvedAt, handledAt, candidates, attempt, injected, client,
                   reports, counted>>

\* Mutant: a failed copy is answered with an error.
FailToCopyRefused ==
    /\ pc = "copying"
    /\ RefuseAndReport(502)
    /\ Outcome("broken")
    /\ UNCHANGED <<versions, req, resolvedAt, handledAt, candidates, attempt, injected, client,
                   counted>>

FailToCopy ==
    /\ pc = "copying"
    /\ Report("error", Unset)
    /\ Outcome("broken")
    /\ pc' = "done"
    /\ UNCHANGED <<versions, req, resolvedAt, handledAt, candidates, attempt, injected, client,
                   answers, counted>>

\* Mutant: usage is looked for in every answer.
CopyBodyCountingAll ==
    /\ pc = "copying"
    /\ counted' \in {counted, counted + 1}
    /\ Report(IF answers[1].status = 200 THEN "success" ELSE "error", candidates[attempt].key)
    /\ Outcome("whole")
    /\ pc' = "done"
    /\ UNCHANGED <<versions, req, resolvedAt, handledAt, candidates, attempt, injected, client,
                   answers>>

\* Usage is looked for in a successful answer only, and may be missing there.
CopyBody ==
    /\ pc = "copying"
    /\ IF answers[1].status = 200
       THEN /\ counted' \in {counted, counted + 1}
            /\ Report("success", candidates[attempt].key)
       ELSE /\ UNCHANGED counted
            /\ Report("error", candidates[attempt].key)
    /\ Outcome("whole")
    /\ pc' = "done"
    /\ UNCHANGED <<versions, req, resolvedAt, handledAt, candidates, attempt, injected, client,
                   answers>>

-----------------------------------------------------------------------------
(* handleWithAdapters.                                                     *)

Adapt ==
    /\ pc = "adapting"
    /\ handledAt' = Active
    /\ pc' = "injecting"
    /\ UNCHANGED <<versions, req, resolvedAt, candidates, attempt, injected, client, calls,
                   answers, reports, counted>>

SearchMode == ResolvedWebSearchMode(Manager(handledAt), req.model, Preferred)

\* ToCoreRequest or FromCoreRequest gives up.
FailToConvert ==
    /\ pc = "injecting"
    /\ Refuse(500)

Inject ==
    /\ pc = "injecting"
    /\ injected' = (SearchMode = "injected" /\ versions[Active].config.searchKey)
    /\ pc' = "choosing"
    /\ UNCHANGED <<versions, req, resolvedAt, handledAt, candidates, attempt, client, calls,
                   answers, reports, counted>>

Clients ==
    IF Preferred.protocol = "anthropic" THEN CandidateClient(Preferred.key)
    ELSE ActiveClient(Preferred.key, Preferred.protocol)

NoClient ==
    /\ pc = "choosing"
    /\ Clients = <<>>
    /\ Refuse(502)

ChooseClient ==
    /\ pc = "choosing"
    /\ Clients # <<>>
    /\ client' = <<[address |-> Clients[1].address, credential |-> Clients[1].credential]>>
    /\ pc' = "sending"
    /\ UNCHANGED <<versions, req, resolvedAt, handledAt, candidates, attempt, injected, calls,
                   answers, reports, counted>>

\* Whether the visual orchestrator makes the calls: never for google, and for
\* a chat stream not either.
Visual ==
    /\ HasVisual(versions[Active].config, req.model)
    /\ \/ Preferred.protocol = "anthropic"
       \/ Preferred.protocol = "openai-chat" /\ ~req.stream

\* Whether a search loop makes them: not around the visual orchestrator.
WholeSearchLoop == injected /\ ~Visual

\* An anthropic stream has none.
StreamSearchLoop == injected /\ Preferred.protocol # "anthropic"

Send(loop) ==
    /\ calls' = Append(calls,
          [attempt |-> 1, key |-> Preferred.key, model |-> Preferred.model,
           address |-> client[1].address, credential |-> client[1].credential,
           search |-> IF injected THEN "injected"
                      ELSE IF SearchMode = "enabled" /\ Preferred.protocol = "anthropic"
                      THEN "native" ELSE "none",
           visual |-> Visual, loop |-> loop, outcome |-> "pending"])
    /\ UNCHANGED <<versions, req, resolvedAt, handledAt, candidates, attempt, injected, client,
                   answers, reports, counted>>

SendWhole ==
    /\ pc = "sending"
    /\ ~req.stream
    /\ Send(WholeSearchLoop)
    /\ pc' = "awaiting"

\* An error of the upstream, its answers of status 500 included, is a 502; one
\* of the conversion back is a 500.  Neither is reported.
FailUpstream ==
    /\ \E o \in {"unreachable", "whole"} :
          /\ Outcome(o)
          /\ \E status \in IF o = "whole" THEN {500, 502} ELSE {502} : Answer("proxy", status)
    /\ pc' = "done"
    /\ UNCHANGED <<versions, req, resolvedAt, handledAt, candidates, attempt, injected, client,
                   reports, counted>>

FailWhole ==
    /\ pc = "awaiting"
    /\ FailUpstream

RespondWhole ==
    /\ pc = "awaiting"
    /\ Outcome("whole")
    /\ Answer("upstream", 200)
    /\ Report("success", Preferred.key)
    /\ counted' = counted + 1
    /\ pc' = "done"
    /\ UNCHANGED <<versions, req, resolvedAt, handledAt, candidates, attempt, injected, client>>

-----------------------------------------------------------------------------
(* handleAdapterStream.                                                    *)

SendStream ==
    /\ pc = "sending"
    /\ req.stream
    /\ Send(StreamSearchLoop)
    /\ pc' = "starting"

\* As long as the header is not written the errors are as without a stream.
FailStream ==
    /\ pc = "starting"
    /\ FailUpstream

StartStream ==
    /\ pc = "starting"
    /\ Outcome("answered")
    /\ Answer("upstream", 200)
    /\ pc' = "streaming"
    /\ UNCHANGED <<versions, req, resolvedAt, handledAt, candidates, attempt, injected, client,
                   reports, counted>>

\* What the visual orchestrator answered to an image is already there as a
\* whole, its usage too, when it is written as a stream.
Prefetched == calls[Len(calls)].visual /\ req.image # "none"

\* The stream is over: after response.completed, which brings the usage if
\* the upstream told it, after another end, or because the client is gone.
\* The report does not tell these apart.
EndStream ==
    /\ pc = "streaming"
    /\ \E o \in {"whole", "broken"} :
          /\ Outcome(o)
          /\ counted' \in IF o = "whole" \/ Prefetched THEN {counted, counted + 1} ELSE {counted}
    /\ Report("success", Preferred.key)
    /\ pc' = "done"
    /\ UNCHANGED <<versions, req, resolvedAt, handledAt, candidates, attempt, injected, client,
                   answers>>

-----------------------------------------------------------------------------
Done == pc = "done" /\ UNCHANGED vars

Next ==
    \/ Reload
    \/ Reject \/ Accept \/ UnknownModel \/ Resolve \/ NobodyTakesInput \/ Filter
    \/ Proxy \/ SkipCandidate \/ TryCandidate \/ FailToConnect
    \/ CopyHeader \/ FailToCopy \/ CopyBody
    \/ Adapt \/ FailToConvert \/ Inject \/ NoClient \/ ChooseClient
    \/ SendWhole \/ FailWhole \/ RespondWhole
    \/ SendStream \/ FailStream \/ StartStream \/ EndStream
    \/ Done

Spec == Init /\ [][Next]_vars

-----------------------------------------------------------------------------
(* Properties.                                                             *)

Provided(n, k) == k \in DOMAIN ProvidersOf(n)

\* Every variable has its type.
Calls == [attempt : Nat \ {0}, key : STRING, model : STRING, address : STRING,
          credential : STRING, search : {"native", "injected", "none"}, visual : BOOLEAN,
          loop : BOOLEAN, outcome : {"pending", "unreachable", "answered", "broken", "whole"}]
TypeOK ==
    /\ versions # <<>>
    /\ \A n \in DOMAIN versions : versions[n].config \in Configs
    /\ req \in Requests
    /\ pc \in Places
    /\ resolvedAt \in 0 .. Active
    /\ handledAt \in 0 .. Active
    /\ attempt \in 1 .. Len(candidates) + 1
    /\ injected \in BOOLEAN
    /\ \A i \in DOMAIN calls : calls[i] \in Calls
    /\ counted \in 0 .. 1

\* A credential is sent to no address but one it was configured with: however
\* reloads fall between the handler's readings, both come from one snapshot.
CredentialsWithTheirAddress ==
    \A i \in DOMAIN calls :
       \E n \in DOMAIN versions :
          /\ Provided(n, calls[i].key)
          /\ ProvidersOf(n)[calls[i].key].address = calls[i].address
          /\ ProvidersOf(n)[calls[i].key].credential = calls[i].credential

\* As long as nothing was reloaded since the model was resolved, the request
\* goes where the configuration says: to the routed or offering provider, at
\* its address and with its key, and for a name of the catalogs to no provider
\* before one of a better priority that could have been tried.
Meant(pm, k, model) ==
    IF req.model \in DOMAIN pm.routes
    THEN k = RouteKey(pm, req.model) /\ model = pm.routes[req.model].model
    ELSE IF ParseModelRef(req.model).provider # Unset
    THEN [provider |-> k, model |-> model] = ParseModelRef(req.model)
    ELSE model = req.model /\ k \in Offering(pm, model)

CouldBeTried(pm, k) ==
    /\ pm.providers[k].protocol = "openai-response"
    /\ pm.providers[k].address \notin Malformed
    /\ req.image = "item" => /\ req.model \in DOMAIN pm.providers[k].models
                             /\ pm.providers[k].models[req.model].image

QuietCallsAsConfigured ==
    resolvedAt = Active =>
        \A i \in DOMAIN calls :
           LET pm == Manager(Active)
               k == calls[i].key
           IN  /\ Meant(pm, k, calls[i].model)
               /\ pm.providers[k].address = calls[i].address
               /\ pm.providers[k].credential = calls[i].credential
               /\ \A better \in Offering(pm, req.model) :
                     /\ Meant(pm, better, req.model)
                     /\ Priority(pm, better, req.model) < Priority(pm, k, req.model)
                     /\ CouldBeTried(pm, better)
                     => \E j \in 1 .. i - 1 : calls[j].key = better

\* A request is sent to another candidate only if no one before may have
\* begun to answer it, to each at most once and in their order; the client is
\* told that nobody could be reached only after the last was tried.
FallbackInOrder ==
    /\ TypeOK
    /\ \A i, j \in DOMAIN calls :
          i < j => /\ calls[i].attempt < calls[j].attempt
                   /\ calls[i].outcome = "unreachable"
    /\ (pc = "done" /\ reports # <<>> /\ answers[1] = [from |-> "proxy", status |-> 502])
          => /\ attempt = Len(candidates)
             /\ \A j \in DOMAIN candidates :
                   \/ \E i \in DOMAIN calls : calls[i].attempt = j
                   \/ ~Provided(handledAt, candidates[j].key)
                   \/ ProvidersOf(handledAt)[candidates[j].key].address \in Malformed

\* The client gets exactly one answer by the time the handler returns, and
\* nothing of the proxy's own after an upstream began to answer.
AnsweredOnce ==
    /\ Len(answers) = (IF pc \in {"copying", "streaming", "done"} THEN 1 ELSE 0)
    /\ answers # <<>> /\ answers[1].from = "upstream"
          => calls[Len(calls)].outcome \in {"answered", "broken", "whole"}

\* A request is reported at most once and counted at most once; it is counted
\* only together with a report of its success, and every answer that an
\* upstream gave is reported by the time the handler returns.
CountedIsReported ==
    /\ Len(reports) <= 1
    /\ counted <= 1
    /\ counted = 1 => reports # <<>> /\ reports[1].status = "success"
    /\ pc = "done" /\ answers[1].from = "upstream" => reports # <<>>

\* A request with an image item is sent only where the model took images in a
\* configuration that was active since the model was resolved.
ImageWhereAccepted ==
    req.image = "item" =>
        \A i \in DOMAIN calls :
           \E n \in resolvedAt .. Active :
              /\ Provided(n, calls[i].key)
              /\ calls[i].model \in DOMAIN ProvidersOf(n)[calls[i].key].models
              /\ ProvidersOf(n)[calls[i].key].models[calls[i].model].image

=============================================================================
