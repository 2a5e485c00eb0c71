# Verification of CodeSeek

CodeSeek is a local proxy. It offers the OpenAI Responses API to a coding
client and serves it from providers that speak other protocols: Anthropic
Messages, OpenAI Chat, Google, or Responses itself. This directory holds TLA+
models of the parts of it where several things happen at once or in an order
nobody chose, the TLC configurations that check them on small instances, and
proofs that TLAPS checks for every instance.

Paths below are relative to `src/internal/` unless they start with `src/`.

1. [The system](#1-the-system)
2. [Plan](#2-plan)
3. [Modules and code](#3-modules-and-code)
4. [Runs](#4-runs)
5. [Bounds](#5-bounds)
6. [Fairness](#6-fairness)
7. [Proofs](#7-proofs)
8. [What the checks say against the code](#8-what-the-checks-say-against-the-code)
9. [What is not modelled](#9-what-is-not-modelled)

## 1. The system

### Components

A request enters at `service/server`, is given a session, is matched with the
candidates that may serve its model, is converted to a core format, and then
to the protocol of a candidate; the answer comes back through the same
conversions, in one piece or as a stream. Beside that path stand a management
API that edits the configuration in a database, a runtime that swaps the
snapshot requests read, extensions that hook into requests, and a desktop
application that starts and stops it all.

| component | state | operations | interacts with |
| --- | --- | --- | --- |
| session manager (`service/server/session`) | table key -> session, last use; the pruner | lookup with expiry and eviction, ephemeral session, prune, stop | every handler (mutex), configuration (limits) |
| thinking cache (`extension/deepseek_v4/state.go`) | two bounded maps per session with their insertion orders | remember by tool calls or by text, look up, prune | handlers of the same session (mutex) |
| reasoning replay (`service/server/adapter_dispatch.go`, `extension/deepseek_v4/plugin.go`) | per session data; the stream buffer of each provider adapter | remember an answer's thinking, prepend it to the next request | sessions, thinking caches, provider goroutines |
| streaming pipeline (clients' `readStream`, adapters' `ToCoreStream`, `FromCoreStream`, `handleAdapterStream`) | the upstream body, two or three channels, the goroutines' hands | read, convert, forward, write, close, give up | upstream, client, request context |
| stream conversion (`protocol/*/adapter.go`, replays in `service/server/adapter_dispatch.go`) | block indexes of the provider, core indexes, positions of items, text so far | one upstream message to core events, one core event to events for the client; replay of an answer that was fetched whole | the pipeline carries its events |
| dispatch (`service/server/dispatch.go`, `adapter_dispatch.go`) | none of its own; reads the snapshot anew at each step | gates, choice and fallback of candidates, choice of client, accounting | runtime, provider manager, statistics, plugins |
| configuration store and management API (`service/store`, `service/api`) | main tables, changes table, `applyMu` | stage, import, discard, apply | runtime through the apply callback |
| runtime (`service/runtime`) | the snapshot pointer | read, reload | all readers, the store |
| provider manager (`service/provider`) | routes, catalogs and offers of a snapshot, how web search was resolved | resolve a model to candidates, look up a provider by key | dispatch, start of the application |
| search and visual loops (`extension/websearch`, `extension/visual`, `service/server/websearch_inject.go`) | messages so far, round counter, images and their labels | call upstream, run own tools, repeat, give up | dispatch, upstream |
| request conversion (`protocol/*/adapter.go`, `extension/codextool`) | none between requests, except in the Google adapter | history to core messages, to a provider's messages; tools to the provider's, calls back to the client's | dispatch, prompt cache |
| message rewriters (`extension/kimi_workaround`, the reinforcement of `extension/deepseek_v4`) | none: functions of one request's messages | insert warnings, a limit on tool rounds or a reinforcement prompt | request conversion, through the plugin registry |
| prompt cache (`protocol/cache`, `protocol/anthropic/cache.go`, `protocol/google/cache.go`) | registry of prefixes: cold, warming, warm | plan breakpoints, mark, refer to a cached content, expire | requests to anthropic and Google |
| Google adapter (`protocol/google`) | the map from calls to names with its mutex, the cache key: fields shared by all requests | initialise, record, look up, clean up, learn of a cached prefix | every request to a Google provider |
| plugin registry (`extension/plugin`) | plugins by capability | initialise, dispatch hooks, shut down | application, handlers |
| database registry (`db`, `extension/db`) | providers, consumers, their stores | select, migrate, bind, transactions | configuration store, metrics |
| statistics, metrics (`service/stats`, `extension/metrics`) | counters, rows | record, summarise | handlers |
| application (`service/app`) | process state | bootstrap, serve, shut down | everything |
| desktop application (`src/cmd/codeseek-gui`) | running flag, Codex configuration and its backup | start, stop, save settings, restore | the server, the user's files |

Configuration parsing, tracing, logging, catalogues, capture proxies, assets
and scripts are data mapping or file output.

### Hard behaviours

*Shared state between requests.* Sessions outlive requests and are shared by
all requests with the same key. Their table is guarded by one mutex, but the
time a lookup stamps is read before the mutex is taken, and a streamed request
looks its session up three times. The provider adapters are singletons with a
buffer of the last stream's events each, which every stream resets, fills and
reads.

*Pipelines.* A streamed answer passes four goroutines over buffered and
unbuffered channels. Each may be the first to stop: the upstream ends, breaks
or falls silent, the client leaves, a write fails. Some sends select on the
request's context and some do not.

*Three numberings of one answer.* A provider numbers its blocks, or does not;
its adapter gives core events an index; the goroutine that writes to the client
gives items a position, when it first hears of them. What a client rebuilds
depends on all three agreeing in every order a provider may send.

*Transactions around a swap.* Applying configuration changes lists, commits,
loads, validates and publishes, in this order, while other requests stage and
discard, the client of the apply may go away and the process may die.

*A request's state in a singleton.* The Google adapter keeps what belongs to
the request it is converting in fields that all requests share, and the mutex
that guards them guards single accesses.

*A reload within a request.* A handler keeps no snapshot: it asks for the
active one at each step, so that the candidates, the client and the credentials
of one request may come from different configurations.

*Conversations, not requests.* A client sends its whole history with each
request. What a conversion loses, moves or repeats shows only turns later, and
in the provider's prompt cache only as a miss.

*Retries and fallbacks.* Candidates are tried in turn, but only for some
failures; tool loops repeat upstream calls up to a limit, some of their calls
fail, and a client's own calls may come in the same answer.

*Life cycle.* Start, reload, shutdown and restart order the parts; the desktop
application additionally rewrites a file it does not own.

### What correctness means

* Sessions: a conversation keeps its session while it is used and there is
  room; the limit holds after insertions, also when a reload lowers it; what
  goes first is what was used least recently, up to the lag of the stamps.
* Thinking cache: it is well formed and within its limit, drops blocks only
  when it is full, and finds for each key its latest block.
* Replay: a turn is sent upstream with its own thinking or with none; whoever
  was remembered before a request was made is replayed in it.
* Pipeline: nothing is lost, repeated or overtaken; the end comes last; what
  is remembered as the final answer is all of it; the handler returns; the
  upstream connection is released.
* Conversion: a client that follows the events has exactly what the provider
  said, block by block; an item is closed once, with the text of its deltas;
  the closing answer is complete; no order of messages makes the code index an
  item it does not have.
* Configuration: requests are served with a valid configuration, the database's
  unless loading that failed; a change takes effect at most once and in staging order; a
  restart continues with what was committed.
* Dispatch: a request goes where one configuration says, with the credential
  that belongs to the address; the next candidate is tried only if none before
  began to answer; the client is answered once, and what is counted is what
  was reported.
* Tool loops: what is sent again is a conversation in which every call has its
  result; the client's calls come back to the client; the rounds end.
* Request conversion: the provider is told what was said, every call directly
  followed by its result; calls come back as the client declared its tools; a
  prefix does not change from one request to the next and is marked to its end.
* Google adapter: a request is converted with its own state, returns, and is
  sent without its system and tools only if the provider has them.

## 2. Plan

In the order of importance, as it was carried out.

1. `SessionManager`, with proofs.
2. `ThinkingState` / `ThinkingCache`: the data structure as operators, and the
   concurrent use of one, with proofs.
3. `ReasoningReplay`: the request handlers, composed from `SessionManager` and
   `ThinkingState`, with proofs that use those of the two.
4. `ConfigRegister` / `ConfigStore`: an abstract register of the served
   configuration, and the store shown to implement it, with proofs.
5. `StreamPipeline`: one streamed answer through its goroutines, with the proofs
   that nothing is lost and that the final answer is whole.
6. `ResponseStream` / `StreamConversion`: what the events become, with the
   proofs that the indexes lead to items and that only known calls are completed.
7. `ProviderManager` / `Dispatch`: gates, candidates and fallback, a reload
   between two reads of the snapshot, and what is accounted for a request,
   with proofs.
8. `ToolLoop`: the search and visual loops, with the proofs of their limit and of
   what they send, return, count and look at.
9. `ResponsesInput`, `ProviderMessages`, `PromptCache`, composed in
   `RequestConversion`: what the provider is told of a conversation and what
   the client gets back, with the proofs that calls come back as declared and
   that the marks of the prompt cache reach the end of a request.
10. `GeminiAdapter`: the state that requests to a Google provider share, with
    proofs.

What would come next: the desktop application's start, stop, backup and
restore with crashes between them; shutdown with requests running; a FIFO from
upstream to client as an abstract specification that `StreamPipeline`
implements while its context is alive, of which `NothingLost` is the invariant
part; and the overlap of two Google requests with `Dispatch`.

## 3. Modules and code

| module | models | state | proofs |
| --- | --- | --- | --- |
| `SessionManager` | `service/server/session/manager.go`, `service/server/session.go` | table, limits, lookups under way, the pruner | `SessionProofs` |
| `ThinkingState` | `extension/deepseek_v4/state.go` | none: operators on a value | |
| `ThinkingCache` | the same under concurrent handlers | one cache, handlers between two sections | `SessionProofs` |
| `ReasoningReplay` | `service/server/adapter_dispatch.go` with the above | handlers, caches per session, adapters' buffers | `ReplayProofs` |
| `ConfigRegister` | the promise of the management API | stored and served configuration, process up | |
| `ConfigStore` | `service/store`, `service/api`, `service/runtime`, bootstrap in `service/app` | tables, changes, snapshot, handlers, applies | `ConfigStoreProofs` |
| `StreamPipeline` | `protocol/*/client.go`, `protocol/*/adapter.go`, end of `handleAdapterStream` | channels, hands, status of goroutines | `StreamPipelineProofs` |
| `ResponseStream` | `streamLoop` in `protocol/openai/adapter.go` | its maps, the answer, the events sent | |
| `StreamConversion` | `ToCoreStream` of the provider adapters, the two replays in `service/server/adapter_dispatch.go`, with `ResponseStream` | converters, what the provider said | `AdapterProofs` |
| `ProviderManager` | `service/provider/manager.go`, `modelref`, the resolution of web search in `service/app` | none: operators on a configuration | |
| `Dispatch` | `service/server/dispatch.go`, `adapter_dispatch.go`, `service/runtime`, with `ProviderManager` | snapshots, the handler, its calls, answers and reports | `DispatchProofs` |
| `ToolLoop` | `extension/websearch`, `extension/visual`, `service/server/websearch_inject.go` and the replays behind them | the loop, its messages, rounds and histories | `ToolLoopProofs` |
| `Selection` | helper of the three below: parts of sequences by place or type | none: operators | |
| `ResponsesInput` | `ToCoreRequest`, `FromCoreResponse` of `protocol/openai/adapter.go`, `extension/codextool` | none: operators | |
| `ProviderMessages` | `FromCoreRequest`, `ToCoreResponse` of the provider adapters | none: operators | |
| `PromptCache` | `protocol/cache/planner.go`, `protocol/anthropic/cache.go` | none: operators | |
| `RequestConversion` | a conversation through the three above | history, core messages, provider's request, marks, what was said | `RequestProofs` |
| `GeminiAdapter` | `protocol/google/adapter.go`, `cache.go`, the registry | the adapter's fields, requests under way | `AdapterProofs` |

Each `MC*` module instantiates one of them for TLC.

### SessionManager

`sessionForRequest` calls `GetOrCreate(key, time.Now())`. Go evaluates the
argument first, so a lookup is two actions: `ReadClock` and, under the mutex,
`GetOrCreate`, which is `Hit` or `Create`. `Create` evicts as long as the table
is at the limit, because a reload may have lowered the limit by more than one;
which of several entries with the same stamp goes is the map's iteration order,
hence a choice. The pruner's `PrunerTick` and `Prune` are split in the same
way. `Stop` closes a channel; the select may still choose the ticker. Objects
are members of `Sessions` and are reused once nothing points to them, so that
"the same session" in a property means the same object and never a
recycled one that happens to carry old state. `SessionTTL` never returns zero
(`server.go:422-429`), `MaxSessions` may return 0 for unlimited. The variable
`served` is a history of when entries were really handed out.

### ThinkingState and ThinkingCache

The state has two maps with their orders. `pruneLocked` cuts the front of an
order, `Newest`; a key that is remembered again keeps its place. The blocks are
opaque apart from `NoPayload`, which `hasThinkingPayload` rejects. The cache is
shared by all requests of a session: `RememberFromContent` takes the mutex once
for the tool calls and once for the text, hence two actions.

### ReasoningReplay

A request goes through `pc`: `dispatch`, `adapter` and `stream` are the three
lookups; `replay` and `again` prepend what is cached; `call` and `open` wait for
the upstream; `streaming` is the SSE loop; `remember`, `fallback` and
`chatBuffer` are what follows it. `Callers` of the session manager are pairs of
a request and a lookup site. The provider's goroutine is `Emit`: it goes on
when the handler has aborted, which is how late events get into the next
stream's buffer. A non-streamed answer is remembered before it is written; a
streamed one after it was delivered. An answer is one block of reasoning and
one tool call, both named by the request they answer, so that a reasoning text
is the set of requests whose reasoning went into it: the text of one request in
the cache of another shows as a wrong member of that set. Time stands still
here (`MaxClock = 0`), since expiry is the subject of `SessionManager`;
sessions are lost by eviction.

### ConfigStore

A configuration is one partial function per resource. What decides validity
between resources is kept: which rows exist, whom they refer to, and whether a
provider's required fields are there. A handler of the management API reads
the snapshot and decides what to stage (`Decide` and the actions that use it);
`StageChange` inserts one row. An import is a sequence of such rows and may stop
midway. `ApplyLock`, `ApplyCommit`, `Load` or `LoadFails`, and `Publish` are the
stages of `ApplyPendingChanges`; `ApplyAbort` is any failure of the transaction.
`LoadFails` may happen whatever the database holds, since a query or a scan can
fail as well as the validation, and `ReloadFails` is a refusal by
`Runtime.Reload`: both return behind the commit and leave the old snapshot in
force (`sqlite_store.go:561-569`). `missed` is the history of that: the last
attempt to load and publish failed. `Patched` is what a PATCH of a provider
stages: the active definition where the body gives the mask as its key, a row
that lacks a required field where it gives no key at all (`providers.go:202`).
`Discard` takes no lock. `Crash` and `Boot` end and start the process; `Boot`
takes the database's configuration if `LoadAll` succeeds and the file's if not,
whatever the reason.
The management API exists only in a server whose `Config.Store` is set
(`server.go:157`).

`ConfigRegister` is what a user of that API may rely on: `active` is only ever
replaced by what the database holds at that moment, provided it is valid. A
restart may also take the file's configuration.

### StreamPipeline

    wire -> reader -> chunks -> converter -> events -> loop -> handler

`hand[g]` is the event goroutine `g` has taken and not passed on, `status[g]`
whether it still runs. The anthropic converter reads the body itself; `chat`
stands for the google protocol too. `events` is the buffered channel of the
adapter; the channel from `streamLoop` to the handler is unbuffered, so its
send and receive are one action, `HandlerReceives`. A message is its number and
becomes one event; one that becomes several is several messages. `Final` is the
last message, `Completed` the event made of it, `Error` an upstream's error
event and also the event made of a read error. The chat converter holds the end
back until its channel is closed (`Kept`). `produced` is the history of the
events that what was read stands for; `InFlight` is all that is between the
upstream and the client in the order of its age, `Passed` and then `Coming`.

### ResponseStream and StreamConversion

`ResponseStream` has one action per branch of `streamLoop`. An item carries its
type, its status, a text (of a message, of a reasoning summary, or the
arguments of a call) and a signature. A map that lacks a key reads as the zero
value, which for a position is the first item, as in Go. Of the client's events
those that only announce or close a part inside an item are left out, and so is
the handler of `core.text.done`, which no adapter emits.

`StreamConversion` adds the producers. The anthropic one has an action per
event of the protocol; blocks come one after the other, as that protocol
promises, and any block may be cut off by `StreamFails`. `ChatTakes` converts
one chunk: `ConvertedChunk` applies the steps of the code in their order, each
of which takes and returns the choice's state with the events so far.
`GoogleTakes` computes a delta from two snapshots; it looks at lengths only,
so texts are sequences of pieces with one piece per delta. `ReplayWhole` turns an answer
that was fetched whole into a stream. A message is taken when the events of the
one before it are converted: the two goroutines share only a channel, so the
order in which their steps interleave is not visible in the result, and what
channels do is in `StreamPipeline`.

`answer` is the history of what the provider said. Where the code does not pass
that on, the properties say so one by one:

* *Calls that are lost.* A google chunk may hold a functionCall, and an answer
  that is replayed for a request with an image may have calls; the code looks
  for text only in the one (`google/adapter.go:331`) and for text and reasoning
  in the other (`adapter_dispatch.go:1731`). `Kept` is the answer without these
  calls: `AnswerRebuilt` and `FinalIsAnswer` compare all else of such answers.
* *Arguments of a server's tool.* They are sent on though their block is not,
  with the position of the first item; `stray` is the history of that.
  `AnswerRebuilt` leaves out the case that the first item is a client's call,
  whose arguments they are then added to; `FinalIsAnswer` holds all the same;
  `ClosedOnce` leaves out such answers.
* *Orders the converters do not expect.* `regular` becomes false, and the
  properties about content fall silent, when text follows a status message in
  its block (or the other way round), when a google snapshot repeats the one
  before it, when chat chunks come in an order no provider documents (reasoning
  after content, a call continued before it is named, a chunk after the finish
  reason), and when an answer is cut short without its end. The type invariant
  and `CompletesKnownCalls` hold of all answers.
* *Signatures* of streamed thinking, which only `Signed` compares, and only
  where a whole answer is replayed.

### ProviderManager and Dispatch

`ProviderManager` is pure: `ResolveModel` and its lookups by alias, by
`provider/model` and by the catalogs' names, in order of priority, and how the
web search of a provider, a model and a candidate was resolved at the start.
A loop of the code over a Go map is a choice.

`Dispatch` is one request while the configuration is reloaded around it.
`versions` are the snapshots so far, and every action that asks the runtime for
its manager or its configuration reads the last of them; an action ends where
the next such reading begins, which is what a reload can come between.
`resolvedAt` and `handledAt` are the versions the candidates and the choice of
a way were read from. The gates `Reject`, `UnknownModel` and `NobodyTakesInput`
refuse. The passthrough way is `TryCandidate`, `SkipCandidate` (no provider any
more, or a request that cannot be built), `FailToConnect`, `CopyHeader`,
`CopyBody`, `FailToCopy`; only a failed connection leads to `NextCandidate`.
The other way is `Adapt`, `Inject`, `ChooseClient`, `SendWhole` or
`SendStream`, and the answer. `answers`, `reports` and `counted` are what the
client, the metrics extension and the session's statistics get. One request is
enough: requests share the runtime and the statistics, and nothing that another
could change under this one except the snapshot.

### ToolLoop

Seven `kind`s share the actions `Call`, `ReceiveChunk` (chunks of a streamed
chat answer, put together by `Collect`), `Return`, `Continue` and `Exhaust`,
and differ in operators named for what they decide: whose tools are `Owned`,
when an answer is `Settled`, the `Turn` appended to the request, the
`ReportedUsage`. A call is `Valid` if it can be run; one that cannot is
answered with a failure. Arguments are token sequences, so that the merging of
partial arguments, of a repeated tail and of image references is modelled by
what it does. `CoreResponseToCoreStream` and `CoreResponseToStreamEvents` are
the two replays through which a whole answer leaves as a stream; the second,
made for a request with an image, has no calls, so that `ClientCallsReturned`,
which is about what the client has when all has gone out, leaves it out.
`asked`, `analysed` and `given` are histories.

### ResponsesInput, ProviderMessages, PromptCache and RequestConversion

The first three are operators: `ResponsesInput` turns a client's items into
core messages and blocks back into items, `ProviderMessages` core messages into
those of each protocol and its answers into blocks, `PromptCache` plans and
places the marks. `convertInput` is a fold whose state is the slices of the
code; of the slice of pending reasoning the model keeps the capacity and who
shares its array, because Go's `append` writes into it when there is room.

`RequestConversion` has one action per call of a conversation: `UserSays` or
`ToolsRun` (the client), `ToCoreRequest`, `FromCoreRequest`, `ProviderAnswers`
(the provider, `ToCoreResponse` and `FromCoreResponse`). `said` is the history
of what was really said, against which the request is compared in terms common
to the protocols (`TextsSent`, `TurnsSent`). A text is a tag that names its
turn and its speaker.

### GeminiAdapter

`app.go:232` registers one adapter for all requests. `Start` is "initialize
per-request state", `ConvertText`, `ConvertToolUse`, `PanicAtToolUse` and
`ConvertToolResult` convert one block, `PrepareCache` leaves out what the
registry says is cached, `CleanUp` sets the map to nil, and `EndUnseen` or
`Answer` end the request; `ToCoreResponse` sees whole answers only. Writing an
entry of a nil map panics with the mutex held, because its `Unlock` is not
deferred; net/http recovers and the process goes on. The assignment of the
cache key, which is a data race in the code, is taken to be atomic. Nothing is
ever created at the provider, since the adapter is made without a client.

## 4. Runs

| run | configuration | what it shows |
| --- | --- | --- |
| `sessions` | `MCSessionManager.cfg` | with lookups that stamp out of order, a pruner and reloads of both limits: insertions respect the limit in force, eviction spares whatever was handed out after the victim was last asked for, live sessions are neither dropped nor replaced |
| `thinking_cache` | `MCThinkingCache.cfg` | the cache is well formed and within its limit, a block of a call goes only when it is full, and what is found is the latest |
| `replay` | `MCReasoningReplay.cfg` | turns whose stream had its buffer to itself are replayed with their own thinking or none; what was remembered before a request is replayed in it; the lookups of a request agree when the table is unlimited |
| `config` | `MCConfigStore.cfg` | served configurations are valid and, unless the last load or reload failed, the database's; changes take effect once and in order; the whole implements the register |
| `pipeline` | `MCStreamPipeline.cfg` | nothing is lost or reordered, the end is behind all else, the final answer is whole, the handler returns, the upstream is released except in the one state described by `ConverterStuck` |
| `conversion` | `MCStreamConversion.cfg` | for every source, in the orders providers use and in others: the client rebuilds what was said but for the calls that are lost (section 3), items are closed once, the closing answer is complete, indexes never lead astray |
| `dispatch` | `MCDispatch.cfg` | with two reloads at any step: an address is used with its own credential, a request during which nothing is reloaded goes where the configuration says, fallback is in order and only before an answer began, the client is answered once, counted is reported, images go where they are taken |
| `toolloop` | `MCToolLoop.cfg` | what a loop sends again has a result for every call, a client's calls come back to it unless the answer is streamed for a request with an image, rounds are bounded, the visual loop's usage is the sum of its rounds, and the image looked at is the one whose label was meant |
| `requests` | `MCRequestConversion.cfg` | over each protocol: calls are directly followed by their results, what was said is told once and in order, calls come back under their declared names and, but for custom tools, namespaces, marks reach the last message, a prefix is repeated word for word |
| `requests_history` | `MCRequestConversionHistory.cfg` | *violated*: the reasoning of a turn overwrites an earlier message |
| `gemini` | `MCGeminiAdapter.cfg` | as long as requests do not overlap: results go out under their calls' names, nothing is left out that the provider does not have, and every request returns |
| `gemini_state` | `MCGeminiAdapterState.cfg` | *violated*: the map is not that of the request being converted |

Properties that hold by the shape of a model are not stated; each one listed
can be broken by a small change to the code, kept in the modules as a *mutated
form* next to the definition it changes. Each stateful component has one type
invariant, which is a conjunct of one of its other properties (`CacheDropsWhenFull`,
`LookupsAgree`, `AppliedInOrder`, `NothingLost`, `FallbackInOrder`,
`EveryCallAnswered`, `SentAsSaid`); `sessions` checks it on its own, and that of
`StreamConversion` is proved.

Deadlock is checked in `sessions`, `thinking_cache`, `config`, `dispatch` and
`toolloop`; the last two stutter explicitly once the handler or the loop has returned.
`CHECK_DEADLOCK FALSE` is set where the system may really stop: when all
requests of `ReasoningReplay` are served, when the request of `StreamPipeline`
is over, when the answer of
`StreamConversion` is closed or has `MaxMessages` messages, when a conversation
of `RequestConversion` has made `MaxTurns` requests, and when the requests of
`GeminiAdapter` are used up or wait for a mutex that nobody releases.

## 5. Bounds

* `sessions`: three keys give an eviction a choice between two, two lookups
  are enough for stamps to go backwards, three instants for an entry to be
  within, at and past its time to live of 1; limits 0, 1 and 2, so that a
  reload can lower the limit by one or remove it. Five objects exceed the keys
  and hands that can point to one, so an allocation never fails.
* `thinking_cache`: a limit of two (1024 in the code) with three ids makes
  every insertion order and eviction possible, for runs of any length.
* `replay`: three requests, because thinking that strays needs two streams and
  a third request that shows it; limits 0 and 1, so that one other conversation
  evicts; `MCPlans` leaves out the combinations that differ by exchanging
  requests.
* `config`: two concurrent management requests, two providers (one of them
  unknown to the file), one model, one alias, one import of three changes and
  at most `MaxChanges = 3` staged rows. Three are enough for an invalid
  combination of two accepted changes and a repair, and for an apply while
  others stage.
* `pipeline`: channels of one event instead of 64; five messages fill every
  hand and channel between the upstream and the client with one left over, so
  that all stages wait at once.
* `conversion`: two anthropic blocks with two deltas each (`MaxBlocks = 2`, ten
  messages), so that a block of one kind follows one of another and a text has
  a middle; five chunks of the shapes in `MCChunks` for chat, so that role,
  reasoning, content, calls and finish fit in one stream, in any order, with
  two calls that interleave; five snapshots for google; replays of up to two
  blocks.
* `dispatch`: two provider keys, because fallback needs a second candidate;
  five configurations that differ where a reload can do harm (another address
  and key, another protocol, a provider gone, a model without images, an
  address no request can be built for); two reloads, one between the choice of
  candidates and the choice of a client and one after it; an alias, a catalog
  name, two `provider/model` names and an unknown one.
* `toolloop`: all seven kinds, two rounds (a second answer that calls again
  uses them up), two calls per answer, so that one can be the proxy's
  and one the client's or both the same; arguments that are sound, lack what
  they need, or refer to an image that is there or not; up to three images of
  which one is unreadable.
* `requests`: three turns, each with an answer of any shape and outputs in any
  order; the client's words and the tool that is called first vary in the first
  of them (`FreeTurns = 1`); the shapes of each protocol cover reasoning before,
  between and behind text and calls, several calls, a server's tool, an empty
  answer; a tool of each kind and one whose joined name another one bears; three
  cache configurations: the defaults, a plan with a budget of two, and a request
  below the planner's threshold. `requests_history` has four turns, since the
  overwritten message is one that shares the array two turns later.
* `gemini`: two conversations whose ids repeat, one that begins behind its
  first call, three requests each, so that a prefix can become warm, be used
  and expire.

## 6. Fairness

`StreamPipeline` and `GeminiAdapter` have liveness properties.

In `StreamPipeline` weak fairness is assumed of each
goroutine as a whole: the Go scheduler runs whatever can run, and a blocked
send or receive is a disabled action. `NoticeGone` is fair because net/http
watches the connection of a request it serves. A write to a client that stays
ends, so a fair `Handler` assumes that a connected client reads. Nothing is
assumed of the upstream, which may fall silent, or of the client, which need
not leave: properties are of the form "after the upstream ended or the client
left".

In `GeminiAdapter` the steps of a conversion (`Convert(c)`) are weakly fair,
again the scheduler, and so is the end of a call (`Finish(c)`): the provider
answers or the client leaves. That is more than `StreamPipeline` asks, because
here the question is what requests do to each other and not what a silent
provider does. Nobody has to ask again, and nothing has to expire.

## 7. Proofs

A theorem speaks of every value of the constants that the assumptions in the
modules admit (`ConstantsAssumption`, `PlansAssumption`, `ArgsAssumption`,
`ImagesAssumption`, `NamesAssumption`, `ConfigsAssumption` and the like); TLC
evaluates them in every run. Most say what the code's types say (names,
addresses and credentials are texts, priorities and limits are numbers, a plan
names a kind of answer), that the file a store starts from is valid, that a
provider in a configuration has a key of the dictionary, and nothing about how
many of anything there are, but for finite sets of session keys.

What is defined over sequences is written with recursive functions
(`Without`, `Those`, `OnlyContents`, `CallsClosed`, `Replayed`, `Selected`,
`Concatenated`, `SpacedPlaces`, `ConvertInput`, `AnthropicMessages`,
`OutputItems`) or as *the*
sequence of a finite set in an order (`InOrder`, `Sorted`, `Kept`). The proofs
get induction from the well-foundedness of `<` on the naturals
(`Induction`: a set that has 0 and the successor of each of its elements has
all naturals, since there is no least one among the others), show with it that
such a function exists and what it is element by element, and go from there
with lemmas on one more element. `SortedExists` shows that every finite set
has its sorted sequence: the place of an element is the number of those not
after it.

**SessionProofs.** For the table, `TypeCorrect` proves the type invariant, including
that the table is a function with a finite set of keys and the history covers
exactly the keys. It is not enough for the theorems on removals, which depend
on stamps lagging behind: `StampsSafe` proves that every stamp is no later than
the instant its entry was handed out, and that no one holds a time from the
future. Together they are the inductive invariant. From them
`InsertsWithinLimit` (cardinalities of the evicted set), `EvictsLeastRecentSafe`
and `LiveSessionsKept` follow as action properties, one step per action. The
lemmas on `WithoutKeys`, `Put`, `Unexpired` and `Evictions` are stated once.

The thinking cache of a session is in order (`IsCache`) when each of its maps
holds exactly the keys of its order, which are distinct and within the limit.
The lemmas on the operations show that remembering keeps a cache in order and say
which records it changes. The invariant adds that an id is missing only if the
order is as long as the limit (`FullInv`) and that each record is the latest
block of its id (`LatestInv`). `CacheDropsOnlyWhenFull` and `LatestIsReplayed`
follow for any limit and any number of handlers.

**ReplayProofs.** The proofs of the two parts in `SessionProofs` are used and
not repeated: the lemmas on a cache's value for each session's cache, the lemmas
behind `TypeCorrect` for the table, with pairs of request and site as callers.
`ReplayInv` adds where handlers stand (`HandlersInv`), that without a limit what
a handler holds is what the table has (`LookupsInv`), that a cache holds for
each turn that was not disturbed its own block, and all remembered turns unless
it is full (`CachesInv`), and that a buffer has nothing but its owner's events
and those of disturbed requests (`BuffersInv`). From it follow
`LookupsAlwaysAgree`, `ReplayIsFaithful` and, as an action property,
`RememberedTurnsReturn`. That the buffers are shared is why `FaithfulReplay`
alone is not inductive: what is read out of a buffer after a stream is the
turn's own only because every event of another request that got into it has
marked both, that request and the owner, as disturbed.

**ConfigStoreProofs.** The invariant is `MutexInv` (whoever is between list and
end holds `applyMu`), `LoadedInv` (what an apply loaded is what the database
still holds, because only the holder writes the tables), `ActiveIsValid` and
`InSync`, which leaves out the time after a load or reload that failed. None of
the last two is inductive alone: `Publish` keeps them only through `LoadedInv`,
which only the mutex preserves. `ServedIsValid`, `ServedIsStored` and
`Refinement` follow for every set of admins, resources and imports; the
refinement maps commits to `Write`, publications to `Publish`, `Boot` to
`Restart`. `ChangesApplyInOrder` needs `OrderInv` on top: whatever is pending,
or was listed by the apply under way, has a larger id than all that took effect,
and what was staged since the list has a larger one than the list. A batch is
applied in the order of its ids, which `SortedExists` provides.

**StreamPipelineProofs.** `TypeCorrect`, `NothingIsLost` and `FinalAnswerIsWhole`
hold for every capacity and every number of messages. `NothingLost` alone is
not inductive: the chat converter, when it finds its channel closed, appends
the end it has kept, and that is in order only if nothing is left to read. The
invariant therefore adds `HandsFit` (who may hold what) and `FinalIsLastRead`
(nothing comes behind the last message of a chat answer while the context is
alive) to the types and to `Chain`, the equation of `NothingLost`. The steps
between two neighbours move one element of a concatenation; the lemmas on
concatenations state that once. For `FinalAnswerIsWhole`, `AnswerInv` adds that
loop's answer is what the messages it took say (`AnswerTaken`), that no content
is behind the last message, read or unread (`FinalIsBehind`), that the
goroutines end one after the other unless the client leaves (`EndsInOrder`),
and that the final answer was taken when all was read (`FinalInv`).

**AdapterProofs.** `IndexesLeadToItems` proves the type invariant of
`StreamConversion` for every set of chunks and kinds of block and any order of
messages: every index in `outputIndexes` has its position in the answer and
every reasoning index has one, which is why the reads of `response.Output` in
the reasoning and text branches cannot fail. The invariant joins the types of
the converters, the bound of the block index and the facts about the maps; the
steps of the converters and of the loop touch disjoint parts of it.

`OnlyKnownCallsCompleted` is about the one read that nothing guards, that of
the end of a call. `CallsAnnounced` says of the events under way that each end
of a call is of an index that is known or starts as a call before, and that no
reasoning block has or gets that index, since the end of one forgets its index.
For a chat provider this depends on what the choice remembers from chunk to
chunk (`ChatInv`): reasoning never gets an index beyond the current block, and
a call is ended only if it is behind it and its start was sent. Each of the
steps that convert a chunk keeps that, in whatever order the fragments of the
calls come; a replay of an answer of any length starts each call right before
it ends it, and happens before any reasoning has an index (`ReplayInv`).

`ItemsClosedOnce` proves that streamLoop closes each item once, with the text of
all its deltas, and says nothing of it afterwards. ClosedOnce speaks of what was
sent only, so it is not inductive: what will be sent depends on the maps of
streamLoop, and what those will be on the events that wait in the channel and on
the converter behind it. `TurnsInv` joins the three by a board, which gives each
block index how far its block has come (not begun, a text, reasoning, a call
announced, a call with arguments, a call complete, over). `Fits(a)`: what
streamLoop keeps for each index is that of board `a`, the items of the blocks
that go on have not been closed, and the text kept of each is that of its
deltas so far. `Runs(a, coreEvents, z)`: the waiting events come in the order of
the blocks' lives and lead from `a` to a board `z`. `ConverterFits(z)`: what the
converter remembers is that of `z`, for instance that the current block of a
choice is reasoning or a text and that all behind it are new but for the calls
that were announced. A step of streamLoop takes the first event and moves `a`; a
step of a converter finds the channel empty and moves `z`, by one event after
the other. In streamLoop every branch and in the converters every event of a
chunk is a lemma. The orders the converters expect are needed where `KeepsOrder`
and `regular` are assumed: reasoning after a call, for instance, would take the
index of the call.

`SentAsSaidAlways` proves `SentAsSaid` and `StateIsPerRequest` that the fields
are those of the one request under way, both for all conversations, blocks and
prefixes, as long as no two requests overlap. `OneRequest` says that the shared
fields then belong to the one request under way, `Caching` that the key is that
request's and that the registry holds only what the provider has confirmed,
and `NamesInv` that after n blocks the map is that of the calls among them and
that the results among them went out under the names of the calls that came
before them. A further block extends both by the same call or the same result,
which is where the map has to be the request's own. `NobodyPanics` follows
from the same invariant: the map is nil only between requests. They are the
safety core of `ReturnsUnlessOverlapped`.

**RequestProofs.** `CallsComeBackAsDeclared` proves `CallsAsDeclared` for
conversations of any length over each protocol, every list of tools and every
shape of answers. `ConversationInv` says that the calls among what was said and
the calls in the client's history are as many and that each pair `ComesBack`:
the same id, and the type, name, namespace and input with which a tool of the
client declares it (the namespace of a custom or hosted tool excepted, which is
lost). The client's own steps add no calls. An answer adds both: the lemmas on
`FromAnthropic`, `FromChat` and `FromGemini` say that the blocks it becomes call
tools of the flattened list only, in their form, and `ItemsPaired` that
`OutputItems`, which goes by the call's name, finds the tool that was called
(`ToolFound`), since the flattened list has no name twice. Three lemmas carry
the rest: a member of `FlattenTools` was made from a declared tool under its
namespace and has its name to itself (`ToolsFromClient`), the proxies of a patch
have the declared name as a prefix (`NamePrefix`), and `OfType` of a
concatenation is that of the parts (`OfTypeTogether`).

The theorem needs `ToolsAssumption`: a tool at least, no namespace in a
namespace, and the patch tool is called apply_patch and stands outside of
namespaces. The last is what Codex declares and what `RebuildGrammar` takes for
granted, which knows a patch by the name of its proxies; it is a hypothesis on
the client (section 8). `ContentsAssumption` only names the kinds of parts and
blocks.

`MarksAlwaysReachTheEnd` proves `MarksReachTheEnd` for conversations of any
length, all contents and every configuration of the planner
(`CachesAssumption`: its numbers of breakpoints are numbers, of whatever sign).
Of the planner two lemmas are needed: the breakpoints are one for the tools at
most, one for the system at most, and messages, within their number together
(`BreakpointsFit`), and among the messages is the last of the user's whenever
one is left over: the last slot of `EvenlySpaced` is the last of the user's
candidates, and there is still room when its turn comes (`PlacesSpaced`,
`LastOfUser`). That the last message of the client is a candidate, at its last
block, is a matter of the conversions.
`MarksInv` therefore says of the history that its items are such as the client
and the proxy make (`ItemsFit`), of the Core request that each message of the
client's ends in a block that is not blank and lies in an array of its own, so
that the array which `convertInput` reuses for pending calls never overwrites
it (`MessagesFit`), and of an Anthropic request that each user message, results
merged into it or not, still ends so (`AllSentFit`). `InputFits` and
`RequestFits` carry this over the two conversions, item by item and message by
message, `AnswerItemsFit` over the answer.

**DispatchProofs.** `IsAnsweredOnce` and `CountedIsReportedAlways` hold for any
set of configurations, any names and any number of reloads. The invariant is
`CallsInv` (a call is under way exactly where the handler has one),
`AnswerInv` (where the handler is says whether an answer was given, and by
whom) and `ReportInv` (nothing is reported or counted before the end). What was
resolved does not enter into it: a reload cannot make a handler answer twice.

Where the calls go is a second invariant, `RInv`. `VersionsInv` ties each
manager to its configuration, `ReadingsInv` orders the handler's readings of
the snapshots, `CandidatesInv` says that the candidates are still those of the
reading of the resolution, by priority, and `NobodyLost` that no provider that
could be tried is missing unless something was reloaded. `ImagesInv`,
`ClientInv` and `RoutedInv` name for each candidate, client and call the one
snapshot that justifies it; `TurnsInv` says that all candidates before the
current one were called and unreachable, or cannot be called. From it follow
`CredentialsStayTogether`, `QuietCallsGoAsConfigured`, `FallsBackInOrder` and
`ImagesGoWhereAccepted`. The indirection through snapshots is necessary: after
a reload the active configuration says nothing of a call under way, and two
readings of the same handler may differ.

**ToolLoopProofs.** Five theorems for every limit, all tools, all arguments and
all lists of images, from one invariant in layers. `Rounds` ties the number of
calls and of turns to the round counter by the place of the loop, `Exhausted`
says that giving up means all rounds were used (`StopsAtItsLimit`). `Used` ties
the total to the sum over the answers (`UsageAddsUp`). `Answering` says that the
calls that are executed are all the loop's own and that the results so far are
those of the first of them, `History` that this was so in every turn sent
upstream (`AllCallsAnswered`). `Handed` says that the calls that have reached
the client are those of the last answer; with the lemma that a replay announces
just the calls of its answer (`ReplayHasCalls`) it makes `ClientsCallsReturned`.
`ImagesAsLabelled` rests on a lemma about numbering: the k-th readable image is
the one with label k.

**Only model-checked.**

* Liveness under fairness (`HandlerReturnsInTheEnd`, `ReleasedOrStuck`,
  `ReturnsUnlessOverlapped`), which is out of the prover's reach.
* `AnswerRebuilt` and `FinalIsAnswer` of `StreamConversion`: they compare what a
  reader folds out of all events of the stream, filtered and sorted, with all
  that was said; an inductive invariant would have to state that comparison for
  every event still under way.
* `CallsAnsweredNext`, `HistoryKeptWhenFollowedUp` and `PrefixRepeated` of
  `RequestConversion`: they compare a whole conversation with what nested folds
  have made of it.

## 8. What the checks say against the code

Two properties that the code's own comments state are violated:

* `protocol/openai/adapter.go:1130` (`requests_history`): pending reasoning is
  prepended with `append` and emptied with `[:0]`, so that an assistant message
  can share the array in which the reasoning of a later turn is collected, and
  is overwritten. It takes an answer with two reasoning items, or one that
  ends in reasoning; `HistoryKeptWhenFollowedUp` shows that everything else is
  kept.
* `protocol/google/adapter.go:89` (`gemini_state`): "per-request state" is a
  field of the one adapter. A second request replaces it, the first to finish
  takes it away; the other's results go out under the wrong names, or its next
  call writes to a nil map, which panics with the mutex held, so that every
  later request to a Google provider waits for ever.

Seen while modelling, without a run of its own. Most are in the models, which
treat them as the code does; properties exclude them where they say otherwise.

*Replay and streams.*

* `service/server/adapter_dispatch.go:1478`: the chat adapter's stream buffer
  is shared by all requests and read after every stream, so that concurrent
  streams store each other's reasoning in their sessions (`disturbed`).
* `extension/deepseek_v4/state.go:248`: `docs/extensions-overview.md:83` speaks of
  two LRU maps, but the code evicts by first insertion, so that a long tool loop
  loses the thinking it is still using. `CacheDropsWhenFull` leaves open who
  has to go.
* `protocol/anthropic/adapter.go:499`: `emit` waits for room only; after a
  failed write with full channels the goroutine and the upstream connection
  stay for ever (`ConverterStuck`), though `:428-429` promises a closed channel.
* `protocol/chat/client.go:217`, `chat/adapter.go:273`: the end of the channel
  is taken for the end of the answer, so that an answer that was cut short is
  reported as completed.
* `protocol/anthropic/adapter.go:606`: a signature of a thinking block is taken
  for a delta of it and lost, though `blockSignatures` is there to keep it.
* `protocol/anthropic/adapter.go:599`: deltas of a server tool's arguments are
  sent on, with the position of the first item, though the block was withheld
  (`:569-571`); `:589`: text that shares its block with a status message is
  sent, but its item is never closed.
* `protocol/google/adapter.go:331`: of a streamed chunk only the text is looked
  for, so that a functionCall of a google stream never reaches the client;
  `:636`: a snapshot equal to the one before is sent again in full, though the
  comment above speaks of a shorter one.
* `service/server/adapter_dispatch.go:1731`: the replay of the visual extension
  drops a client's tool calls (excluded in `ClientCallsReturned`, `Kept` in
  `StreamConversion`).

*Configuration.*

* `service/store/sqlite_store.go:536`: changes are committed and marked as
  applied before the result is validated. A rejected apply leaves a database
  that no restart can load, and the start falls back to the file; after a load
  or reload that fails for another reason (`:561-569`) requests are served with
  the old snapshot over a database that has the new configuration.
* `service/app/app.go:178`: the branch that seeds an empty database cannot be
  reached.
* `service/api/providers.go:199`: PATCH merges into the active configuration,
  so that the second of two patches before an apply takes back the first; `:202`:
  a PATCH that does not name the `api_key` stages a provider without one;
  `settings.go:185` stages the whole extensions setting with one entry;
  `sqlite_store.go:883` discards without the lock that an apply holds.
* `service/runtime/runtime.go:73`: a reload makes a manager without the
  web-search support that the start has probed; `app.go:363`: for a chat or
  google provider a model's "disabled" is stored over "injected".

*Dispatch.*

* On the passthrough way only a failed connection leads to the next candidate,
  and on the way through the adapters nothing does.
* A reload replaces addresses, but a handler falls back to the clients of the
  start; the visual loop always uses those, and a google provider's visual loop
  gets an anthropic-shaped one. The prices of the statistics are never updated.
* Errors of the adapter way and of the early gates are not reported to the
  metrics, and a stream is reported as a success whatever its end.
* `requestHasImage` sees items of the input only and not the parts of a message.

*Tool loops.*

* An answer with the proxy's calls and the client's goes to the client with
  both, though `extension/websearch/orchestrator.go:93` promises a fully resolved
  response. The usage of earlier search rounds is lost.
* `websearch_inject.go:683`: a chunk that repeats the end of the arguments so
  far is dropped even if it belongs to them.
* `injectChatSearchTools`, `injectGoogleSearchTools`, `Orchestrator.StreamMessage`
  and the visual loop on anthropic types (`legacy` in the model, which keeps it
  because its tests do) have no caller in the server; an injected search is not
  served for anthropic streams (`docs/architecture.md:169`).

*Requests.*

* `extension/codextool/customtool.go:541`: a call of a tool with the exec
  grammar comes back as JSON where the client expects source (`CallsAsDeclared`
  leaves it out); so does a patch tool of another name or in a namespace, which
  `ToolsAssumption` excludes. `openai/adapter.go:1586-1614`, `customtool.go:112-116`:
  a custom tool in a namespace, such as `mcp`'s `note` of the run, is annotated
  without it, and its calls come back without a namespace (`InNamespace` leaves
  it out). History that is replayed loses namespaces and proxy names.
* `protocol/chat/adapter.go:132` passes a Responses `tool_choice` on as it is,
  Google ignores it; `protocol/openai/adapter.go:1590` disables the patch proxy
  by the tool's name instead of the model's.
* `protocol/anthropic/cache.go:54` expects a map of any where
  `openai/adapter.go:134` stores one of strings, so that a request's own cache
  key and retention are ignored; `anthropic/adapter.go:390` updates the registry
  under an empty key; `MarkWarming`, `ResetWarming` and `UpdateFromUsage` have
  no caller that can be reached.
* `protocol/google/cache.go:130`: a prefix that Gemini caches on its own is
  registered as a cached content that was never created; the next request
  refers to it and leaves its system and tools out.
* A reasoning-only answer moves to the assistant message of the next turn, and
  reasoning behind a text goes before it.

## 9. What is not modelled

* The desktop application (start, stop, backup and restore of the Codex
  configuration): sequential file handling around calls of the operating
  system; its hazards are listed without a property.
* Shutdown: requests that are still running are waited for without a deadline.
  `StreamPipeline` has what a silent upstream does to one of them.
* Of the configuration store: the settings table, audit rows, routes whose
  provider is omitted.
* Of the replay: thinking remembered by text (checked in `ThinkingCache`),
  the openai-response path, which replays nothing.
* Of the pipeline: memory use and trace buffers; time, so no timeouts, of which
  the code has none for streams.
* Of the conversion of streams: several choices or candidates, which requests
  never ask for; usage, stop reasons, pings; the grammar of custom tools;
  events for parts inside an item.
* What plugins rewrite in a request's messages: `extension/kimi_workaround`
  (warnings, then an error in the place of a tool's result, as the rounds of
  tool calls near a limit) and the reinforcement prompt of
  `extension/deepseek_v4/plugin.go:119`. Both are pure functions of the messages
  of one request and keep nothing; `RequestConversion` has them switched off.
  With the reinforcement prompt on, the prefix that `PrefixRepeated` speaks of
  ends where the previous request had the prompt, which moves to the newest
  user message.
* Of dispatch: prices, rate and cost columns, the listing of models.
* Of the tool loops: what a search or an image analysis returns, which is a
  success or a failure; decoding of images.
* Of requests: sampling parameters, schemas, `tool_choice`, the grammar of
  patches, token estimation (a choice of the cache configuration), several
  users' conversations at once, since nothing is shared but in `GeminiAdapter`.
* Data mapping and file output: configuration parsing and defaults, catalogues,
  formatting, logging, tracing, capture proxies, plugin and adapter registries
  that are filled before the first request, the Cloudflare worker, assets and
  scripts.
