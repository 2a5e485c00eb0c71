------------------------------ MODULE ToolLoop ------------------------------
(***************************************************************************)
(* The loops in which the proxy answers some of the model's tool calls     *)
(* itself: web search (websearch.Orchestrator for anthropic, the chat and  *)
(* google loops of websearch_inject.go) and the visual extension           *)
(* (CoreOrchestrator, and the older Orchestrator on anthropic types).      *)
(*                                                                         *)
(* All have one shape: call the upstream; if its answer calls only tools   *)
(* of the proxy, run them, append the answer and the results to the        *)
(* request and call again; otherwise the answer is the client's.  They     *)
(* differ in which tools are theirs, in when an answer counts as calling   *)
(* tools, in how a streamed answer is put together and in what is made of  *)
(* the usage of the rounds.                                                *)
(*                                                                         *)
(* The texts of arguments are sequences of tokens: complete JSON begins    *)
(* with "{" and ends with "}", "q" stands for a query, question or address *)
(* and a number for a reference to an attached image.                      *)
(***************************************************************************)
EXTENDS Integers, FiniteSets, SequencesExt

CONSTANTS
    Kinds,      \* the loops: "message", "stream", "chat", "chatStream", "google", "visual", "legacy"
    MaxRounds,  \* the configured number of rounds
    Firecrawl,  \* a Firecrawl key is configured
    ClientTools,\* the tools of the client's request
    Invented,   \* tools that nobody offered and a model calls all the same
    MaxCalls,   \* bound: the calls of one answer
    ArgsOf,     \* the arguments that a call of each tool may have
    ImageLists  \* the images of a request for the visual loops: "ok", or "bad" if unreadable

ASSUME MaxRoundsAssumption == MaxRounds \in Nat \ {0}
ASSUME ImagesAssumption == ImageLists \subseteq Seq({"ok", "bad"})

VARIABLES
    kind,     \* the loop that runs
    delivery, \* how the answer will go out: "whole", "coreStream" or "imageStream"
    images,   \* the images of the client's request
    prompt,   \* what stands for each of them in the request sent upstream
    choice,   \* the tool choice of the request: "auto", or "required"
    messages, \* what the loop has appended to the request
    round,    \* rounds completed
    pc,       \* "calling", "receiving", "deciding", "executing", "returning", "returned"
    answer,   \* the upstream's answer of this round, as it was sent
    read,     \* how much of each of its calls a chat stream has brought
    slots,    \* the calls put together from the chunks
    results,  \* the results of this round so far
    total,    \* the usage added up over the rounds
    outcome,  \* "none", "answered", "failed" or "exhausted"
    given,    \* what the client got: calls and usage
    asked,    \* history: the upstream's answers
    analysed  \* history: references and the images that were looked at for them

vars == <<kind, delivery, images, prompt, choice, messages, round, pc, answer, read, slots,
          results, total, outcome, given, asked, analysed>>

-----------------------------------------------------------------------------
SearchNames == {"web_search", "web_search_preview"}
VisualTools == {"visual_brief", "visual_qa"}
ChatTools == {"tavily_search", "firecrawl_fetch"} \cup SearchNames
GoogleTools == {"tavily_search", "firecrawl_fetch"}

\* The tools injected for the web search: fetching needs a key of its own.
InjectedTools == {"tavily_search"} \cup IF Firecrawl THEN {"firecrawl_fetch"} ELSE {}

ASSUME ArgsAssumption ==
    ArgsOf \in [ClientTools \cup Invented \cup InjectedTools \cup VisualTools -> SUBSET Seq(STRING)]

\* The tools that the orchestrator for anthropic has a handler for.
MessageTools == { t \in {"tavily_search", "firecrawl_fetch"} : t = "firecrawl_fetch" => Firecrawl }

Visual == kind \in {"visual", "legacy"}
Chat == kind \in {"chat", "chatStream"}

\* The request's tools with those for web search replaced by the injected ones.
WithSearchTools(tools) == (tools \ SearchNames) \cup InjectedTools

Offered == IF Visual THEN ClientTools \cup VisualTools ELSE WithSearchTools(ClientTools)

\* The tools that a loop runs itself.
Owned ==
    CASE Visual -> VisualTools
      [] Chat -> ChatTools
      [] kind = "google" -> GoogleTools
      [] OTHER -> MessageTools

Calls == UNION { [name : {n}, args : ArgsOf[n]] : n \in Offered \cup Invented }

\* The calls of an answer, with the ids that tell them apart.
Identified(cs) == [i \in DOMAIN cs |-> [id |-> <<round, i>>, name |-> cs[i].name, args |-> cs[i].args]]

\* The elements of s that are in S, in their order.
Those(s, S) ==
    LET those[n \in 0 .. Len(s)] ==
            IF n = 0 THEN <<>>
            ELSE IF s[n] \in S THEN Append(those[n - 1], s[n]) ELSE those[n - 1]
    IN  those[Len(s)]

-----------------------------------------------------------------------------
\* Texts of arguments.

Complete(args) == Len(args) > 1 /\ args[1] = "{" /\ Last(args) = "}"

\* A chunk is appended unless it looks like a snapshot of the whole: both are
\* complete, or one contains the other at its end or its beginning.
AppendToolCallArgs(current, part) ==
    IF Complete(current) /\ Complete(part) THEN part
    ELSE IF IsPrefix(current, part) THEN part
    ELSE IF IsSuffix(part, current) THEN current
    ELSE current \o part

IndexOf(ref) == CASE ref = "1" -> 1 [] ref = "2" -> 2 [] ref = "3" -> 3

\* The references of a call to one of the first n images.
References(args, n) == Those(args, { ref \in {"1", "2", "3"} : IndexOf(ref) <= n })

-----------------------------------------------------------------------------
\* Images.  Each readable one is replaced by a label with its number, the
\* others by a note (the older loop leaves them out).

Available(list) == Those([i \in DOMAIN list |-> [at |-> i, image |-> list[i]]],
                         [at : Nat, image : {"ok"}])

\* Mutant: labels count every image, readable or not.
PreparedByPosition(list) == [i \in DOMAIN list |-> IF list[i] = "ok" THEN i ELSE 0]

\* The number in each image's label, 0 for the note.
Prepared(list) ==
    [i \in DOMAIN list |->
       IF list[i] = "ok" THEN Len(Available(SubSeq(list, 1, i))) ELSE 0]

\* The images that a call's references mean, all of them when none is valid.
NormalizeImages(args) ==
    LET available == Available(images)
        valid == References(args, Len(available))
    IN  IF valid = <<>> THEN [i \in DOMAIN available |-> [ref |-> 0, at |-> available[i].at]]
        ELSE [i \in DOMAIN valid |->
                [ref |-> IndexOf(valid[i]), at |-> available[IndexOf(valid[i])].at]]

\* What a call is run with, if its arguments say it: each protocol has its own
\* way, and what is refused comes back as a result that says so.

Asks(c) == Complete(c.args) /\ Contains(c.args, "q")

ExecuteSearch(c) == c.name \in MessageTools /\ Asks(c)

ExecuteChatSearchCall(c) == (c.name = "firecrawl_fetch" => Firecrawl) /\ Asks(c)

ExecuteGoogleSearchCall(c) == (c.name = "firecrawl_fetch" => Firecrawl) /\ Asks(c)

\* A brief needs an image, a question its text.
AnalysisRequest(c) ==
    /\ Complete(c.args)
    /\ IF c.name = "visual_brief" THEN NormalizeImages(c.args) # <<>> ELSE Contains(c.args, "q")

Valid(c) ==
    CASE Visual -> AnalysisRequest(c)
      [] Chat -> ExecuteChatSearchCall(c)
      [] kind = "google" -> ExecuteGoogleSearchCall(c)
      [] OTHER -> ExecuteSearch(c)

-----------------------------------------------------------------------------
\* The loop's decision: is the answer for the client?

\* The calls that the loop takes the answer to have.
Taken == IF kind = "chatStream" THEN slots ELSE answer.calls

Search(calls) == Those(calls, { c \in ToSet(calls) : c.name \in Owned })
Others(calls) == Those(calls, { c \in ToSet(calls) : c.name \notin Owned })

\* Chat and google look for calls whatever the answer's reason to stop, the
\* others only if the reason is the use of a tool.
SettledMessage ==
    \/ answer.stop # "tool_use"
    \/ Others(answer.calls) # <<>>
    \/ Search(answer.calls) = <<>>

\* A stream's reason is in its last message_delta, the end of the turn if none is.
SettledStream ==
    \/ answer.stop # "tool_use"
    \/ Others(answer.calls) # <<>> \/ Search(answer.calls) = <<>>

SettledChat == Search(Taken) = <<>> \/ Others(Taken) # <<>>

SettledGoogle == Search(answer.calls) = <<>> \/ Others(answer.calls) # <<>>

SettledVisual ==
    \/ answer.stop # "tool_use"
    \/ Others(answer.calls) # <<>> \/ Search(answer.calls) = <<>>

Settled ==
    CASE Visual -> SettledVisual
      [] Chat -> SettledChat
      [] kind = "google" -> SettledGoogle
      [] kind = "stream" -> SettledStream
      [] OTHER -> SettledMessage

\* What a result names as the call it belongs to.
Key(c) == IF kind = "google" THEN c.name ELSE c.id

\* Mutant: the usage of the last round.
LastUsage == answer.usage

\* The usage that goes out with the answer: CoreOrchestrator adds the rounds up.
ReportedUsage == IF kind = "visual" THEN total ELSE answer.usage

\* For the histories: a call without its arguments.
Bare(calls) == [i \in DOMAIN calls |-> [id |-> calls[i].id, name |-> calls[i].name]]

\* What a round appends to the request: the answer, then its results, in one
\* message, or for chat in one each.
Assistant(calls) == [calls |-> Bare(calls), of |-> <<>>]
Results(rs) == [calls |-> <<>>, of |-> [i \in DOMAIN rs |-> rs[i].of]]

MessageTurn(calls, rs) == <<Assistant(calls), Results(rs)>>
ChatTurn(calls, rs) == <<Assistant(calls)>> \o [i \in DOMAIN rs |-> Results(<<rs[i]>>)]
GoogleTurn(calls, rs) == <<Assistant(calls), Results(rs)>>
VisualTurn(calls, rs) == <<Assistant(calls), Results(rs)>>

Turn ==
    CASE Visual -> VisualTurn(Taken, results)
      [] Chat -> ChatTurn(Taken, results)
      [] kind = "google" -> GoogleTurn(Taken, results)
      [] OTHER -> MessageTurn(Taken, results)

\* An answer of the visual or the google loop, replayed as a stream of events.
\* The one made for a request with an image has reasoning and text only.
CoreResponseToStreamEvents(calls) == <<>>

CoreResponseToCoreStream(calls) ==
    FlattenSeq([i \in DOMAIN calls |->
        <<[type |-> "started", index |-> i, call |-> calls[i]],
          [type |-> "args_done", index |-> i, call |-> calls[i]],
          [type |-> "done", index |-> i, call |-> calls[i]]>>])

\* The calls that a client finds in a stream.
Announced(events) ==
    LET starts == Those(events, { e \in ToSet(events) : e.type = "started" })
    IN  [i \in DOMAIN starts |-> starts[i].call]

\* Mutant: one round more.
MayCallOnceMore == round <= MaxRounds

MayCall == round < MaxRounds

-----------------------------------------------------------------------------
Deliveries ==
    CASE kind = "visual" -> {"whole", "coreStream", "imageStream"}
      [] kind = "google" -> {"whole", "coreStream"}
      [] OTHER -> {"whole"}

NoAnswer == [calls |-> <<>>, stop |-> "other", usage |-> 0]

Init ==
    /\ kind \in Kinds
    /\ delivery \in Deliveries
    /\ images \in IF Visual THEN ImageLists ELSE {<<>>}
    /\ delivery = "imageStream" => images # <<>>
    /\ prompt = Prepared(images)
    /\ choice \in {"auto", "required"}
    /\ messages = <<>> /\ asked = <<>> /\ results = <<>> /\ read = <<>> /\ slots = <<>>
    /\ round = 0 /\ total = 0
    /\ pc = "calling"
    /\ answer = NoAnswer /\ given = [calls |-> <<>>, usage |-> 0]
    /\ outcome = "none"
    /\ analysed = {}

Setting == <<kind, delivery, images, prompt>>

Fail ==
    /\ outcome' = "failed" /\ pc' = "returned"
    /\ UNCHANGED <<Setting, choice, messages, round, answer, read, slots, results, total, given,
                    asked, analysed>>

\* The call fails: nothing of the earlier rounds is kept.
CallFails == pc = "calling" /\ MayCall /\ Fail

\* What an answer may have, as far as the loop looks at it.
Stops == IF kind \in {"chat", "chatStream", "google"} THEN {"other"} ELSE {"tool_use", "other"}
Usages == IF kind = "visual" THEN {0, 1} ELSE {1}

\* The upstream answers.  It must call a tool if the request requires it.
Call ==
    /\ pc = "calling" /\ MayCall
    /\ \E cs \in BoundedSeq(Calls, MaxCalls), stop \in Stops, usage \in Usages :
         /\ choice = "required" => cs # <<>>
         /\ cs # <<>> \/ stop = "other"
         /\ answer' = [calls |-> Identified(cs), stop |-> stop, usage |-> usage]
         /\ total' = total + usage
         /\ IF kind = "chatStream"
            THEN pc' = "receiving" /\ read' = [i \in DOMAIN cs |-> 0] /\ UNCHANGED asked
            ELSE /\ pc' = "deciding" /\ UNCHANGED read
                 /\ asked' = Append(asked, [calls |-> Bare(answer'.calls), usage |-> usage])
    /\ UNCHANGED <<Setting, choice, messages, round, slots, results, outcome, given, analysed>>

\* The rounds are used up.
Exhaust ==
    /\ pc = "calling" /\ ~MayCall
    /\ outcome' = "exhausted" /\ pc' = "returned"
    /\ UNCHANGED <<Setting, choice, messages, round, answer, read, slots, results, total, given,
                    asked, analysed>>

SlotOf(id) == SelectInSeq(slots, LAMBDA s : s.id = id)

\* A chunk goes to the call at its position; the first of each opens a slot.
Collect(c, part) ==
    IF SlotOf(c.id) = 0 THEN Append(slots, [c EXCEPT !.args = part])
    ELSE [slots EXCEPT ![SlotOf(c.id)].args = AppendToolCallArgs(@, part)]

\* A chunk of one of the calls: one token of its arguments, or two.
ReceiveChunk ==
    /\ pc = "receiving"
    /\ \E i \in DOMAIN read, n \in {1, 2} :
         /\ read[i] + n <= Len(answer.calls[i].args)
         /\ slots' = Collect(answer.calls[i], SubSeq(answer.calls[i].args, read[i] + 1, read[i] + n))
         /\ read' = [read EXCEPT ![i] = @ + n]
    /\ UNCHANGED <<Setting, choice, messages, round, pc, answer, results, total, outcome, given,
                    asked, analysed>>

\* The calls as far as the stream brought them.
Sent ==
    LET brought == [i \in DOMAIN read |-> [answer.calls[i] EXCEPT !.args = SubSeq(@, 1, read[i])]]
    IN  IF kind # "chatStream" THEN answer.calls
        ELSE Those(brought, { c \in ToSet(brought) : c.args # <<>> })

\* The stream has ended, or was cut: its calls are taken as far as they came.
ReceiveEnd ==
    /\ pc = "receiving"
    /\ asked' = Append(asked, [calls |-> Bare(Sent), usage |-> answer.usage])
    /\ pc' = "deciding"
    /\ UNCHANGED <<Setting, choice, messages, round, answer, read, slots, results, total, outcome,
                    given, analysed>>

\* The client has gone while the chunks were being collected.
Cancelled == pc = "receiving" /\ Fail

Return ==
    /\ pc = "deciding" /\ Settled
    /\ outcome' = "answered" /\ pc' = "returning"
    /\ given' = [calls |-> Sent, usage |-> ReportedUsage]
    /\ UNCHANGED <<Setting, choice, messages, round, answer, read, slots, results, total, asked,
                    analysed>>

Continue ==
    /\ pc = "deciding" /\ ~Settled
    /\ pc' = "executing"
    /\ UNCHANGED <<Setting, choice, messages, round, answer, read, slots, results, total, outcome,
                    given, asked, analysed>>

Pending == Search(Taken)[Len(results) + 1]

\* Mutant: the result of a call that failed does not say whose it is.
ResultOfSuccess(c, ok) == [of |-> IF ok THEN Key(c) ELSE <<>>, ok |-> ok]

\* Each call gets a result, an error being one.
ResultOf(c, ok) == [of |-> Key(c), ok |-> ok]

\* The service may answer or fail; the vision model's empty answer is a failure.
Outcomes(c) == {Valid(c), FALSE}

\* One call is run.
ExecuteTool ==
    /\ pc = "executing" /\ Len(results) < Len(Search(Taken))
    /\ LET c == Pending
       IN  \E ok \in Outcomes(c) :
             /\ results' = Append(results, ResultOf(c, ok))
             /\ analysed' = IF Visual /\ Valid(c) THEN analysed \cup ToSet(NormalizeImages(c.args))
                            ELSE analysed
    /\ UNCHANGED <<Setting, choice, messages, round, pc, answer, read, slots, total, outcome, given,
                    asked>>

\* The answer and its results are appended; the visual loops free the choice.
NextRound ==
    /\ pc = "executing" /\ Len(results) = Len(Search(Taken))
    /\ messages' = Append(messages, Turn)
    /\ choice' = IF Visual THEN "auto" ELSE choice
    /\ round' = round + 1
    /\ pc' = "calling"
    /\ answer' = NoAnswer /\ read' = <<>> /\ slots' = <<>> /\ results' = <<>>
    /\ UNCHANGED <<Setting, total, outcome, given, asked, analysed>>

\* The answer goes out.
Deliver ==
    /\ pc = "returning"
    /\ given' = [given EXCEPT !.calls =
                    CASE delivery = "coreStream" -> Announced(CoreResponseToCoreStream(@))
                      [] delivery = "imageStream" -> Announced(CoreResponseToStreamEvents(@))
                      [] OTHER -> @]
    /\ pc' = "returned"
    /\ UNCHANGED <<Setting, choice, messages, round, answer, read, slots, results, total, outcome,
                    asked, analysed>>

Returned == pc = "returned" /\ UNCHANGED vars

Next ==
    \/ CallFails \/ Call \/ Exhaust
    \/ ReceiveChunk \/ ReceiveEnd \/ Cancelled
    \/ Return \/ Continue \/ ExecuteTool \/ NextRound
    \/ Deliver \/ Returned

Spec == Init /\ [][Next]_vars

-----------------------------------------------------------------------------
TypeOK ==
    /\ kind \in Kinds
    /\ choice \in {"auto", "required"}
    /\ round \in 0..MaxRounds
    /\ pc \in {"calling", "receiving", "deciding", "executing", "returning", "returned"}
    /\ outcome \in {"none", "answered", "failed", "exhausted"}
    /\ (outcome = "none") = (pc \notin {"returning", "returned"})
    /\ total \in 0..MaxRounds
    /\ Len(prompt) = Len(images)

\* What is sent upstream again is a conversation that it can accept: every
\* call in it has one result, in the order of the calls, failed ones too.
EveryCallAnswered ==
    /\ TypeOK
    /\ Len(messages) = round
    /\ \A n \in DOMAIN messages :
         LET turn == messages[n]
             calls == turn[1].calls
         IN  FlattenSeq([i \in DOMAIN Tail(turn) |-> turn[i + 1].of])
               = [i \in DOMAIN calls |-> Key(calls[i])]

\* A call of a tool that is not the proxy's is the client's to run: no loop
\* runs on over one, and when the answer has gone out, the client has all the
\* calls of the upstream's last answer in their order, together with the
\* proxy's calls that came in the same answer.  Not so the stream for a request
\* with an image, which loses them all (adapter_dispatch.go:1731).
ClientCallsReturned ==
    /\ \A n \in DOMAIN messages : \A i \in DOMAIN messages[n][1].calls :
         messages[n][1].calls[i].name \in Owned
    /\ pc = "returned" /\ outcome = "answered" /\ delivery # "imageStream" =>
         Bare(given.calls) = Last(asked).calls

\* No more upstream calls than configured, and giving up only after as many
\* rounds, each of whose calls was run and answered.
StopsAtLimit ==
    /\ Len(asked) <= MaxRounds
    /\ outcome = "exhausted" => Len(asked) = MaxRounds /\ Len(messages) = MaxRounds

\* What some answers have used.
UsageOf(answers) ==
    LET sum[n \in 0 .. Len(answers)] == IF n = 0 THEN 0 ELSE sum[n - 1] + answers[n].usage
    IN  sum[Len(answers)]

\* The visual loop reports what all its rounds have used, however many there
\* were before the answer.
UsageIsSum ==
    (kind = "visual" /\ outcome = "answered") => given.usage = UsageOf(asked)

\* An image looked at for "Image #n" is the one whose label in the prompt says
\* so, unreadable ones among the images or not.
AnalysedAsLabelled == \A a \in analysed : a.ref > 0 => prompt[a.at] = a.ref

=============================================================================
