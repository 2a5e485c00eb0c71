------------------------- MODULE RequestConversion -------------------------
(***************************************************************************)
(* A conversation through the proxy: the client says something, its whole  *)
(* history is converted to the Core format and from there to the           *)
(* provider's protocol, the provider's answer is converted back into       *)
(* output items, the client keeps those, runs the calls among them and     *)
(* asks again (OpenAIAdapter.ToCoreRequest, FromCoreRequest of the         *)
(* provider's adapter, its ToCoreResponse, OpenAIAdapter.FromCoreResponse).*)
(* The conversions are the operators of ResponsesInput, ProviderMessages   *)
(* and PromptCache; this module puts them in the order in which a          *)
(* conversation meets them, so that what the provider was told can be      *)
(* compared with what was said.                                            *)
(*                                                                         *)
(* The client and the provider are external: the client sends back the     *)
(* items it got and one output per call, in any order; the provider        *)
(* answers with one of the constant Shapes of its protocol and calls the   *)
(* tools it was given, with the input their schema asks for.               *)
(***************************************************************************)
EXTENDS ProviderMessages, PromptCache

CONSTANTS
  ClientTools,      \* the tools the client declares, a sequence
  Shapes,           \* per protocol, the answers: sequences of "text", "thinking", "call"
  UserContents,     \* what a user message may hold, a sequence of sequences of "text", "image", "empty"
  ReasoningModels,  \* subset of BOOLEAN: is the model's name taken for a reasoning model
  CacheConfigs,     \* configurations of the planner, with the sizes it estimates
  FreeTurns,        \* bound: in later turns calls go to the first tool, contents are the first of the user's
  MaxTurns          \* bound on the requests of a conversation

VARIABLES
  conv,       \* what stays the same: [protocol, reasoningModel, cache]
  turn,       \* number of the request
  phase,      \* "user", "tools" (the client's turn), "ready", "core", "sent"
  history,    \* the client's items
  core,       \* the Core request: [system, messages]
  request,    \* the messages the provider gets
  marks,      \* the cache marks on them (Anthropic)
  said        \* what was said, in order: blocks of the user, the provider, the tools

conversationVars == <<conv, turn, phase, history, core, request, marks, said>>

Protocols == DOMAIN Shapes
Tools == FlattenTools(ClientTools)
Instructions == Text(<<0, "instructions">>)

IsList(s) == s \in Seq({s[k] : k \in DOMAIN s})

\* The client declares a tool at least; a namespace has no further namespaces, and the
\* tool that takes patches is called apply_patch and stands outside of namespaces, as
\* Codex declares it (RebuildGrammar knows a patch by that name).
ASSUME ToolsAssumption ==
  /\ IsList(ClientTools) /\ Tools # <<>>
  /\ \A k \in DOMAIN ClientTools :
       LET tool == ClientTools[k]
       IN  /\ IsList(tool.name)
           /\ tool.type = "custom" /\ tool.grammar = "patch" => tool.name = <<"apply_patch">>
           /\ tool.type = "namespace" =>
                /\ IsList(tool.tools)
                /\ \A j \in DOMAIN tool.tools :
                     /\ IsList(tool.tools[j].name) /\ tool.tools[j].type # "namespace"
                     /\ tool.tools[j].type = "custom" => tool.tools[j].grammar # "patch"

\* What the provider answers is made of blocks the model knows; a user's message of parts.
ASSUME ContentsAssumption ==
  /\ \A p \in Protocols : Shapes[p] \subseteq Seq({"text", "thinking", "call", "server_tool_use"})
  /\ IsList(UserContents) /\ UserContents # <<>>
  /\ \A c \in DOMAIN UserContents : UserContents[c] \in Seq({"text", "image", "empty"})

\* The numbers of breakpoints of a configuration are numbers.
ASSUME CachesAssumption == \A c \in CacheConfigs : c.maxBreakpoints \in Int

ConversationInit ==
  /\ conv \in [protocol : Protocols, reasoningModel : ReasoningModels, cache : CacheConfigs]
  /\ conv.protocol # "anthropic" => conv.cache = CHOOSE c \in CacheConfigs : TRUE     \* not used
  /\ turn = 0
  /\ phase = "user"
  /\ history = <<>>
  /\ core = [system |-> <<>>, messages |-> <<>>]
  /\ request = <<>>
  /\ marks = NoMarks
  /\ said = <<>>

-----------------------------------------------------------------------------
(* The client (external) *)

UserBlock(t, k, kind) ==
  CASE kind = "text"  -> Text(<<t, "u", k>>)
    [] kind = "image" -> Image(<<t, "u", k>>)
    [] OTHER          -> Text(NoText)

\* The user says something; the first time with a developer message before it.
UserSays ==
  /\ phase = "user" /\ turn < MaxTurns
  /\ \E c \in IF turn < FreeTurns THEN DOMAIN UserContents ELSE {1} :
       LET content == UserContents[c]
           parts == [k \in DOMAIN content |-> UserBlock(turn + 1, k, content[k])]
           developer == IF turn = 0
                        THEN <<[type |-> "message", role |-> "developer", content |-> <<Text(<<0, "developer">>)>>]>>
                        ELSE <<>>
       IN  /\ history' = history \o developer \o <<[type |-> "message", role |-> "user", content |-> parts]>>
           /\ said' = said \o ContentBlocks(parts)
  /\ turn' = turn + 1
  /\ phase' = "ready"
  /\ UNCHANGED <<conv, core, request, marks>>

\* The calls of the last answer: those behind the last thing the client added.
OpenCalls ==
  LET added == LastPlace({i \in DOMAIN history :
                         \/ history[i].type \in OutputTypes
                         \/ history[i].type = "message" /\ history[i].role = "user"})
  IN  OfType(SubSeq(history, added + 1, Len(history)), CallTypes)

OutputType(type) ==
  CASE type = "function_call" -> "function_call_output"
    [] type = "custom_tool_call" -> "custom_tool_call_output"
    [] OTHER -> "local_shell_call_output"

\* The client runs the calls and asks again with their outputs, in any order.
ToolsRun ==
  /\ phase = "tools" /\ turn < MaxTurns
  /\ \E order \in SetToSeqs(DOMAIN OpenCalls) :
       LET output(k) == [type |-> OutputType(OpenCalls[order[k]].type), id |-> OpenCalls[order[k]].id,
                         text |-> <<turn + 1, "r", order[k]>>]
       IN  /\ history' = history \o [k \in DOMAIN order |-> output(k)]
           /\ said' = said \o [k \in DOMAIN order |-> ToolResult(output(k).id, output(k).text)]
  /\ turn' = turn + 1
  /\ phase' = "ready"
  /\ UNCHANGED <<conv, core, request, marks>>

-----------------------------------------------------------------------------
(* The request *)

\* OpenAIAdapter.ToCoreRequest; the instructions go before the system messages.
ToCoreRequest ==
  /\ phase = "ready"
  /\ LET input == ConvertInput(history, conv.reasoningModel)
     IN  core' = [system |-> <<Instructions>> \o input.system, messages |-> input.messages]
  /\ phase' = "core"
  /\ UNCHANGED <<conv, turn, history, request, marks, said>>

PlannerInput(messages) ==
  [tools |-> Len(Tools), system |-> Len(core.system), messages |-> messages,
   tokens |-> conv.cache.tokens, toolTokens |-> conv.cache.toolTokens, systemTokens |-> conv.cache.systemTokens]

\* FromCoreRequest of each adapter; the Anthropic adapter also plans the cache marks.
FromCoreRequest ==
  /\ phase = "core"
  /\ request' = CASE conv.protocol = "anthropic"   -> AnthropicMessages(core.messages)
                  [] conv.protocol = "openai-chat" -> ChatMessages(core.system, core.messages)
                  [] OTHER                         -> GeminiContents(core.messages)
  /\ marks' = IF conv.protocol = "anthropic"
              THEN LET req == PlannerInput(request') IN Marks(req, Plan(req, conv.cache))
              ELSE NoMarks
  /\ phase' = "sent"
  /\ UNCHANGED <<conv, turn, history, core, said>>

-----------------------------------------------------------------------------
(* The answer: what the provider says (external), ToCoreResponse and       *)
(* FromCoreResponse                                                        *)

\* The k-th block of an answer; a tag is empty where the shape has no such block.
AnswerTag(k) == <<turn, "a", k>>
CallBlock(k, tool) == ToolUse(<<turn, k>>, tool.name, InputForm(tool))

\* An answer in its protocol, the call at position k being to called[k].
AnthropicAnswer(shape, called) ==
  [k \in DOMAIN shape |->
     CASE shape[k] = "text"     -> Text(AnswerTag(k))
       [] shape[k] = "thinking" -> [Reasoning(AnswerTag(k)) EXCEPT !.type = "thinking"]
       [] shape[k] = "call"     -> CallBlock(k, called[k])
       [] OTHER                 -> [type |-> shape[k]]]

ChatAnswer(shape, called) ==
  LET at(kind) == SelectInSeq(shape, LAMBDA s : s = kind)
      tag(kind) == IF at(kind) = 0 THEN NoText ELSE AnswerTag(at(kind))
      calls == Selected([k \in DOMAIN shape |-> k], {k \in DOMAIN shape : shape[k] = "call"})
  IN  [reasoning |-> tag("thinking"), text |-> tag("text"),
       calls |-> [c \in DOMAIN calls |-> CallBlock(calls[c], called[calls[c]])]]

\* ToCoreResponse of each adapter.
CoreAnswer(shape, called) ==
  CASE conv.protocol = "anthropic"   -> FromAnthropic(AnthropicAnswer(shape, called))
    [] conv.protocol = "openai-chat" -> FromChat(ChatAnswer(shape, called))
    [] OTHER                         -> FromGemini(AnthropicAnswer(shape, called))

\* The provider answers; its calls go to one tool, or to the tools in turn.
ProviderAnswers ==
  /\ phase = "sent"
  /\ \E shape \in Shapes[conv.protocol], step \in {0, 1},
        first \in IF turn <= FreeTurns THEN DOMAIN Tools ELSE {1} :
       LET called == [k \in DOMAIN shape |-> Tools[((first - 1 + step * (k - 1)) % Len(Tools)) + 1]]
           blocks == CoreAnswer(shape, called)
           items == OutputItems(blocks, Tools)
       IN  /\ history' = history \o items
           /\ said' = said \o blocks
           /\ phase' = IF \E k \in DOMAIN items : items[k].type \in CallTypes THEN "tools" ELSE "user"
  /\ UNCHANGED <<conv, turn, core, request, marks>>

-----------------------------------------------------------------------------
ConversationNext == UserSays \/ ToolsRun \/ ToCoreRequest \/ FromCoreRequest \/ ProviderAnswers

ConversationSpec == ConversationInit /\ [][ConversationNext]_conversationVars

-----------------------------------------------------------------------------
(* What the provider was told, in terms common to the protocols *)

Sent == phase = "sent"

\* The texts of a message of the request, in order.
TextsOf(m) ==
  LET tags == CASE conv.protocol = "anthropic"   -> TextsIn(OfType(m.content, {"text", "image", "thinking", "tool_result"}))
                [] conv.protocol = "openai-chat" -> <<m.reasoning>> \o m.texts
                [] OTHER -> TextsIn(SelectSeq(m.parts, LAMBDA p : p.part # "call"))
  IN  SelectSeq(tags, LAMBDA t : t # NoText)

TextsSent == FlattenSeq([m \in DOMAIN request |-> TextsOf(request[m])])

\* The calls of a message of the request, and the calls it answers, by id.
CallsOf(m) ==
  CASE conv.protocol = "anthropic"   -> OfType(m.content, {"tool_use"})
    [] conv.protocol = "openai-chat" -> m.calls
    [] OTHER                         -> SelectSeq(m.parts, LAMBDA p : p.part = "call")
ResultsOf(m) ==
  CASE conv.protocol = "anthropic"   -> OfType(m.content, {"tool_result"})
    [] conv.protocol = "openai-chat" -> [k \in DOMAIN m.answers |-> [id |-> m.answers[k]]]
    [] OTHER                         -> SelectSeq(m.parts, LAMBDA p : p.part = "response")
IdsOf(blocks) == [k \in DOMAIN blocks |-> blocks[k].id]

\* The messages as turns: consecutive messages of the model are one turn for every
\* provider, consecutive tool messages are one answer in the Chat protocol.
Joins(a, b) == a = b /\ a \in {"assistant", "model", "tool"}
TurnsSent ==
  LET add(turns, m) ==
        LET t == [role |-> m.role, calls |-> IdsOf(CallsOf(m)), results |-> IdsOf(ResultsOf(m))]
        IN  IF turns # <<>> /\ Joins(Last(turns).role, t.role)
            THEN [turns EXCEPT ![Len(turns)] = [@ EXCEPT !.calls = @ \o t.calls, !.results = @ \o t.results]]
            ELSE Append(turns, t)
  IN  FoldLeft(add, <<>>, request)

SameBag(s, t) == Len(s) = Len(t) /\ \A x \in ToSet(s) \cup ToSet(t) :
                   Len(SelectSeq(s, LAMBDA y : y = x)) = Len(SelectSeq(t, LAMBDA y : y = x))

-----------------------------------------------------------------------------
(* Properties *)

\* Each call the provider made is in the request once, in the order it was made, and the
\* turn right behind the model's carries the results of exactly the model's calls: the
\* adjacency that convertInput, the merging of tool results in the Anthropic adapter and
\* the merging of roles in the Gemini adapter are there for.
CallsAnsweredNext ==
  Sent =>
    /\ FlattenSeq([k \in DOMAIN TurnsSent |-> TurnsSent[k].calls]) = IdsOf(OfType(said, {"tool_use"}))
    /\ \A k \in DOMAIN TurnsSent :
         TurnsSent[k].calls # <<>> =>
           k < Len(TurnsSent) /\ SameBag(TurnsSent[k].calls, TurnsSent[k + 1].results)

\* Every reasoning item is directly followed by the message or the call it led to.
FollowedUp(items) ==
  \A k \in DOMAIN items : items[k].type = "reasoning" =>
    /\ k < Len(items)
    /\ \/ items[k + 1].type \in CallTypes
       \/ items[k + 1].type = "message" /\ items[k + 1].role = "assistant"

\* A text's place in the conversation, from its tag.
Place(tag) == 2 * tag[1] + (IF tag[2] = "a" THEN 1 ELSE 0)

\* What the request should say: every text once, none of an answer before its question.
SaysAll ==
  LET texts == SelectSeq(TextsSent, LAMBDA t : t[1] > 0)
      expected == SelectSeq(TextsIn(OfType(said, {"text", "image", "reasoning", "tool_result"})), LAMBDA t : t # NoText)
  IN  /\ SameBag(texts, expected)
      /\ \A i, j \in DOMAIN texts : i < j => Place(texts[i]) <= Place(texts[j])

\* Where each answer reasons before each thing it does, and only then, the provider gets
\* the whole conversation back, reasoning included, every part in its own turn (the
\* pending slices and the batches of convertInput lose, repeat and move nothing).
HistoryKeptWhenFollowedUp == Sent /\ FollowedUp(history) => SaysAll

\* The same of every conversation: reasoningBlocksFromSummary "preserves the thinking text
\* and optional signature for upstream replay".
HistoryKept == Sent => SaysAll

\* The request up to its last message of the client.
PrefixSent == SubSeq(request, 1, LastPlace({m \in DOMAIN request : request[m].role \in {"user", "tool"}}))

\* What one request says up to the client's last words, the next says again word for word:
\* without that the provider's prompt cache, marked or automatic, never matches.
PrefixRepeated ==
  [][phase = "core" /\ FollowedUp(history) /\ conv.protocol \in {"anthropic", "openai-chat"}
       => IsPrefix(PrefixSent, request')]_conversationVars

\* The namespace that a call of a tool should name: its tool's.  Left out is a custom tool
\* (or a hosted one) in a namespace, whose namespace the code loses: README, section 8.
InNamespace(tool, ns, item) == item.namespace = ns \/ (tool.type # "function" /\ ns # <<>>)

\* A call of this name, as the client gets it, is one of a tool as it was declared.
DeclaredAs(tool, ns, item, name) ==
  /\ InNamespace(tool, ns, item)
  /\ \/ /\ tool.type = "function" /\ item.type = "function_call"
        /\ name = ns \o tool.name /\ item.name = tool.name
     \/ /\ tool.type = "custom" /\ tool.name = <<"local_shell">>
        /\ name = ns \o tool.name /\ item.type = "local_shell_call" /\ item.input = "action"
     \/ /\ tool.type = "custom" /\ item.type = "custom_tool_call" /\ item.name = tool.name
        /\ IsPrefix(ns \o tool.name, name)
        /\ tool.grammar = "exec" \/ item.input = "raw"
     \/ /\ tool.type \notin {"function", "custom", "namespace"}
        /\ name = <<tool.type>> /\ item.name = name /\ item.type = "function_call"

Declared(item, name) ==
  \E n \in DOMAIN ClientTools :
    \/ DeclaredAs(ClientTools[n], <<>>, item, name)
    \/ /\ ClientTools[n].type = "namespace"
       /\ \E d \in DOMAIN ClientTools[n].tools :
            DeclaredAs(ClientTools[n].tools[d], ClientTools[n].name, item, name)

\* Every call comes back to the client as a call of a tool it declared, under the name it
\* was declared with and, unless it is a custom or hosted tool in a namespace, under its
\* namespace (none for a tool outside of one); a custom tool gets free text, unless it is
\* an exec tool.  The two exceptions are what the code gets wrong: README, section 8.
CallsAsDeclared ==
  LET made == OfType(said, {"tool_use"})
      back == OfType(history, CallTypes)
  IN  /\ IdsOf(made) = IdsOf(back)
      /\ \A k \in DOMAIN made : Declared(back[k], made[k].name)

\* Explicit marks stay within their number, and as long as tools and system leave one over,
\* the client's last message is marked: the next request can read all of this one.
MarksReachTheEnd ==
  Sent /\ conv.protocol = "anthropic" /\ Plan(PlannerInput(request), conv.cache).breakpoints # <<>> =>
    LET prefix == Cardinality(marks.tools) + Cardinality(marks.system)
        lastInput == Len(PrefixSent)
    IN  /\ prefix + Cardinality(marks.messages) <= MaxBreakpoints(conv.cache)
        /\ prefix < MaxBreakpoints(conv.cache) /\ lastInput > 0
             => <<lastInput, Len(request[lastInput].content)>> \in marks.messages
=============================================================================
