-------------------------- MODULE ProviderMessages --------------------------
(***************************************************************************)
(* The provider side of a request and of its answer: how Core messages     *)
(* become the messages of the Anthropic, the OpenAI Chat and the Gemini    *)
(* protocol, and how an answer in each becomes Core blocks                 *)
(* (internal/protocol/{anthropic,chat,google}/adapter.go).  The hooks that *)
(* rewrite the Core messages first are in ReasoningReplay; the request's   *)
(* sampling fields and schemas are copied and left out.                    *)
(***************************************************************************)
EXTENDS ResponsesInput

TextsIn(blocks) == [k \in DOMAIN blocks |-> blocks[k].text]

-----------------------------------------------------------------------------
(* Anthropic Messages *)

\* mapRole: tool results travel in user messages.
AnthropicRole(role) == IF role = "tool" THEN "user" ELSE role

AnthropicBlock(b) == IF b.type = "reasoning" THEN [b EXCEPT !.type = "thinking"] ELSE b

IsToolResultOnly(blocks) == blocks # <<>> /\ \A k \in DOMAIN blocks : blocks[k].type = "tool_result"

\* Mutant of AddAnthropic: every message stays on its own.
AddUnmerged(sent, msg) ==
  Append(sent, [role |-> AnthropicRole(msg.role),
                content |-> [k \in DOMAIN msg.content |-> AnthropicBlock(msg.content[k])]])

\* Mutant of AddAnthropic: any two user messages are merged.
AddMergedUsers(sent, msg) ==
  LET m == [role |-> AnthropicRole(msg.role),
            content |-> [k \in DOMAIN msg.content |-> AnthropicBlock(msg.content[k])]]
  IN  IF sent # <<>> /\ m.role = "user" /\ Last(sent).role = "user"
      THEN [sent EXCEPT ![Len(sent)].content = @ \o m.content] ELSE Append(sent, m)

\* One more message; the results of a turn go into one user message.
AddAnthropic(sent, msg) ==
  LET m == [role |-> AnthropicRole(msg.role),
            content |-> [k \in DOMAIN msg.content |-> AnthropicBlock(msg.content[k])]]
      joins == /\ sent # <<>> /\ m.role = "user" /\ Last(sent).role = "user"
               /\ IsToolResultOnly(m.content) /\ IsToolResultOnly(Last(sent).content)
  IN  IF joins THEN [sent EXCEPT ![Len(sent)].content = @ \o m.content] ELSE Append(sent, m)

AnthropicMessages(core) ==
  LET sent[m \in 0 .. Len(core)] == IF m = 0 THEN <<>> ELSE AddAnthropic(sent[m - 1], core[m])
  IN  sent[Len(core)]

\* fromContentBlocks: a server tool's blocks and others of no known type become empty texts.
FromAnthropicBlock(b) ==
  CASE b.type = "thinking" -> [b EXCEPT !.type = "reasoning"]
    [] b.type \in {"text", "image", "tool_use", "tool_result"} -> b
    [] OTHER -> Text(NoText)

FromAnthropic(blocks) == [k \in DOMAIN blocks |-> FromAnthropicBlock(blocks[k])]

-----------------------------------------------------------------------------
(* OpenAI Chat *)

RoleInChat(role) == IF role \in {"assistant", "user", "tool", "system"} THEN role ELSE "user"

\* toChatMessage: texts are joined, the last reasoning is kept beside them, calls
\* have a list of their own; a tool message takes its first result.
ChatMessage(msg) ==
  LET said == SelectSeq(OfType(msg.content, {"reasoning"}), LAMBDA b : b.text # NoText)
      calls == OfType(msg.content, {"tool_use"})
      results == OfType(msg.content, {"tool_result"})
      answers == msg.role = "tool" /\ calls = <<>> /\ results # <<>>
  IN  [role |-> RoleInChat(msg.role),
       texts |-> IF answers THEN <<results[1].text>>
                 ELSE TextsIn(OfType(msg.content, {"text", "image", "tool_result"})),
       reasoning |-> IF said = <<>> THEN NoText ELSE Last(said).text,
       calls |-> calls,
       answers |-> IF answers THEN <<results[1].id>> ELSE <<>>]

\* A request with a system text begins with a system message.
ChatMessages(system, core) ==
  (IF TextsIn(system) = <<>> THEN <<>>
   ELSE <<[role |-> "system", texts |-> TextsIn(system), reasoning |-> NoText, calls |-> <<>>, answers |-> <<>>]>>)
    \o [m \in DOMAIN core |-> ChatMessage(core[m])]

\* choiceToCoreMessage: reasoning, then the text, then the calls.
FromChat(reply) ==
  (IF reply.reasoning = NoText THEN <<>> ELSE <<Reasoning(reply.reasoning)>>)
    \o (IF reply.text = NoText THEN <<>> ELSE <<Text(reply.text)>>)
    \o reply.calls

-----------------------------------------------------------------------------
(* Gemini.  A part that answers a call is named by the function: the name  *)
(* recorded with the call's id in this request, the id itself if there is  *)
(* none.                                                                   *)

GeminiRole(role) == IF role = "assistant" THEN "model" ELSE "user"

\* The name under which a call of this id was last seen among these messages.
NameOfCall(core, id) ==
  LET calls == OfType(FlattenSeq([m \in DOMAIN core |-> core[m].content]), {"tool_use"})
      named == SelectSeq(calls, LAMBDA b : b.id = id)
  IN  IF named = <<>> THEN id ELSE Last(named).name

\* blocksToContent for message m of the request.
GeminiParts(core, m) ==
  LET part(b) ==
        CASE b.type = "tool_use" -> [part |-> "call", name |-> b.name, text |-> NoText, id |-> b.id]
          [] b.type = "tool_result" ->
               [part |-> "response", name |-> NameOfCall(SubSeq(core, 1, m), b.id), text |-> b.text, id |-> b.id]
          [] OTHER -> [part |-> IF b.type = "image" THEN "image" ELSE "text", name |-> <<>>, text |-> b.text, id |-> <<>>]
      kept == SelectSeq(core[m].content, LAMBDA b : b.type # "reasoning" \/ b.text # NoText)
  IN  [k \in DOMAIN kept |-> part(kept[k])]

\* Consecutive messages of one role are merged.
GeminiContents(core) ==
  LET add(sent, m) ==
        LET c == [role |-> GeminiRole(core[m].role), parts |-> GeminiParts(core, m)]
        IN  IF sent # <<>> /\ Last(sent).role = c.role
            THEN [sent EXCEPT ![Len(sent)].parts = @ \o c.parts] ELSE Append(sent, c)
  IN  FoldLeft(add, <<>>, [m \in DOMAIN core |-> m])

\* fromParts: a call has no id in this protocol; it gets one from its function's
\* name and its number among the answer's calls of that function.
FromGemini(parts) ==
  LET number(k) == Len(SelectSeq(SubSeq(parts, 1, k), LAMBDA p : p.type = "tool_use" /\ p.name = parts[k].name))
  IN  [k \in DOMAIN parts |->
         IF parts[k].type = "tool_use"
         THEN [parts[k] EXCEPT !.id = Append(parts[k].name, number(k))] ELSE parts[k]]
=============================================================================
