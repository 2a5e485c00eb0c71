--------------------------- MODULE ResponsesInput ---------------------------
(***************************************************************************)
(* The OpenAI side of a request and of its answer                          *)
(* (internal/protocol/openai/adapter.go, internal/extension/codextool):    *)
(* how the items of a Responses input become messages of the Core format,  *)
(* how the tools a client declares become tools of the Core format, and    *)
(* how the blocks of an answer become output items again.                  *)
(*                                                                         *)
(* Slices.  convertInput collects reasoning in a slice that it truncates   *)
(* and refills (pendingReasoning[:0]), and prepends that slice to the      *)
(* content of an assistant message with append: when the slice has room    *)
(* for the content, the message keeps the slice's own array.  The model    *)
(* keeps the slice's capacity and marks the messages that share its array; *)
(* a write into the array shows in all of them.                            *)
(*                                                                         *)
(* Data.  A text is a tag that tells where it was first said.  A tool name *)
(* is the sequence of its parts, joined by "_" in the code.  What a call   *)
(* carries is only told apart by its form: the arguments of a function     *)
(* ("args"), the input wrapped in {"input": ...} ("wrapped"), the source   *)
(* of an exec tool ("source"), the operation of a patch tool ("op"), a     *)
(* shell action ("action"), the free text of a custom tool ("raw"), or a   *)
(* JSON value where free text belongs ("json").                            *)
(***************************************************************************)
EXTENDS Selection, SequencesExt

NoText == <<>>          \* a text that is empty

Text(tag) == [type |-> "text", text |-> tag]
Image(tag) == [type |-> "image", text |-> tag]
Reasoning(tag) == [type |-> "reasoning", text |-> tag]
ToolUse(id, name, input) == [type |-> "tool_use", id |-> id, name |-> name, input |-> input]
ToolResult(id, tag) == [type |-> "tool_result", id |-> id, text |-> tag]

\* The parts of a content or of a summary that become blocks: those with text.
ContentBlocks(parts) == Selected(parts, {k \in DOMAIN parts : parts[k].text # NoText})

CallTypes == {"function_call", "custom_tool_call", "local_shell_call"}
OutputTypes == {"function_call_output", "custom_tool_call_output", "local_shell_call_output"}

-----------------------------------------------------------------------------
(* The slice of pending reasoning: its blocks, and the capacity of its     *)
(* array.                                                                  *)

\* The capacity after append made room for n blocks (Go doubles a small slice).
Grown(n, cap) == IF n <= cap THEN cap ELSE IF n > 2 * cap THEN n ELSE 2 * cap

\* The messages after blocks were written to the shared array behind its first n slots.
Overwritten(messages, n, blocks) ==
  [m \in DOMAIN messages |->
     IF messages[m].shared
     THEN [messages[m] EXCEPT !.content =
             [k \in DOMAIN @ |-> IF k \in n + 1 .. n + Len(blocks) THEN blocks[k - n] ELSE @[k]]]
     ELSE messages[m]]

Detached(messages) == [m \in DOMAIN messages |-> [messages[m] EXCEPT !.shared = FALSE]]

\* pendingReasoning = append(pendingReasoning, blocks...)
PutReasoning(st, blocks) ==
  LET n == Len(st.reasoning)
      fits == n + Len(blocks) <= st.cap
  IN  [st EXCEPT !.reasoning = @ \o blocks,
                 !.cap = Grown(n + Len(blocks), @),
                 !.messages = IF fits THEN Overwritten(@, n, blocks) ELSE Detached(@)]

-----------------------------------------------------------------------------
(* convertInput, one operator per case of its loop.  st.calls are the      *)
(* batched calls (pendingFCBlocks), which are always copied.               *)

EmptyInput == [messages |-> <<>>, system |-> <<>>, reasoning |-> <<>>, cap |-> 0, calls |-> <<>>]

Message(role, content) == [role |-> role, content |-> content, shared |-> FALSE]

\* mergeReasoningBeforeToolUse: behind the reasoning the batch begins with.
MergeReasoning(calls, reasoning) ==
  LET lead == SelectInSeq(calls, LAMBDA b : b.type # "reasoning")
      at == IF lead = 0 THEN Len(calls) ELSE lead - 1
  IN  SubSeq(calls, 1, at) \o reasoning \o SubSeq(calls, at + 1, Len(calls))

FlushCalls(st) ==
  IF st.calls = <<>> THEN st
  ELSE [st EXCEPT !.messages = Append(@, Message("assistant", st.calls)), !.calls = <<>>]

FlushReasoning(st) ==
  IF st.reasoning = <<>> THEN st
  ELSE [st EXCEPT !.messages = Append(@, Message("assistant", st.reasoning)), !.reasoning = <<>>]

OutputItem(st, item) ==
  LET merged == IF st.calls = <<>> THEN st
                ELSE [st EXCEPT !.calls = MergeReasoning(@, st.reasoning), !.reasoning = <<>>]
      flushed == FlushReasoning(FlushCalls(merged))
  IN  [flushed EXCEPT !.messages = Append(@, Message("tool", <<ToolResult(item.id, item.text)>>))]

ReasoningItem(st, item) ==
  IF st.calls # <<>>
  THEN [st EXCEPT !.calls = MergeReasoning(@, ContentBlocks(item.content))]
  ELSE PutReasoning(st, ContentBlocks(item.content))

\* Mutant of FunctionCallItem: the pending reasoning is not cleared.
FunctionCallKeepsReasoning(st, item, reasoningModel) ==
  LET held == IF st.reasoning = <<>> /\ reasoningModel
              THEN PutReasoning(st, <<Reasoning(NoText)>>) ELSE st
  IN  [held EXCEPT !.calls = @ \o held.reasoning \o <<ToolUse(item.id, item.name, item.input)>>]

\* A call joins the batch behind the pending reasoning.  A model taken for a reasoning
\* model gets an empty reasoning block before a function call that has none.
FunctionCallItem(st, item, reasoningModel) ==
  LET held == IF st.reasoning = <<>> /\ reasoningModel
              THEN PutReasoning(st, <<Reasoning(NoText)>>) ELSE st
  IN  [held EXCEPT !.calls = @ \o held.reasoning \o <<ToolUse(item.id, item.name, item.input)>>,
                   !.reasoning = <<>>]

\* The free text of a custom tool is wrapped; a shell call brings its action.
CustomCallItem(st, item) ==
  LET input == IF item.type = "custom_tool_call" THEN "wrapped" ELSE "action"
  IN  [st EXCEPT !.calls = @ \o st.reasoning \o <<ToolUse(item.id, item.name, input)>>,
                 !.reasoning = <<>>]

SystemItem(st, item) == [st EXCEPT !.system = @ \o ContentBlocks(item.content)]

\* append(pendingReasoning, blocks...): the message's content is the slice's array when
\* that has room for the blocks, a new array otherwise.
AssistantItem(st, item) ==
  LET blocks == ContentBlocks(item.content)
      content == st.reasoning \o blocks
      fits == st.reasoning # <<>> /\ Len(content) <= st.cap
      kept == IF fits THEN Overwritten(st.messages, Len(st.reasoning), blocks) ELSE st.messages
  IN  IF content = <<>> THEN st
      ELSE [st EXCEPT !.messages = Append(kept, [Message("assistant", content) EXCEPT !.shared = fits]),
                      !.reasoning = <<>>]

UserItem(st, item) ==
  LET blocks == ContentBlocks(item.content)
  IN  IF blocks = <<>> THEN st
      ELSE [st EXCEPT !.messages = Append(@, Message("user", blocks))]

ConvertItem(st, item, reasoningModel) ==
  CASE item.type \in OutputTypes       -> OutputItem(st, item)
    [] item.type = "reasoning"         -> ReasoningItem(st, item)
    [] item.type = "function_call"     -> FunctionCallItem(st, item, reasoningModel)
    [] item.type \in CallTypes \ {"function_call"} -> CustomCallItem(st, item)
    [] item.type = "message" /\ item.role \in {"system", "developer"} -> SystemItem(FlushCalls(st), item)
    [] item.type = "message" /\ item.role = "assistant" -> AssistantItem(FlushCalls(st), item)
    [] OTHER                           -> UserItem(FlushCalls(st), item)

ConvertInput(items, reasoningModel) ==
  LET after[n \in 0 .. Len(items)] ==
        IF n = 0 THEN EmptyInput ELSE ConvertItem(after[n - 1], items[n], reasoningModel)
  IN  FlushCalls(FlushReasoning(after[Len(items)]))

-----------------------------------------------------------------------------
(* Tools.  A declared tool: [type, name, grammar, tools]; a Core tool      *)
(* remembers which declared tool it stands for.                            *)

PatchActions == <<"update_file", "batch">>      \* two of the code's five

CoreTool(name, kind, openai, namespace) ==
  [name |-> name, kind |-> kind, openai |-> openai, namespace |-> namespace]

\* convertToolWithNamespace for a tool that is not a namespace.
ConvertTool(tool, ns) ==
  CASE tool.type = "function" -> <<CoreTool(ns \o tool.name, "function", tool.name, ns)>>
    [] tool.type = "custom" /\ tool.name = <<"local_shell">> ->
         <<CoreTool(ns \o tool.name, "local_shell", tool.name, <<>>)>>
    [] tool.type = "custom" /\ tool.name # <<"local_shell">> /\ tool.grammar = "patch" ->
         [k \in DOMAIN PatchActions |->
            CoreTool(ns \o tool.name \o <<PatchActions[k]>>, "apply_patch", tool.name, <<>>)]
    [] tool.type = "custom" /\ tool.name # <<"local_shell">> /\ tool.grammar # "patch" ->
         <<CoreTool(ns \o tool.name, IF tool.grammar = "exec" THEN "exec" ELSE "raw", tool.name, <<>>)>>
    [] OTHER -> <<CoreTool(<<tool.type>>, "none", <<>>, <<>>)>>

\* flattenToolsWithNamespace; the first of two tools of one name is kept.
FlattenTools(tools) ==
  LET members(tool) == IF tool.type = "namespace"
                       THEN Concatenated([k \in DOMAIN tool.tools |-> ConvertTool(tool.tools[k], tool.name)])
                       ELSE ConvertTool(tool, <<>>)
      all == Concatenated([k \in DOMAIN tools |-> members(tools[k])])
  IN  Selected(all, {k \in DOMAIN all : \A j \in 1 .. k - 1 : all[j].name # all[k].name})

\* The form of the input that the schema sent with a Core tool asks for.
InputForm(tool) ==
  CASE tool.kind = "raw" -> "wrapped"
    [] tool.kind = "exec" -> "source"
    [] tool.kind = "apply_patch" -> "op"
    [] tool.kind = "local_shell" -> "action"
    [] OTHER -> "args"

InputFromRaw(input) == IF input = "wrapped" THEN "raw" ELSE "json"

\* Mutant of RebuildGrammar: a patch operation is passed on as it came.
RebuildNothing(name, input) == InputFromRaw(input)

\* RebuildGrammar goes by the name the model called.
RebuildGrammar(name, input) ==
  CASE name[1] = "apply_patch" /\ Len(name) > 1 -> IF input = "op" THEN "raw" ELSE "json"
    [] name[1] = "exec" /\ Len(name) > 1        -> IF input = "source" THEN "raw" ELSE "json"
    [] OTHER                                    -> InputFromRaw(input)

\* OutputItemFromBlock and buildToolOutputItem.
ToolOutputItem(block, tools) ==
  LET known == {k \in DOMAIN tools : tools[k].name = block.name /\ tools[k].kind # "none"}
      item(type, name, namespace, input) ==
        [type |-> type, id |-> block.id, name |-> name, namespace |-> namespace, input |-> input]
  IN  IF known = {} THEN item("function_call", block.name, <<>>, block.input)
      ELSE LET spec == tools[Min(known)] IN
           CASE spec.kind = "local_shell" -> item("local_shell_call", <<>>, <<>>, block.input)
             [] spec.kind \in {"apply_patch", "exec"} ->
                  item("custom_tool_call", spec.openai, <<>>, RebuildGrammar(block.name, block.input))
             [] spec.kind = "raw" -> item("custom_tool_call", spec.openai, <<>>, InputFromRaw(block.input))
             [] OTHER -> item("function_call", spec.openai, spec.namespace, block.input)

-----------------------------------------------------------------------------
(* FromCoreResponse: texts are collected until a call or the end.          *)

MessageItem(texts) == [type |-> "message", role |-> "assistant", content |-> texts]
ReasoningSummary(block) == [type |-> "reasoning", content |-> <<block>>]

FlushTexts(out) ==
  IF out.texts = <<>> THEN out
  ELSE [items |-> Append(out.items, MessageItem(out.texts)), texts |-> <<>>]

OutputBlock(out, block, tools) ==
  CASE block.type = "text"      -> [out EXCEPT !.texts = Append(@, block)]
    [] block.type = "image"     -> [out EXCEPT !.texts = Append(@, Text(<<"[Image]">>))]
    [] block.type = "reasoning" -> [out EXCEPT !.items = Append(@, ReasoningSummary(block))]
    [] block.type = "tool_use"  -> LET flushed == FlushTexts(out)
                                   IN  [flushed EXCEPT !.items = Append(@, ToolOutputItem(block, tools))]
    [] OTHER                    -> out

OutputItems(blocks, tools) ==
  LET out[n \in 0 .. Len(blocks)] ==
        IF n = 0 THEN [items |-> <<>>, texts |-> <<>>] ELSE OutputBlock(out[n - 1], blocks[n], tools)
  IN  FlushTexts(out[Len(blocks)]).items
=============================================================================
