------------------------ MODULE MCRequestConversion ------------------------
(***************************************************************************)
(* Instances for TLC.                                                      *)
(***************************************************************************)
EXTENDS RequestConversion

Function(name) == [type |-> "function", name |-> name]
Custom(name, grammar) == [type |-> "custom", name |-> name, grammar |-> grammar]

\* One tool of each kind, and the member of a namespace declared a second time on its own.
MCClientTools ==
  <<Function(<<"find">>),
    [type |-> "namespace", name |-> <<"mcp">>, tools |-> <<Function(<<"find">>), Custom(<<"note">>, "free")>>],
    Function(<<"mcp", "find">>),
    Custom(<<"apply_patch">>, "patch"),
    Custom(<<"local_shell">>, "none"),
    Custom(<<"exec">>, "exec"),
    [type |-> "web_search", name |-> <<>>]>>

MCAnthropicShapes ==
  {<<>>, <<"text">>, <<"thinking">>, <<"thinking", "text">>, <<"call">>, <<"thinking", "call">>,
   <<"thinking", "thinking", "text">>, <<"text", "thinking", "text">>, <<"thinking", "text", "call">>,
   <<"call", "thinking", "call">>, <<"call", "text">>, <<"call", "server_tool_use", "call">>}
MCChatShapes ==
  {<<"text">>, <<"thinking", "text">>, <<"thinking">>, <<"call", "call">>, <<"thinking", "text", "call">>}
MCGeminiShapes == {<<>>, <<"text">>, <<"call">>, <<"text", "call", "call">>, <<"call", "text">>}

MCShapes == [p \in {"anthropic", "openai-chat", "google-genai"} |->
               CASE p = "anthropic" -> MCAnthropicShapes
                 [] p = "openai-chat" -> MCChatShapes
                 [] OTHER -> MCGeminiShapes]
MCShapesAnthropic == [p \in {"anthropic"} |->
                        {<<"thinking", "thinking", "text">>, <<"thinking", "text">>, <<"thinking", "call">>}]

MCUserContents == <<<<"text">>, <<"text", "image">>, <<"empty">>>>

MCCache(mode, max, toolTokens) ==
  [mode |-> mode, promptCaching |-> TRUE, automatic |-> mode = "hybrid", explicit |-> TRUE,
   maxBreakpoints |-> max, minBreakpointTokens |-> 0, minCacheTokens |-> 1024, minimumValueScore |-> 2048,
   expectedReuse |-> 2, tokens |-> 4000, toolTokens |-> toolTokens, systemTokens |-> 600]

\* The defaults with large tools, a hybrid plan with a small budget and small tools, and
\* a request below the planner's threshold.
MCCacheConfigs == {MCCache("explicit", 0, 2000), MCCache("hybrid", 2, 500),
                   [MCCache("explicit", 1, 500) EXCEPT !.tokens = 900]}
MCCacheConfigsOff == {[MCCache("off", 4, 500) EXCEPT !.promptCaching = FALSE]}
=============================================================================
