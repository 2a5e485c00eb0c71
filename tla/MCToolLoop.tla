----------------------------- MODULE MCToolLoop -----------------------------
\* Every kind of loop, with a client that has a tool of its own and asks for
\* web search, and arguments that are sound, lack what they need, are missing,
\* or refer to an image that is there, or to one that is not.
EXTENDS ToolLoop

MCKinds == {"message", "stream", "chat", "chatStream", "google", "visual", "legacy"}
MCClientTools == {"shell", "web_search"}
MCInvented == {"web_search"}
MCArgsOf == [
    tavily_search   |-> {<<"{", "q", "q", "}">>, <<"{", "}">>},
    firecrawl_fetch |-> {<<"{", "q", "}">>},
    web_search      |-> {<<"{", "q", "}">>},
    shell           |-> {<<"{", "q", "}">>},
    visual_brief    |-> {<<"{", "1", "}">>, <<"{", "2", "}">>, <<"{", "}">>},
    visual_qa       |-> {<<"{", "q", "1", "}">>}]
MCImageLists == {<<>>, <<"ok">>, <<"bad", "ok">>, <<"ok", "bad", "ok">>}
=============================================================================
