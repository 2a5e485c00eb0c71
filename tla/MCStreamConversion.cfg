CONSTANTS
    Sources = {"anthropic", "chat", "google", "replay", "visualReplay"}
    Kinds = {"text", "thinking", "tool_use", "server_tool_use", "web_search_tool_result"}
    Chunks <- MCChunks
    MaxBlocks = 2
    MaxMessages <- MCMaxMessages
SPECIFICATION Spec
INVARIANTS AnswerRebuilt FinalIsAnswer ClosedOnce CompletesKnownCalls
CHECK_DEADLOCK FALSE
