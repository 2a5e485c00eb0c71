----------------------------- MODULE MCDispatch -----------------------------
\* Two chat, two passthrough and two anthropic uses of two provider keys, in
\* configurations that differ where a reload can do harm: another address and
\* key for the same provider, another protocol, a provider gone, a catalog
\* whose model does not take images.
EXTENDS Dispatch

MCKeyOrder == <<"default", "p">>
MCRef == ("p/m" :> [provider |-> "p", model |-> "m"]) @@
         ("default/x" :> [provider |-> "default", model |-> "x"])
MCNames == {"m", "a", "p/m", "default/x", "nobody"}

Provider(address, credential, protocol, support, image, priority) ==
    [address |-> address, credential |-> credential, protocol |-> protocol,
     support |-> support, models |-> "m" :> [image |-> image],
     offers |-> IF priority = 0 THEN <<>> ELSE "m" :> priority]

Configuration(providers, visual, searchKey) ==
    [providers |-> providers, visual |-> visual, searchKey |-> searchKey,
     routes |-> "a" :> [provider |-> "p", model |-> "m"]]

MCConfigs == {
    \* Two passthrough providers, p before the default one.
    Configuration(("default" :> Provider("u1", "k1", "openai-response", "auto", TRUE, 2)) @@
                  ("p" :> Provider("u2", "k2", "openai-response", "disabled", TRUE, 1)), {}, FALSE),
    \* The same two at other addresses, one of them malformed, and p without images.
    Configuration(("default" :> Provider("u3", "k3", "openai-response", "auto", TRUE, 2)) @@
                  ("p" :> Provider("bad", "k4", "openai-response", "auto", FALSE, 1)), {}, FALSE),
    \* p is a chat provider, the default one anthropic with search injected.
    Configuration(("default" :> Provider("u1", "k5", "anthropic", "injected", TRUE, 0)) @@
                  ("p" :> Provider("u4", "k4", "openai-chat", "auto", TRUE, 0)), {"m"}, TRUE),
    \* p alone, chat at another address; a model with the visual extension.
    Configuration("p" :> Provider("u5", "k6", "openai-chat", "auto", FALSE, 0), {"a"}, TRUE),
    \* p alone, anthropic, with the native search.
    Configuration("p" :> Provider("u5", "k7", "anthropic", "auto", TRUE, 0), {"a"}, TRUE) }
=============================================================================
