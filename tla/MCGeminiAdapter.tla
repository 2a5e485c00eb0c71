-------------------------- MODULE MCGeminiAdapter --------------------------
(***************************************************************************)
(* Instances for TLC.                                                      *)
(***************************************************************************)
EXTENDS GeminiAdapter

CONSTANTS c1, c2

Block(kind, id, name) == [kind |-> kind, id |-> id, name |-> name]

\* Ids from a Chat provider's answers repeat from conversation to conversation; the second
\* conversation begins behind its first call (its history was compacted), so that its
\* first result has no name, and calls again under the same id.
MCBlocks ==
  (c1 :> <<Block("text", "", ""), Block("tool_use", "call_0", "find"), Block("tool_result", "call_0", "")>>) @@
  (c2 :> <<Block("tool_result", "call_0", ""), Block("tool_use", "call_0", "note"), Block("tool_result", "call_0", "")>>)

MCPrefix == (c1 :> "short") @@ (c2 :> "long")
=============================================================================
