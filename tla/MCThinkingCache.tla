--------------------------- MODULE MCThinkingCache ---------------------------
\* The thinking cache with a limit of two and three tool-call ids, so that
\* records are evicted while others are overwritten.
EXTENDS ThinkingCache, TLC
CONSTANTS h1, h2, i1, i2, i3, t1, b1, b2

MCHandlers == {h1, h2}
MCIds == {i1, i2, i3}
MCTexts == {t1}
MCBlocks == {b1, b2}
Symmetry == Permutations(MCHandlers) \cup Permutations(MCIds) \cup Permutations(MCBlocks)
=============================================================================
