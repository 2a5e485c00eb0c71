SPECIFICATION AdapterSpec
CONSTANTS
  c1 = c1
  c2 = c2
  NoMap = NoMap
  Conversations = {c1, c2}
  Blocks <- MCBlocks
  Prefix <- MCPrefix
  MaxRequests = 3
INVARIANTS PerRequestState
\* Requests that wait for a mutex nobody will release.
CHECK_DEADLOCK FALSE
