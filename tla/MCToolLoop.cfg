\* Two rounds, answers of up to two calls.
SPECIFICATION Spec
CONSTANTS
  Kinds <- MCKinds
  MaxRounds = 2
  Firecrawl = TRUE
  ClientTools <- MCClientTools
  Invented <- MCInvented
  MaxCalls = 2
  ArgsOf <- MCArgsOf
  ImageLists <- MCImageLists
INVARIANTS EveryCallAnswered ClientCallsReturned StopsAtLimit UsageIsSum AnalysedAsLabelled
