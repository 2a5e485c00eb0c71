\* Every interleaving of two reloads with one request.
SPECIFICATION Spec
CONSTANTS
  KeyOrder <- MCKeyOrder
  Ref <- MCRef
  Names <- MCNames
  Configs <- MCConfigs
  NativeSearch = {"p"}
  Malformed = {"bad"}
  MaxReloads = 2
INVARIANTS CredentialsWithTheirAddress QuietCallsAsConfigured FallbackInOrder AnsweredOnce CountedIsReported ImageWhereAccepted
