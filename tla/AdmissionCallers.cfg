\* A chat stream, and two plain calls that may be cancelled.
CONSTANTS
  a = a
  b = b
  c = c
  Sessions = {a, b, c}
  NoSession = NoSession
  Kind <- ChatAndPlain
  Cancellable = {b, c}
  MaxAttempts = 3
  MaxConcurrency = 2
  Delays = {0, 2}
  AuthLatchTTL = 1
  AuthFailures = FALSE
SPECIFICATION FairSpec
INVARIANTS NobodyIsStranded
PROPERTIES OnlyProbesDuringRecovery EveryExecutionEnds
