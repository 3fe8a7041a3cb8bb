\* Two broken chat streams open their continuations with their slots in hand.
CONSTANTS
  a = a
  b = b
  c = c
  Sessions = {a, b}
  NoSession = NoSession
  Kind <- AllChat
  Cancellable = {}
  MaxAttempts = 2
  MaxConcurrency = 2
  Delays = {0, 1}
  AuthLatchTTL = 1
  AuthFailures = FALSE
SPECIFICATION Spec
CHECK_DEADLOCK FALSE
INVARIANTS SlotsAreInUse
