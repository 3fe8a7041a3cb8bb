\* A conversation of three turns, two of which answer the first, and a restart.
CONSTANTS
  a = a
  b = b
  c = c
  a1 = a1
  a2 = a2
  b1 = b1
  c1 = c1
  Messages = {a, b, c}
  Deliveries = {a1, b1, c1}
  Message <- MessageOf
  ReplyTo <- Siblings
  Clearable <- AllReferences
  NoClaim = NoClaim
  NoReference = NoReference
  SlowStop = FALSE
  MaxRestarts = 1
SPECIFICATION Spec
INVARIANTS TreesAreSound StoreMatchesTrees
PROPERTIES StopIsABoundary
