\* A status is cleared whose CLI outlasts the drain, then everything is stopped.
CONSTANTS
  a = a
  b = b
  c = c
  a1 = a1
  a2 = a2
  b1 = b1
  c1 = c1
  Messages = {a, c}
  Deliveries = {a1, c1}
  Message <- MessageOf
  ReplyTo <- Siblings
  Clearable <- AllReferences
  NoClaim = NoClaim
  NoReference = NoReference
  SlowStop = TRUE
  MaxRestarts = 0
SPECIFICATION Spec
PROPERTIES StopIsABoundary
