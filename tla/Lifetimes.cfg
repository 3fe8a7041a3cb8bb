\* A request, two Admin calls and two shutdowns, all but the last of which may
\* be cancelled; a conversation of three turns, two of which resume the first,
\* and another.
CONSTANTS
  q1 = q1
  a1 = a1
  a2 = a2
  c1 = c1
  c2 = c2
  Requests = {q1}
  Admins = {a1, a2}
  Closers = {c1, c2}
  Nobody = Nobody
  Impatient = {q1, a1, a2, c1}
  MaxRuntimes = 3
  MaxFailures = 1
  a = a
  b = b
  c = c
  d = d
  Turns = {a, b, c, d}
  ParentOf <- Answers
  Earlier <- InOrder
  NoTurn = NoTurn
  StopAll = StopAll
  MaxCancels = 1
  MaxStops = 1
  MaxFailedStops = 1
SPECIFICATION MCSpec
INVARIANTS RuntimesAreSafe SessionsAreOwned
PROPERTIES ImplementsLifecycle RuntimesSettle StopsAreFinal
