\* Two changes in each of two lives of the process, one failing write; five events
\* of a CLI with three Tasks; three edits of a message by two routes;
\* three callers of a window of two in three units of time.  The platform
\* stops when it is closed, and a turn when its CLI exits.
CONSTANTS
  MaxGeneration = 2
  MaxFailures = 1
  MaxCrashes = 1
  a = a
  b = b
  c = c
  note = note
  Requests = {a, b, c}
  Keys = {note}
  Key <- OneMessage
  Route <- Routes
  Nothing = Nothing
  MaxOutages = 3
  Tasks = {"t1", "t10", "t2"}
  OtherTools = {"u"}
  Alike <- MCAlike
  MaxEvents = 5
  TailMax = 2
  Marker = 2
  MinTail = 1
  Limits <- MCLimits
  Callers = {"a", "b", "c"}
  Conditional = {"c"}
  RateLimit = 2
  Window = 3
  Resolution = 1
  MaxTime = 8
  MaxAcquired = 5
SPECIFICATION MCSpec
CHECK_DEADLOCK FALSE
INVARIANTS PromisesAreKept MainIsHeard WindowIsStrict
PROPERTIES FileMovesForward ChangesAreSaved DeliveryIsFaithful EveryRequestEnds
