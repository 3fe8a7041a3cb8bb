\* One execution of each kind, all cancellable, the key may be rejected.
\* Some of the executions may stop for good here (see the findings).
CONSTANTS
  a = a
  b = b
  c = c
  Sessions = {a, b, c}
  NoSession = NoSession
  Kind <- OneOfEach
  Cancellable = {a, b, c}
  MaxAttempts = 2
  MaxConcurrency = 2
  Delays = {0, 2}
  AuthLatchTTL = 1
  AuthFailures = TRUE
SPECIFICATION Spec
CHECK_DEADLOCK FALSE
INVARIANTS AdmissionIsSound
PROPERTIES DoomedStayOut ImplementsBreaker
