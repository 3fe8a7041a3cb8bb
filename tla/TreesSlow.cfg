\* A message delivered twice and its reply; a CLI may outlast the drain.
CONSTANTS
  a = a
  b = b
  c = c
  a1 = a1
  a2 = a2
  b1 = b1
  c1 = c1
  Messages = {a, b}
  Deliveries = {a1, a2, b1}
  Message <- MessageOf
  ReplyTo <- Siblings
  Clearable <- PromptsOnly
  NoClaim = NoClaim
  NoReference = NoReference
  SlowStop = TRUE
  MaxRestarts = 0
SPECIFICATION FairSpec
PROPERTIES TurnsAreOrderly EveryTurnEnds
