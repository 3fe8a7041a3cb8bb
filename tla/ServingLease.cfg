\* One streamed request for a tier.
CONSTANTS
  Subjects <- RequestsOnly
  Requests = {1, 2}
  Wires <- MCWires
  Names <- MCNames
  TierRefs <- MCTierRefs
  Fallback <- B
  NoRef = NoRef
  Mortal = {"nim", "router"}
  MaxTime = 1
  Tools <- MCTools
  KindOf <- MCKinds
  Deltas = {"reasoning", "text", "heuristic", "name", "args", "early", "finish"}
  MaxDeltas = 4
  MaxAttempts = 3
  Items <- MCItems
  ItemKind <- MCItemKind
  MaxTries = 2
  Texts <- MCTexts
  MaxHeld = 3
  Contents <- MCContents
  Reasonings <- MCReasonings
  CallIds = {1, 2}
  NoId = 0
  ItemsOffered <- MCItemsOffered
  MessagesOffered <- MCMessagesOffered
  MaxSent = 5
  ClientNames <- MCClientNames
  Portable <- MCPortable
  AliasTries = 2
  AliasAt <- MCAliasAt
  SortKey <- MCSortKey
  Joint <- MCJoint
  Asks <- MCAsks
  MaxFragments = 3
SPECIFICATION MCSafety
CHECK_DEADLOCK FALSE
INVARIANT StreamsHoldTheLease
