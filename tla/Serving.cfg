\* A streamed and a plain request on one gateway; a stream with two tools; answers
\* of up to three items and two attempts; texts of up to three parts, cut anywhere.
\* A request, a stream and a text are over when they are answered.
CONSTANTS
  Subjects <- AllSubjects
  Requests = {1, 2}
  Wires <- MCWires
  Names <- MCNames
  TierRefs <- MCTierRefs
  Fallback <- B
  NoRef = NoRef
  Mortal = {"nim", "router"}
  MaxTime = 1
  Tools <- MCTools
  KindOf <- MCKinds
  Deltas = {"reasoning", "text", "heuristic", "name", "args", "early", "finish"}
  MaxDeltas = 4
  MaxAttempts = 3
  Items <- MCItems
  ItemKind <- MCItemKind
  MaxTries = 2
  Texts <- MCTexts
  MaxHeld = 3
  Contents <- MCContents
  Reasonings <- MCReasonings
  CallIds = {1, 2}
  NoId = 0
  ItemsOffered <- MCItemsOffered
  MessagesOffered <- MCMessagesOffered
  MaxSent = 5
  ClientNames <- MCClientNames
  Portable <- MCPortable
  AliasTries = 2
  AliasAt <- MCAliasAt
  SortKey <- MCSortKey
  Joint <- MCJoint
  Asks <- MCAsks
  MaxFragments = 3
SPECIFICATION MCSpec
CHECK_DEADLOCK FALSE
INVARIANTS OneAnswerOneBill RuntimeOutlivesResponses AnswersAreSound NamesComeBack HistoryIsReplayable CutsDoNotMatter
PROPERTIES NothingIsUnsaid EveryAnswerEnds
