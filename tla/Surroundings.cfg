\* Two voice notes, a prompt and a command; two processes that share an account;
\* three changes of the configuration; four restarts of a server.
CONSTANTS
  Scenes <- AllScenes
  Prompts = {1}
  Flows = {11, 12}
  Note <- MCNote
  Commands = {21}
  Says = {"prompt", "stop"}
  Kinds = {"stop", "clear", "stopReply", "clearReply"}
  RepliesTo <- MCReplies
  Processes = {1, 2}
  Calls = {51, 52}
  Home <- MCHome
  MaxIssued = 2
  MaxOperations <- MCOperations
  MaxPolls <- MCPolls
  Fields <- MCFields
  Secret = {"key", "token"}
  NeedsRestart = {"port", "token"}
  DotenvFirst = {"token"}
  Tier = "model"
  Default <- MCDefault
  Externals <- MCExternals
  Updates <- MCUpdates
  MaxChanges = 3
  Accounts = {"openai", "anthropic"}
  MaxRequests = 4
  MaxFailures = 2
  Errors <- MCErrors
  Names = {"a", "a 2"}
  Candidates <- MCCandidates
  ApiKeys = {"", "k"}
  NoKey = ""
  Materials = {"m", "n"}
  NoMaterial = "none"
  NodeLists <- MCNodeLists
  NoNodes = "unknown"
  MaxWrites = 4
  Ports <- MCPorts
  MaxAttempts = 2
  Supported = {"remote", "local", "account"}
  Locals = {"local"}
  Account = "account"
  Custom = {"own"}
  Applied = {"s", "t"}
  Configured <- MCConfigured
  Routed <- MCRouted
  Lists = {{"m"}}
  NoList = NoList
  MaxModelCalls = 2
  MaxRevision = 2
SPECIFICATION MCSpec
CHECK_DEADLOCK FALSE
INVARIANTS ChatIsOwned AccountsAreSound NothingSavedIsForgotten RegistriesAreSound ModelsAreTrue ServerIsSupervised FailureIsOneThing
PROPERTIES EverythingEnds AppliesOnlyWhatWasAsked
