SPECIFICATION AgentsSpec
CONSTANTS
  Derived = {1, 2}
  GenHandles = {1, 2, 3, 4}
  LSlots = {1, 2}
  LCallers = {1, 2}
  Natives = {x, y}
  x = x
  y = y
  MaxLaunches = 3
  LMaxFaults = 1
  TChannels = {"r", "p", "x"}
  TParent <- Tree
  Scenarios <- Scenes
  Kind <- Kinds
  In <- Places
  THooks = {1, 2}
  MaxCalls = 2
  TMaxNow = 2
  Window = 1
  ClusterRows = 1
  ClusterGap = 0
  CaptureCap = 4
  ReactionRows = 1
  TMaxFaults = 1
  Browsers = {1, 2}
  AskOf <- Asks
  PageTTL = 1
  FutureSkew = 1
  MMaxClock = 3
  MaxPages = 3
  MaxCodes = 2
  MReqs = {1, 2, 3}
  ReqOf <- Requests
  ActorPubs = {1, 2, 3}
  AMaxGen = 2
  Uris = {"u", "v"}
  MaxStreams = 3
  MaxUpdates = 2
  BroadcastCap = 2
  MMaxFaults = 1
  Pids = {2, 3, 4}
  MaxOthers = 1
  OMaxFaults = 2
SYMMETRY NativeSymmetry
INVARIANT LaunchSafe
INVARIANT TurnSafe
INVARIANT McpSafe
INVARIANT PtySafe
PROPERTY RevivedAsNew
CHECK_DEADLOCK FALSE
