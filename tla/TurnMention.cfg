SPECIFICATION TurnSpec
CONSTANTS
  TChannels = {"r", "p", "x"}
  TParent <- Tree
  Scenarios <- Scenes
  Kind <- Kinds
  In <- Places
  THooks = {1, 2}
  MaxCalls = 2
  TMaxNow = 2
  Window = 1
  ClusterRows = 1
  ClusterGap = 0
  CaptureCap = 4
  ReactionRows = 1
  TMaxFaults = 1
INVARIANT MentionsAlwaysSurface
CHECK_DEADLOCK FALSE
