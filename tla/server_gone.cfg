SPECIFICATION FairSpec
CONSTANTS
  Requests = {r1}
  MaxGen = 1
  LibPaths = 1
PROPERTY WorkerFollowsServer
CHECK_DEADLOCK FALSE
