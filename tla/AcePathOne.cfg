SPECIFICATION FairSpec
CONSTANTS
  t0 = t0
  t1 = t1
  d0 = d0
  d1 = d1
  Tools = {t0, t1}
  Devices = {d0}
  DeviceOf <- OneUnit
  NoTool = NoTool
  Bypass = TRUE
  HubSensor = TRUE
  MaxAttempts = 2
  FeedWindows = 2
  ParkSegments = 1
  LinkFaults = TRUE
  LostReplies = TRUE
  Restarts = "settled"
  SingleReconnect = FALSE
INVARIANT BeliefIsTrue
PROPERTY AssistsInTurn
PROPERTY OwnershipIsEarned
PROPERTY UncertaintyIsHeld
PROPERTY LockIsReleased
