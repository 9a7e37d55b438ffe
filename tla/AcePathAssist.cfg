SPECIFICATION Spec
CONSTANTS
  t0 = t0
  t1 = t1
  d0 = d0
  d1 = d1
  Tools = {t0, t1}
  Devices = {d0, d1}
  DeviceOf <- OneEach
  NoTool = NoTool
  Bypass = TRUE
  HubSensor = TRUE
  MaxAttempts = 1
  FeedWindows = 1
  ParkSegments = 1
  LinkFaults = TRUE
  LostReplies = FALSE
  Restarts = "none"
  SingleReconnect = FALSE
INVARIANT OneSlotAssisted
