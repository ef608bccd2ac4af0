SPECIFICATION FairSpec
CONSTANTS
  Rpc = {r1}
  ModeTimers = {m1}
  Services = {"mqtt"}
  Scenes = {"reading"}
  AlarmIds = {}
  AutoOff = TRUE
  BulbDrifts = FALSE
  Requests = {"set_sleep", "set_override", "presence"}
INVARIANT StateLockInnermost
PROPERTY CallsReturn
PROPERTY PendingSettles
