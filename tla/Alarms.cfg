SPECIFICATION FairSpec
CONSTANTS
  Rpc = {r1}
  ModeTimers = {}
  Services = {"scheduler", "main"}
  Scenes = {"reading"}
  AlarmIds = {"wake"}
  AutoOff = FALSE
  BulbDrifts = FALSE
  Requests = {"restart", "scheduler", "alarms"}
PROPERTY EveningSleepOncePerDay
PROPERTY AlarmEnds
