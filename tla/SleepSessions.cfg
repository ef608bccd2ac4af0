SPECIFICATION Spec
CONSTANTS
  Rpc = {r1}
  ModeTimers = {m1}
  Services = {"main", "poll"}
  Scenes = {"reading"}
  AlarmIds = {}
  AutoOff = TRUE
  BulbDrifts = FALSE
  Requests = {"set_mode", "set_sleep", "set_alarm", "acknowledge_alarm", "cancel_sleep", "arrive_home", "leave_home", "restart", "refresh_devices", "poll"}
INVARIANT TypeOK
INVARIANT SleepHasRestore
INVARIANT SleepLeavesNothing
INVARIANT AlarmClean
INVARIANT PendingHasTimer
PROPERTY ImplementsSleepSession
