SPECIFICATION FairSpec
CONSTANTS
  Hosts = {h1}
  Callers = {c1}
  Monitors = {m1, m2}
  Pids = {p1, p2, p3}
  Calls = {"start_supervisor", "stop_supervisor", "restart"}
  Faults = {"die", "hang"}
  LockTimesOut = TRUE
PROPERTY CallsReturn
PROPERTY RuntimeComesBack
