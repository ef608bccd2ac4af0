SPECIFICATION Spec
CONSTANTS
  Hosts = {h1, h2}
  Callers = {c1}
  Monitors = {m1}
  Pids = {p1, p2}
  Calls = {"start_supervisor", "stop_supervisor"}
  Faults = {"crash", "reuse", "busy"}
  LockTimesOut = FALSE
SYMMETRY Symmetry
INVARIANT TokenIsTheRecorded
PROPERTY StrangersLeftAlone
