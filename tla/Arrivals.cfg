SPECIFICATION Spec
CONSTANTS
  Entries = {e1, e2}
  Faces = {f1, f2}
  Timers = {m1, m2}
  Limit = 1
  MaxPending = 1
  Crashes = 1
SYMMETRY Symmetry
INVARIANT OneWelcomePerArrival
PROPERTY VisitorsAreReported
