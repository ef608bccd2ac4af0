SPECIFICATION FairSpec
CONSTANTS
  Callers = {c1, c2}
  Pollers = {c1}
  Devices = {"bulb"}
  Slots = 2
  Flashes = {}
  Commands = {"off", "poll", "refresh"}
  Faults = {"power"}
INVARIANT BreakerHolds
PROPERTY Recovers
PROPERTY PollConverges
