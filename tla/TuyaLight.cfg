SPECIFICATION FairSpec
CONSTANTS
  Callers = {c1}
  Pollers = {}
  Devices = {"bulb"}
  Slots = 1
  Flashes = {f1, f2}
  Commands = {"off", "flash", "refresh", "stop_flash", "stop"}
  Faults = {"hang"}
INVARIANT TypeOK
INVARIANT NothingLeaks
PROPERTY DeviceComesBack
PROPERTY FlashingStops
