SPECIFICATION FairSpec
CONSTANTS
  Pollers = {p1}
  Callers = {c1}
  Mqtt = mqtt
  Zones = {"home", "office"}
  WifiPing = TRUE
  Camera = TRUE
PROPERTY IdentityNeedsEvidence
PROPERTY StickyHolds
PROPERTY OnlyBleSticks
PROPERTY EmptyRoomForgets
