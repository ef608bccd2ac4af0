SPECIFICATION FairSpec
CONSTANTS
  Threads = {poll, c1}
  Poller = poll
  Unlocked = {poll}
  Attempts = 2
  Faults = {"busy", "damage"}
  MaxId = 3
  Crashes = 1
INVARIANT TypeOK
INVARIANT SavedOrNothing
 
PROPERTY ImplementsDurableState
PROPERTY CatchesUp
