SPECIFICATION FairSpec
CONSTANTS
  Threads = {t1, t2, t3}
  Purposes = {"see", "photo", "user", "sleep"}
  MaxLooks = 3
INVARIANT OneLook
PROPERTY PhotoLightEnds
