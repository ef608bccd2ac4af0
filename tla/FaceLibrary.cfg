SPECIFICATION FairSpec
CONSTANTS
  Rpc = {r1}
  Names = {"fares", "sara"}
  Configured = "fares"
  Faces = {f1}
  Ids = {i1, i2}
  MaxPending = 2
  Confirm = 2
  Requests = {"approve", "reject", "set_owner", "enroll_owner"}
  Crashes = 1
INVARIANT TypeOK
INVARIANT OneReviewEach
INVARIANT RebuildCoversAll
PROPERTY OwnerIsSeen
PROPERTY VisitorIsFiled
