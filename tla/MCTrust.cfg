SPECIFICATION FairSpec
CONSTANTS
  v1 = v1
  h1 = h1
  h2 = h2
  Vehicles = {v1}
  Handlers = {h1, h2}
  MaxInbox = 3
  None = None
INVARIANTS
  StatusAgrees
PROPERTY RevocationArrives
