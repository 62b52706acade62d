SPECIFICATION Spec
CONSTANTS
  a = a
  b = b
  g = g
  Nodes = {a, b, g}
  Gateways = {g}
  NoGateway = NoGateway
  None = None
  Costs = {1, 12}
  NoLink = NoLink
  Inf = Inf
  Keep = 85
  Providers = {b, g}
  Consumers = {a}
  Sensors <- MCSensors
  MaxSubs = 1
INVARIANTS
  ShortestPathTree
  DistancesAreShortest
  WithinMargin
  OrphanIffUnreachable
  SecondaryLoopFree
  SubscriptionsServe
