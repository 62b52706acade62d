SPECIFICATION FairSpec
CONSTANTS
  Modules = {a, b}
  Gateways = {b}
  NoGateway = NoGateway
  Configs = {c0, c1}
  DefaultConfig = c0
  NoCall = NoCall
INVARIANTS
  TypeOK
  NobodyForgotten
  OfflineIsShown
PROPERTIES
  EventuallyTried
  SilenceIsShown
