SPECIFICATION FairSpec
CONSTANTS
  a = a
  b = b
  k1 = k1
  k2 = k2
  Clients = {a}
  Keys = {k1}
  Writable = {k1}
  Hidden = {}
  NoEntry = NoEntry
  MemberAtStart = TRUE
  MaxMutations = 2
  MaxRequests = 2
  MaxCrashes = 1
  MaxFaults = 1
CHECK_DEADLOCK FALSE
PROPERTIES
  TakesOnce
  AllConfirmed
  AllConverge
