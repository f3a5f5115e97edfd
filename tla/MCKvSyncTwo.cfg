SPECIFICATION Spec
CONSTANTS
  a = a
  b = b
  k1 = k1
  k2 = k2
  Clients = {a, b}
  Keys = {k1, k2}
  Writable = {k1}
  Hidden = {}
  NoEntry = NoEntry
  MemberAtStart = FALSE
  MaxMutations = 1
  MaxRequests = 2
  MaxCrashes = 1
  MaxFaults = 0
CHECK_DEADLOCK FALSE
SYMMETRY Symmetry
INVARIANTS
  TypeOK
  ConfirmedDurable
  QuietIsFresh
