SPECIFICATION Spec
CONSTANTS
  me = me
  c1 = c1
  ch1 = ch1
  ch2 = ch2
  ch3 = ch3
  f1 = f1
  f2 = f2
  Me = me
  Calls = {me, c1}
  Channels = {ch1, ch2}
  Fetches = {f1, f2}
  MaxToken = 2
  Grant <- MCGrant
  MaxReloads = 1
  MaxHellos = 1
  MaxQueue = 2
  Ordered = TRUE
  Paced = FALSE
  None = None
SYMMETRY Symmetry
INVARIANTS
  TypeOK
  PortsConverge
  ModeAnnounced
  WaiterServed
