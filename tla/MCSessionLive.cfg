SPECIFICATION FairSpec
CONSTANTS
  me = me
  c1 = c1
  ch1 = ch1
  ch2 = ch2
  ch3 = ch3
  f1 = f1
  f2 = f2
  Me = me
  Calls = {me}
  Channels = {ch1, ch2}
  Fetches = {f1}
  MaxToken = 2
  Grant <- MCGrant
  MaxReloads = 1
  MaxHellos = 0
  MaxQueue = 1
  Ordered = FALSE
  Paced = TRUE
  None = None
PROPERTIES
  CallsSettle
  Reconnects
