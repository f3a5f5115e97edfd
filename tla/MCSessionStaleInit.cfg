SPECIFICATION Spec
CONSTANTS
  me = me
  c1 = c1
  ch1 = ch1
  ch2 = ch2
  ch3 = ch3
  f1 = f1
  f2 = f2
  Me = me
  Calls = {me}
  Channels = {ch1, ch2}
  Fetches = {f1}
  MaxToken = 3
  Grant <- MCGrant
  MaxReloads = 0
  MaxHellos = 0
  MaxQueue = 2
  Ordered = TRUE
  Paced = FALSE
  None = None
INVARIANT RetryIsFresh
