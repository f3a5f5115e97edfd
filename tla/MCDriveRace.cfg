SPECIFICATION AllSpec
CONSTANTS
  Parts = {"drive"}
  None = None
  w1 = w1
  w2 = w2
  up1 = up1
  rm = rm
  del = del
  n1 = n1
  n2 = n2
  u1 = u1
  u2 = u2
  f1 = f1
  f2 = f2
  a = a
  b = b
  p1 = p1
  p2 = p2
  s1 = s1
  s2 = s2
  home = home
  away = away
  Mutations = {a, b}
  MaxStarts = 2
  MaxMounts = 2
  RemoteCalls = {a, b, p1}
  Reads = {a}
  Waits = {b}
  MaxToken = 2
  Fetches = {f1, f2}
  ImageUrls = {u1, u2}
  Subscribers = {s1, s2}
  MaxTokens = 2
  MaxDrops = 2
  RemoteGrants <- MCRemoteGrants
  Logins = {p1, p2}
  Servers = {home, away}
  Home = home
  MaxNotes = 1
  Viewer = "me"
  Sizes = {0, 1, 5}
  Numbers = {0, 1, 2, 4, 5, 9, 10}
  MaxSafe = 9
  Records <- MCRecords
  Keys <- MCKeys
  Manifests <- MCManifests
  Data = "data:"
  Newline = "newline"
  Noise = ":"
  Deltas = {"one", "two"}
  Bodies <- MCBodies
  MaxPath = 3
  MaxLong = 4
  Creates = {w1, w2}
  CreateOnly = {w1, w2}
  Removes = {}
  ByName = {}
  Names = {n1}
  Serial = FALSE
  MaxFaults = 0
  MaxCrashes = 0
CHECK_DEADLOCK FALSE
INVARIANT WriteOnce
