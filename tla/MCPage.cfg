SPECIFICATION AllSpec
CONSTANTS
  Cids = {c1, c2, c3}
  None = None
  MaxDeploys = 3
  MaxFaults = 1
  MaxReloads = 1
  Parts = {"shell", "mesh", "room", "agent", "host"}
  Early = FALSE
  PullFirst = TRUE
  c1 = c1
  c2 = c2
  c3 = c3
  h = h
  m1 = m1
  m2 = m2
  m3 = m3
  v1 = v1
  v2 = v2
  Tabs = {1, 2}
  Settings <- MCSettings
  Writers = {1, 2}
  MemberOf <- MCMemberOf
  Values = {v1, v2}
  Stored = {h}
  Sends = {m1, m2, m3}
  WithImages = {m2, m3}
  Delegated = {h}
  Shares = {h}
  MaxGestures = 1
  MaxTries = 2
  MaxWrites = 2
CHECK_DEADLOCK FALSE
INVARIANTS
  AllTypes
  LinksAgree
  OnePromptPerGesture
PROPERTIES
  NoFlicker
  HistoryKept
  NoticesDeploy
  Completes
  GoneForgotten
  Converges
  Delivered
  GateLifts
  AnswerComes
