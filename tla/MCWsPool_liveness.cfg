\* One connection, sends and broadcasts, pings and pongs, with fairness.
CONSTANTS
  c1 = c1
  c2 = c2
  x = x
  news = news
  sport = sport
  None = None
  All = All
  Clients = {c1}
  Ids = {x}
  IdOf <- SameId
  Subs <- NobodySubscribes
  Channels = {}
  Senders = {s1}
  Closers = {}
  SendCap = 1
  HubCap = 1
  MaxSends = 2
  Targets = {c1, All}
  MaxFrames = 1
  FrameKinds = {"ping", "pong"}
  BindFirst = TRUE
  CloseEarly = FALSE
  ErrorCloses = TRUE
CHECK_DEADLOCK FALSE
SPECIFICATION FairSpec
INVARIANT HubNeverPanics
PROPERTIES
  ConnectionTornDown
  CloseReturns
  SendReturns
  HubReturns
