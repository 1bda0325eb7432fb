\* A ping handler sends on a channel the hub has closed.
CONSTANTS
  c1 = c1  c2 = c2  x = x  news = news  sport = sport
  None = None
  All = All
  Clients = {c1}
  Ids = {x}
  IdOf <- SameId
  Subs <- NobodySubscribes
  Channels = {}
  Senders = {}
  Closers = {k1}
  SendCap = 1
  HubCap = 1
  MaxSends = 0
  Targets = {}
  MaxFrames = 1
  FrameKinds = {"ping"}
  BindFirst = TRUE
  CloseEarly = FALSE
  ErrorCloses = FALSE
CHECK_DEADLOCK FALSE
SPECIFICATION Spec
INVARIANT PumpPanicsAreCaught
