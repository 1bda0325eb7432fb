\* A closed client stays in the registry.
CONSTANTS
  c1 = c1  c2 = c2  x = x  news = news  sport = sport
  None = None
  All = All
  Clients = {c1}
  Ids = {x}
  IdOf <- SameId
  Subs <- NobodySubscribes
  Channels = {}
  Senders = {}
  Closers = {}
  SendCap = 1
  HubCap = 2
  MaxSends = 0
  Targets = {}
  MaxFrames = 0
  FrameKinds = {}
  BindFirst = TRUE
  CloseEarly = FALSE
  ErrorCloses = FALSE
CHECK_DEADLOCK FALSE
SPECIFICATION FairSpec
PROPERTY ClosedClientLeaves
