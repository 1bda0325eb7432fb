\* Sends and broadcasts to one connection, whose sendCh fills up.
CONSTANTS
  c1 = c1  c2 = c2  x = x  news = news  sport = sport
  None = None
  All = All
  Clients = {c1}
  Ids = {x}
  IdOf <- SameId
  Subs <- NewsReader
  Channels = {news, sport}
  Senders = {s1}
  Closers = {}
  SendCap = 2
  HubCap = 1
  MaxSends = 3
  Targets = {c1, news, sport}
  MaxFrames = 1
  FrameKinds = {"data", "ping", "pong"}
  BindFirst = TRUE
  CloseEarly = FALSE
  ErrorCloses = TRUE
CHECK_DEADLOCK FALSE
SPECIFICATION Spec
INVARIANTS TypeOK StreamIntact DeliveredAsSent
PROPERTY ImplementsDelivery
