\* A reconnect: two handshakes with one identifier, and a user who calls Close.
CONSTANTS
  c1 = c1  c2 = c2  x = x  news = news  sport = sport
  None = None
  All = All
  Clients = {c1, c2}
  Ids = {x}
  IdOf <- SameId
  Subs <- NobodySubscribes
  Channels = {}
  Senders = {}
  Closers = {k1}
  SendCap = 1
  HubCap = 2
  MaxSends = 0
  Targets = {}
  MaxFrames = 0
  FrameKinds = {}
  BindFirst = TRUE
  CloseEarly = TRUE
  ErrorCloses = FALSE
CHECK_DEADLOCK FALSE
SYMMETRY TwoClients
SPECIFICATION Spec
INVARIANTS RegistryUsable HubNeverPanics OpenCallbackRuns
PROPERTIES ReleasesOnlyClosed OnCloseBeforeClear
