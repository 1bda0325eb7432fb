\* Two goroutines that change the channels of a connection, and the hub.
CONSTANTS
  chA = chA  chB = chB  chX = chX
  Empty = Empty
  Users = {u1, u2}
  Names = {chA, chB, chX}
  Configs <- MCConfigs
  Spares = {0, 2}
  Batches <- MCBatches
  MaxCalls = 3
  MaxScans = 1
SYMMETRY Symmetry
SPECIFICATION Spec
INVARIANTS TypeOK AddsNeverHide FoundWasThere
PROPERTY ImplementsChannelList
