\* A removal while the hub searches for another channel.
CONSTANTS
  chA = chA  chB = chB  chX = chX
  Empty = Empty
  Users = {u1, u2}
  Names = {chA, chB, chX}
  Configs <- MCConfigs
  Spares = {0, 2}
  Batches <- MCBatches
  MaxCalls = 1
  MaxScans = 1
SYMMETRY Symmetry
SPECIFICATION Spec
INVARIANT NeverMissed
