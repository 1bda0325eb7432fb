\* Three adders, one call each, with and without a limit.
CONSTANTS
  Adders = {a1, a2, a3}
  Workers = {w1, w2, w3}
  Limits <- MCLimits
  MaxAdds = 1
SPECIFICATION FairSpec
INVARIANTS TypeOK CountIsLive WorkersWithinLimit StartedInOrder EnoughWorkers
PROPERTIES ImplementsJobQueue EveryJobStarts CloseStopsWorkers
