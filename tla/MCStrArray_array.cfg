\* An editor, and a goroutine that appends and reads.
CONSTANTS
  Goroutines = {editor, other}
  Editor = editor
  Empty = 0
  Values = {0, 1}
  Indexes <- MCIndexes
  Sizes <- MCSizes
  Initial <- MCInitial
  Batches <- MCBatches
  Functions <- MCFunctions
  Spares = {0, 2}
  MaxCalls = 3
  MaxLength = 6
SPECIFICATION Spec
INVARIANTS TypeOK CopiesStay FoundStays
PROPERTY ImplementsSequence
