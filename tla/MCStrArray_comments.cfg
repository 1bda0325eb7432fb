\* One call of an editor.
CONSTANTS
  Goroutines = {editor}
  Editor = editor
  Empty = 0
  Values = {0, 1}
  Indexes = {1}
  Sizes <- MCMinusOne
  Initial <- MCInitial
  Batches <- MCBatches
  Functions <- MCFunctions
  Spares = {0, 2}
  MaxCalls = 1
  MaxLength = 6
SPECIFICATION Spec
PROPERTY FollowsComments
