\* A limited pool strands a job pushed while its workers are on their way out.
CONSTANTS
  Adders = {a1, a2}
  Workers = {w1}
  Limits = {1}
  MaxAdds = 1
SPECIFICATION FairSpec
PROPERTY JobsAreExecuted
