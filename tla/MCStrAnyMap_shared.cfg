\* Three goroutines, two maps with two keys, nil and another value.
CONSTANTS
  Callers = {p1, p2, p3}
  NoOne = NoOne
  m1 = m1
  m2 = m2
  a = a
  b = b
  v = v
  Nil = Nil
  Absent = Absent
  Maps = {m1, m2}
  Keys = {a, b}
  Vals = {Nil, v}
  Empties = {Nil}
  Initial <- MCInitial
  Offered <- MCOffered
  MaxCalls = 3
SYMMETRY Symmetry
SPECIFICATION Spec
INVARIANTS TypeOK NeededFunc SteadyIteration NeverStuck
PROPERTY ImplementsAtomicMap
