SPECIFICATION Spec
CONSTANTS
  t1 = t1
  t2 = t2
  a1 = a1
  a2 = a2
  b = b
  v1 = v1
  v2 = v2
  Threads = {t1, t2}
  Objects = {a1, a2, b}
  KeyOf <- EqualPair
  Values = {v1, v2}
  Absent = Absent
  Raised = Raised
SYMMETRY Symmetric
INVARIANTS
  TypeOK
  OneEntryPerKey
  ResultsWereTrue
PROPERTIES
  RemovalsAreReported
