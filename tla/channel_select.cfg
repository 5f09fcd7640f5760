SPECIFICATION Spec
CONSTANTS
  t1 = t1
  t2 = t2
  t3 = t3
  c1 = c1
  c2 = c2
  o1 = o1
  a = a
  b = b
  Threads = {t1, t2}
  Chans = {c1, c2}
  Items = {a}
  SendOps = {o1}
  OpChan <- OpChanOne
  Capacity <- CapacityMixed
  NoItem = NoItem
  NoChan = NoChan
SYMMETRY ThreadSymmetry
\* Every thread may come to wait in a select with no timeout.
CHECK_DEADLOCK FALSE
INVARIANT ClosedErrorsAreTrue
PROPERTIES
  AccountedFor
  SealedIsFinal
