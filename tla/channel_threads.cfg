SPECIFICATION Spec
CONSTANTS
  t1 = t1
  t2 = t2
  t3 = t3
  c1 = c1
  c2 = c2
  o1 = o1
  a = a
  b = b
  Threads = {t1, t2, t3}
  Chans = {c1}
  Items = {a}
  SendOps = {o1}
  OpChan <- OpChanOne
  Capacity <- Capacity1
  NoItem = NoItem
  NoChan = NoChan
SYMMETRY ThreadSymmetry
\* Every thread may come to wait in a select with no timeout.
CHECK_DEADLOCK FALSE
INVARIANTS
  TypeOK
  ClosedErrorsAreTrue
  LateSendsAreSelects
PROPERTY AccountedFor
