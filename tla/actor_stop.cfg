SPECIFICATION LiveSpec
CONSTANTS
  m1 = m1
  m2 = m2
  m3 = m3
  s1 = s1
  s2 = s2
  Calls = {m1, m2, m3}
  Tells = {m3}
  Cancellable = {m1}
  Stoppers = {s1, s2}
  Timed = {s2}
  By <- M1CallsItsActor
  Outside = Outside
  Capacity = 1
  Started = FALSE
  Sentinel = Sentinel
\* Every thread may have finished.
CHECK_DEADLOCK FALSE
INVARIANT StopFinishesBacklog
PROPERTIES
  BacklogIsAnswered
  SendsReturn
  StopReturns
