SPECIFICATION LiveSpec
CONSTANTS
  t1 = t1
  t2 = t2
  t3 = t3
  s1 = s1
  s2 = s2
  s3 = s3
  Tasks = {t1, t2, t3}
  Workers = {1, 2}
  Closers = {s1, s2, s3}
  Waits = {s1, s3}
  Cancels = {s2}
  CallerOf <- ThirdByT2
  Needs <- EachNeedsItsElders
  SelfJoinPanics = TRUE
  NoTask = NoTask
\* Every call may have returned.
CHECK_DEADLOCK FALSE
INVARIANTS
  TypeOK
  
  ShutdownFinishesTasks

  
  
