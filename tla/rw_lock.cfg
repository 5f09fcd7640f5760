SPECIFICATION LiveSpec
CONSTANTS
  r1 = r1
  r2 = r2
  w1 = w1
  w2 = w2
  A = A
  B = B
  r1A = r1A
  r1A2 = r1A2
  r1B = r1B
  r2A = r2A
  r2B = r2B
  w1A = w1A
  w2A = w2A
  w2B = w2B
  Threads = {r1, r2, w1, w2}
  Locks = {A, B}
  ReadGuards = {r1A, r1A2, r1B, r2A, r2B}
  WriteGuards = {w1A, w2A, w2B}
  ThreadOf <- GuardThreads
  LockOf <- GuardLocks
  Abandoned = {r1A2, w1A}
  Disciplined = TRUE
\* Every guard may be gone.
CHECK_DEADLOCK FALSE
INVARIANTS
  TypeOK
  Exclusion
  RecursiveReadsNeverWait
PROPERTIES
  EntersReturn
