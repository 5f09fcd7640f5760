SPECIFICATION LiveSpec
CONSTANTS
  k1 = k1
  k2 = k2
  k3 = k3
  Tasks = {k1, k2, k3}
  Bare = {k1}
  Body = Body
  NoTask = NoTask
INVARIANTS
  TypeOK
  ExitJoinsAll
  OutcomeIsTrue
PROPERTY ExitReturns
