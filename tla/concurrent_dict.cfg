SPECIFICATION LiveSpec
CONSTANTS
  d1 = d1
  d2 = d2
  k1 = k1
  k2 = k2
  Threads = {t1}
  Dicts = {d1, d2}
  Keys = {k1, k2}
  NShards = 2
  ShardOf <- OneKeyPerShard
  Values = {v1, v2}
  Absent = Absent
  MaxChanges = 3
INVARIANTS
  TypeOK
PROPERTIES
  SnapshotsAreWeak
  AnswersWereTrue
  PopitemTakesOne
  CallsReturn
