SPECIFICATION LiveSpec
CONSTANTS
  t1 = t1
  t2 = t2
  t3 = t3
  c1 = c1
  c2 = c2
  o1 = o1
  a = a
  b = b
  Threads = {t1, t2}
  Chans = {c1}
  Items = {a, b}
  SendOps = {o1}
  OpChan <- OpChanOne
  Capacity <- Capacity2
  NoItem = NoItem
  NoChan = NoChan
PROPERTIES
  ImplementsQueueC1
  BlockedCallsReturn
