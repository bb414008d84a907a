\* Violation: the instances of a forward are changed from two to one.
SPECIFICATION FairSpec
CHECK_DEADLOCK FALSE
CONSTANTS
  f1 = f1  f2 = f2  m1 = m1  m2 = m2  c1 = c1  fw1 = fw1  fw2 = fw2
  Nobody = Nobody
  Message = {m1}
  Flow = {f1, f2}
  Consumer = {}
  QueueOf <- MCTarget
  Mortal = {}
  RetryCount = 0
  RetryDelay = TRUE
  Batch = 2
  MayRestore = FALSE
  Forward = {fw1}
  ForwardOf <- MCOne
  Kind <- MCQueues
  Sizes = {1, 2}
  MaxUpdates = 2
  MayFail = FALSE
  MayDie = FALSE
  MayShutdown = FALSE
PROPERTIES
  MessageEnds
