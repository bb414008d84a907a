\* Two messages and a forward of two instances to a queue; messages that are
\* rolled back are delayed, a consumer and the forward may die.
SPECIFICATION Spec
CHECK_DEADLOCK FALSE
CONSTANTS
  f1 = f1  f2 = f2  m1 = m1  m2 = m2  c1 = c1  fw1 = fw1  fw2 = fw2
  Nobody = Nobody
  Message = {m1, m2}
  Flow = {f1, f2}
  Consumer = {c1}
  QueueOf <- MCTarget
  Mortal = {c1}
  RetryCount = 0
  RetryDelay = TRUE
  Batch = 2
  MayRestore = FALSE
  Forward = {fw1}
  ForwardOf <- MCOne
  Kind <- MCQueues
  Sizes = {2}
  MaxUpdates = 1
  MayFail = TRUE
  MayDie = TRUE
  MayShutdown = FALSE
INVARIANTS
  MovedOnce
  NoLostDequeue
PROPERTIES
  DeadTakesNothing
