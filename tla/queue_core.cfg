\* A forward to a service that is configured and switched off, one message and
\* a consumer; the producer may die, the administrator restores, the domain shuts
\* down.
SPECIFICATION FairSpec
CHECK_DEADLOCK FALSE
CONSTANTS
  f1 = f1  f2 = f2  m1 = m1  m2 = m2  c1 = c1  fw1 = fw1  fw2 = fw2
  Nobody = Nobody
  Message = {m1}
  Flow = {f1}
  Consumer = {c1}
  QueueOf <- MCTarget
  Mortal = {m1}
  RetryCount = 0
  RetryDelay = TRUE
  Batch = 2
  MayRestore = TRUE
  Forward = {fw1}
  ForwardOf <- MCOne
  Kind <- MCServices
  Sizes = {0, 1}
  MaxUpdates = 2
  MayFail = TRUE
  MayDie = FALSE
  MayShutdown = TRUE
INVARIANTS
  TypeOK
  RepliedIsDurable
PROPERTIES
  MessageEnds
  ShutdownEnds
