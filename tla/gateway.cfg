\* Two connections between two domains, symmetric, that the network may cut; one
\* cut or shutdown; each behaviour has one of the pairs of Mix.
SPECIFICATION Spec
CHECK_DEADLOCK FALSE
CONSTANTS
  c1 = c1  c2 = c2  svc = svc  que = que  r1 = r1  r2 = r2  r3 = r3  r4 = r4  r5 = r5  r6 = r6  r7 = r7
  t1 = t1  d1 = d1  d2 = d2  None = None
  Connection = {c1, c2}
  Configured = {c1, c2}
  Resource = {svc, que}
  Request = {r1, r2, r3, r4, r5, r6, r7}
  KindOf <- MCKind
  ResourceOf <- MCResource
  RequestedAs <- MCResource
  TridOf <- MCTrid
  Looped = {r4, r7}
  Trid = {t1}
  Discovery = {d1, d2}
  Rediscovery = {d2}
  OriginOf <- MCOrigin
  Queueless = {r6}
  MaxConnects = 2
  Mix = {{r1, r3}, {r2, r3}, {r1, r4}, {r1, d1}, {r3, r7}, {r3, r5}, {r6, d2}}
  MayCut = {c1, c2}
  MayShutdown = {"outbound", "inbound"}
  MaxFaults = 1
  Fate = {"absent", "died", "refused"}
SYMMETRY MCSymmetry
INVARIANTS
  TypeOK
  VoteIsTrue
  EndsEverywhere
  NoneCommitsAlone
  SoftLosesNothing
  RouteIsLive
