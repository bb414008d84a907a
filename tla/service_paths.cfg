\* A call handed on from the server of a to that of d, through the forward
\* cache when that is busy, one of d that expects no reply and one of a that
\* may be given up, and whose caller may die; d is a route of b. The server of
\* a may die beside a gateway that has a, and advertises in a call.
SPECIFICATION Spec
CHECK_DEADLOCK FALSE
CONSTANTS
  a = a  b = b  d = d  e = e  i1 = i1  i2 = i2  r1 = r1  c1 = c1  c2 = c2  c3 = c3
  Nobody = Nobody
  Service = {a, b, d, e}
  NameOf <- MCRoutes
  Timed = {a, b, d}
  Server = {i1, i2}
  Offers <- MCOffersEach
  Extra <- MCExtra
  Remote = {r1}
  RemoteOffers <- MCRemoteA
  Call = {c1, c2, c3}
  Path <- MCPathsCross
  Context <- MCInbound
  Impatient = {c3}
  Fleeting = {c3}
  Mortal = {i1}
  Drains = {}
  Discovery = TRUE
  MaxUnread = 1
INVARIANTS
  OneCaller
  DeadlineKept
PROPERTIES
  NoLostLookup
