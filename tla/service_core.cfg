\* Two calls of a service with a timeout by two servers; one server may die
\* and each may be asked to prepare for shutdown.
SPECIFICATION FairSpec
CHECK_DEADLOCK FALSE
CONSTANTS
  a = a  b = b  d = d  e = e  i1 = i1  i2 = i2  r1 = r1  c1 = c1  c2 = c2  c3 = c3
  Nobody = Nobody
  Service = {a, b}
  NameOf <- MCPlain
  Timed = {a}
  Server = {i1, i2}
  Offers <- MCOffersBoth
  Extra <- MCNone
  Remote = {}
  RemoteOffers <- MCNoRemote
  Call = {c1, c2}
  Path <- MCPathA
  Context <- MCMixed
  Impatient = {}
  Fleeting = {}
  Mortal = {i1}
  Drains <- MCSingles
  Discovery = TRUE
  MaxUnread = 2
INVARIANTS
  TypeOK
  ReservationOwned
  FailureToldOnce
  PreparedIsIdle
PROPERTIES
  LookupSettled
  CallAnswered
  PrepareReplied
