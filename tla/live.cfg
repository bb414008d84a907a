\* Two global transactions that share two proxies; the owner of one may die.
SPECIFICATION FairSpec
CHECK_DEADLOCK FALSE
CONSTANTS
  g1 = g1  g2 = g2  x1 = x1  x2 = x2  p1 = p1  p2 = p2
  r1 = r1  r2 = r2  i1 = i1  i2 = i2  i3 = i3  i4 = i4  e1 = e1
  Gtrid = {g1, g2}
  Xid = {x1, x2}
  GlobalOf <- TwoGlobals
  Process = {p1, p2}
  OwnerOf <- OwnOwner
  Client = {x1, x2}
  Upstream = {}
  Straggler = {}
  Rm = {r1, r2}
  Instance = {i1, i2}
  RmOf <- OneProxy
  ExternalRm = {}
  Spare = {}
  Mortal = {p1}
  MayCrash = {}
  MayScaleIn = {}
  Refusal = {"rollback_deadlock"}
  Fault = {}
  Batch = 2
  Nobody = Nobody
INVARIANTS
  LoggedIsCommitting
PROPERTIES
  EveryRequestAnswered
