\* x2 belongs to another domain and its servers may report late; two proxies
\* of one resource crash, are shut down and are added, the resource may fail
\* in its second phase and the owner of x1 may die.
SPECIFICATION Spec
CHECK_DEADLOCK FALSE
CONSTANTS
  g1 = g1  g2 = g2  x1 = x1  x2 = x2  p1 = p1  p2 = p2
  r1 = r1  r2 = r2  i1 = i1  i2 = i2  i3 = i3  i4 = i4  e1 = e1
  Gtrid = {g1, g2}
  Xid = {x1, x2}
  GlobalOf <- TwoGlobals
  Process = {p1, p2}
  OwnerOf <- OwnOwner
  Client = {x1}
  Upstream = {x2}
  Straggler = {x2}
  Rm = {r1}
  Instance = {i1, i3}
  RmOf <- BothR1
  ExternalRm = {}
  Spare = {i3}
  Mortal = {p1}
  MayCrash = {i3}
  MayScaleIn = {i1, i3}
  Refusal = {"rollback_deadlock"}
  Fault = {"resource_fail"}
  Batch = 2
  Nobody = Nobody
INVARIANTS
  NoLostWakeup
  InProgressIsCoordinated
