\* Violation: groups that are not listed in the order of their dependencies.
SPECIFICATION Spec
CHECK_DEADLOCK FALSE
CONSTANTS
  core = core  master = master  g1 = g1  g2 = g2  g3 = g3
  discovery = discovery  sm = sm  s1 = s1  s2 = s2  x1 = x1
  Core = core  Master = master  Transaction = transaction
  Queue = queue  Global = global  Gateway = gateway
  Listing <- MCUnordered
  Dependencies <- MCChain
  Server = {discovery, sm, s1, s2}
  Executable = {x1}
  Singleton = {sm}
  ServiceManager = sm
  MemberOf <- MCMemberOfChain
  Configured <- MCOne
  Restarting = {{}}
  Broken = {}
  Mortal = {}
  Scaling = {}
  Restart = {}
  MayFail = FALSE
  MaxDeaths = 0
  MaxRequests = 0
  MaxSpawns = 16
PROPERTIES
  InOrder
