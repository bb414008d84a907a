\* Three instances of s1, which are spawned again or not, scaled and restarted;
\* s2 cannot be spawned; one of s1 or the service manager dies.
SPECIFICATION FairSpec
CHECK_DEADLOCK FALSE
CONSTANTS
  core = core  master = master  g1 = g1  g2 = g2  g3 = g3
  discovery = discovery  sm = sm  s1 = s1  s2 = s2  x1 = x1
  Core = core  Master = master  Transaction = transaction
  Queue = queue  Global = global  Gateway = gateway
  Listing <- MCListing
  Dependencies <- MCDependencies
  Server = {discovery, sm, s1, s2}
  Executable = {x1}
  Singleton = {sm}
  ServiceManager = sm
  MemberOf <- MCMemberOf
  Configured <- MCConfigured
  Restarting <- MCRestarting
  Broken = {s2}
  Mortal = {s1, sm}
  Scaling <- MCScaling
  Restart <- MCRestart
  MayFail = TRUE
  MaxDeaths = 1
  MaxRequests = 1
  MaxSpawns = 16
INVARIANTS
  TypeOK
  EndsAlone
  RollingRestart
PROPERTIES
  InOrder
  LevelEnds
