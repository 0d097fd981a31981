SPECIFICATION FairSpec
CONSTANTS
  app = app
  svc = svc
  svc2 = svc2
  appDir = appDir
  svcDir = svcDir
  p1 = p1
  None = None
  Cgroup = {app}
  Path = {appDir}
  PathOf <- OneDirectory
  WithMemory = {app}
  Pod = {p1}
  UidIn <- OnePod
  ContainerDir = {appDir}
  NamedDir = {appDir}
  MaxMoved = 0
  MaxDrops = 1
PROPERTIES NodeBounded
CHECK_DEADLOCK FALSE
