SPECIFICATION OrderedSpec
CONSTANTS
  app = app
  svc = svc
  svc2 = svc2
  appDir = appDir
  svcDir = svcDir
  p1 = p1
  None = None
  Cgroup = {app, svc, svc2}
  Path = {appDir, svcDir}
  PathOf <- Directories
  WithMemory = {app, svc2}
  Pod = {p1}
  UidIn <- PodDirs
  ContainerDir = {appDir}
  NamedDir = {appDir}
  MaxMoved = 1
  MaxDrops = 1
INVARIANTS TypeOK LabelsFitPath
PROPERTIES NoUnresolve LabelsCatchUp DeletedPodsLeave StaleForgotten
CHECK_DEADLOCK FALSE
