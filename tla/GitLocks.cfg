SPECIFICATION LocksSpec
CONSTANTS
  r1 = r1  r2 = r2  f1 = f1  f2 = f2  w1 = w1  w2 = w2  w3 = w3
  main = main  git = git
  None = None
  NoWriter = NoWriter
  Readers = {r1}
  Flights = {f1}
  Writers = {w1, w2, w3}
  Dirs <- MainDirs
  CommonDirs = {git}
  CommonDir <- MainCommonDir
  Scopes <- MainScopes
  Keys <- MainDirs
  LockKeys <- MainScopes
  MaxVersion = 0
  Trees = {t1, t2}
  NoTree = NoTree
  Views = {"changes", "files"}
  ChangeKinds = {"worktree", "refs"}
  MaxVersions = 2
  MaxReadFaults = 1
  MaxMoves = 3
  Processes = {p1, p2, p3}
  First = p1
  NoProcess = NoProcess
  Ports = {x, y}
  ServicePort = x
  MaxMishaps = 1
INVARIANT WriteExclusion
PROPERTIES ChainIsQueue EveryWriteRuns EveryReadReturns
