SPECIFICATION Spec
SYMMETRY Interchangeable
CONSTRAINT Few
CONSTANTS
  v1 = v1  v2 = v2  w1 = w1  w2 = w2  s1 = s1  s2 = s2
  tab = tab  push = push  status = status
  NoConn = NoConn
  Clients = {tab}
  Requests = {push, status}
  Owner <- OwnedByTab
  Mutations = {push}
  Conns = {k1, k2}
  OfflineAfter = 1
  MaxInFlight = 1
  ConnectionLimit = 1
  MaxRestarts = 1
  Settings = {login, instructions}
  RollingBack = {login, instructions}
  ByValue = {login}
  Channels = {v1, v2}
  Values = {0, 1}
  Null = Null
  MaxSets = 3
  MaxFailures = 2
  Repositories = {r}
  Logins = {v1, v2}
  NoLogin = NoLogin
  MaxChanges = 1
  None = None
  Readers = {v1, v2}
  Flights = {w1, w2}
  Repository = r
  Scopes = {r}
  Keys <- AllKeys
  MaxMoments = 3
  MaxCalls = 2
  MaxMutations = 1
  MaxWrites = 1
  Attempts = 3
  NoBranch = NoBranch
  MaxOthers = 2
  MaxActions = 1
  Watchers = {v1, v2}
  ExecutablePaths = {w1, w2}
  Unknown = Unknown
  MaxInstalls = 1
  MaxPaths = 1
  MaxChecks = 3
  MaxAppRestarts = 1
  Latest = 2
  Cloners = {v1, v2}
  Absent = Absent
  MaxJobs = 2
  PollFailures = 2
  MaxReloads = 1
  Tabs = {v1, v2}
  Shelves = {s1, s2}
  ActiveLimit = 2
  MaxGenerations = 2
  MaxEdits = 1
  Clis = {cli}
  MaxFaults = 2
  MaxKills = 1
INVARIANTS TypeOK NothingIsCut ConfirmedIsStored AccountsHold KeptIsCurrent GenerationsHold ServiceIsWhole
PROPERTIES AnswersAreTrue NothingForRevoked ActionsHold ClonesAreSafe
CHECK_DEADLOCK FALSE
