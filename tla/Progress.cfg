SPECIFICATION ProgressSpec
CONSTANTS
  tab = tab  push = push
  port1 = port1  port2 = port2
  NoConn = NoConn
  Clients = {tab}
  Requests = {push}
  Owner <- OwnedByTab
  Mutations = {push}
  Conns = {k1, k2}
  OfflineAfter = 2
  MaxInFlight = 1
  ConnectionLimit = 1
  MaxRestarts = 1
  Repositories = {r1, r2}
  None = None
  MAX_DEFERRALS = 10
  Nowhere = Nowhere
  MaxProcs = 2
  Addrs = {port1, port2}
  Scan <- ScanTwo
  MaxDelays = 1
  MaxCrashes = 1
  MaxUpdates = 1
  Addresses = {a1, a2, a3}
  FirstAddress = a1
  MaxListeners = 2
  MaxShellFaults = 1
INVARIANTS ServerIsSound ShellHolds
PROPERTIES RequestsRecover ChangesAreReported CrashIsAnswered StopLeavesNothing
CHECK_DEADLOCK FALSE
