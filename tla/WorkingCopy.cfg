SPECIFICATION Spec
SYMMETRY Interchangeable
CONSTRAINT FewAtOnce
CONSTANTS
  v1 = v1  v2 = v2  w1 = w1  w2 = w2
  doc = doc  lib = lib
  Roots = {v1, v2}
  Filled = {v1, v2}
  Bases = {doc, lib}
  FolderBases = {lib}
  Directories = {1, 2}
  Picks <- Selected
  NoTransfer = NoTransfer
  MaxCopies = 1
  MaxTransfers = 3
  MaxErrors = 1
  MaxStrangers = 1
  Repositories = {v1, v2}
  MaxSteps = 2
  MaxSnapshotBytes = 2
  MaxOperations = 3
  Files = {v1, v2}
  MaxVersion = 2
  MaxOutside = 1
  Worktrees = {v1, v2}
  Requests = {w1, w2}
  MaxEdits = 2
  MaxStashes = 2
  Entries = {v1, v2}
  MaxEvents = 3
  RepositoryKeys = {v1, v2}
  Folders = {1}
  Projects = {x, y}
  Callers = {w1, w2}
  NoWorktree = NoWorktree
  MaxCommands = 3
INVARIANTS TypeOK HistoryIsSound TransfersHold PlanHolds ChangesAreSafe RemovalIsSafe RegistryHolds
CHECK_DEADLOCK FALSE
