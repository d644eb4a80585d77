SPECIFICATION Spec
CONSTANTS
  Names = {"s", "m", "mm", "a", "b"}
  Dirs <- MCDirs
  Rank <- MCRank
  NoPath = NoPath
  NoName = NoName
  NamePrefix <- MCNamePrefix
  Projects = {1, 2}
  HomeOf <- MCHomeOf
  Initial <- MCNoB
  Creatable <- MCOutside
  Sources <- MCDirs
  ModuleHome <- MCModuleHome
  MaxNode = 4
  MaxWatch = 5
  MaxQueue = 1
  OpenFds = {}
  Faults = {"rename", "outside"}
INVARIANTS TypeOK NoOrphanWatches OneWatcherPerPath
PROPERTY SyncWatches
CHECK_DEADLOCK FALSE
