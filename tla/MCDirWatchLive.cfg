SPECIFICATION Spec
CONSTANTS
  Names = {"s", "m", "mm", "a", "b"}
  Dirs <- MCModuleDirs
  Rank <- MCRank
  NoPath = NoPath
  NoName = NoName
  NamePrefix <- MCNamePrefix
  Projects = {1}
  HomeOf <- MCHomeOf
  Initial <- MCNoB
  Creatable <- MCRemade
  Sources <- MCModuleDirs
  ModuleHome <- MCModuleHome
  MaxNode = 5
  MaxWatch = 8
  MaxQueue = 4
  OpenFds = {}
  Faults = {"outside"}
INVARIANT FlagsForModules
PROPERTIES SyncWatches DeletedDirsForgotten
CHECK_DEADLOCK FALSE
