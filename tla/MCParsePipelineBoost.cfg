SPECIFICATION Spec
CONSTANTS
  a = a
  b = b
  Files = {a}
  Headers = {}
  Symbols = {1}
  Modules = {0, 1, 2}
  Lines = {1, 2}
  NoInfo = NoInfo
  NoTU = NoTU
  UseBoostFilesystem = TRUE
  ModuleOf <- MCModuleOf
  Listed = {a}
  Initial = {a}
  Contents = {1, 2, 4}
  TuOf <- MCTuOf
  Unparsable = {4}
  MaxClock = 2
  QueueLimit = 2
  Faults = {"delete", "move_away", "revert", "cmake_fails", "crash", "bad_request"}
INVARIANTS TypeOK SingleFlight NoFalseFresh 
PROPERTIES RefinesIndex
