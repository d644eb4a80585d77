SPECIFICATION Spec
CONSTANTS
  a = a
  b = b
  Files = {a, b}
  Headers = {}
  Symbols = {1}
  Modules = {0, 1, 2}
  Lines = {1, 2}
  NoInfo = NoInfo
  NoTU = NoTU
  UseBoostFilesystem = FALSE
  ModuleOf <- MCModuleOf
  Listed = {a, b}
  Initial = {a, b}
  Contents = {1}
  TuOf <- MCTuOf
  Unparsable = {}
  MaxClock = 1
  QueueLimit = 2
  Faults = {"delete", "move_away", "crash", "cmake_fails", "bad_request"}
INVARIANT SingleFlight
PROPERTIES RefinesIndex
