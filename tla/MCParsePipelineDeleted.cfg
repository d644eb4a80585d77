SPECIFICATION Spec
CONSTANTS
  a = a
  b = b
  Files = {a}
  Headers = {}
  Symbols = {}
  Modules = {0, 1, 2}
  Lines = {1, 2}
  NoInfo = NoInfo
  NoTU = NoTU
  UseBoostFilesystem = TRUE
  ModuleOf <- MCModuleOf
  Listed = {a}
  Initial = {a}
  Contents = {1}
  TuOf <- MCTuOf
  Unparsable = {}
  MaxClock = 1
  QueueLimit = 4
  Faults = {"delete"}
INVARIANT DeletedFileIsRemoved
