SPECIFICATION FairSpec
CONSTANTS
  a = a
  b = b
  Files = {a, b}
  Headers = {}
  Symbols = {}
  Modules = {0, 1, 2}
  Lines = {1, 2}
  NoInfo = NoInfo
  NoTU = NoTU
  UseBoostFilesystem = FALSE
  ModuleOf <- MCModuleOf
  Listed = {a, b}
  Initial = {a}
  Contents = {1, 2, 3}
  TuOf <- MCTuOf
  Unparsable = {}
  MaxClock = 3
  QueueLimit = 1
  Faults = {}
INVARIANT NoFalseFresh
PROPERTY EventuallyUpToDate
