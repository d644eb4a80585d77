SPECIFICATION Spec
CONSTANTS
  a1 = a1
  a2 = a2
  b = b
  h1 = h1
  h2 = h2
  Files = {a1, b}
  Headers = {h1}
  Symbols = {1, 2}
  Modules = {0, 1, 2}
  Lines = {1}
  NoInfo = NoInfo
  NoTU = NoTU
  UseBoostFilesystem = FALSE
  AllowDelete = TRUE
  FileInfos = {"info"}
  ModuleOf <- MCModuleOf
  TranslationUnits <- CallerUnits
INVARIANTS BackLinks  
