SPECIFICATION Spec
CONSTANTS
  a1 = a1
  a2 = a2
  b = b
  h1 = h1
  h2 = h2
  Files = {a1, a2, b}
  Headers = {}
  Symbols = {1}
  Modules = {0, 1, 2}
  Lines = {1, 2}
  NoInfo = NoInfo
  NoTU = NoTU
  UseBoostFilesystem = TRUE
  AllowDelete = TRUE
  FileInfos = {"info"}
  ModuleOf <- MCModuleOf
  TranslationUnits <- DefinitionUnits
INVARIANTS TypeOK  
PROPERTIES WriteThrough 
