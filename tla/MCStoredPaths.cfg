SPECIFICATION Spec
CONSTANTS
  h1 = h1
  h2 = h2
  f1 = f1
  f2 = f2
  f3 = f3
  Relative = Relative
  NoModule = NoModule
  Homes <- MCHomes
  Files <- MCFiles
  Module <- MCModule
  MaxLine = 2
  MaxMoves = 3
INVARIANTS TypeOK 
PROPERTY AnswerFollowsParse
