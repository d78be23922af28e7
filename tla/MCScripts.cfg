SPECIFICATION MCFairSpec
CONSTANTS
  Parts = {"macros", "condition", "folder", "address", "shared"}
  Macros <- MCMacros
  Conditionals <- MCConditionals
  Values <- MCValues
  Texts <- MCTexts
  Token <- MCToken
  MaxLength = 6
  Missing = {"m", "n"}
  Unresolved = {"o"}
  Source = {"a", "b"}
  Stepped = {"s"}
  Trees <- MCTrees
  Image = {"p", "q"}
  Lists <- MCLists
  Bases = {0, 1, 32, 33, 40}
  Word = 64
  Align = 4
  LowFirst = 32
  LowEnd = 39
  HighEnd = 55
  Builtin = {"PLATFORM"}
  ScriptMacro = {"M"}
  Custom = {"c"}
  NoCondition = "none"
  Text = {"t", "u"}
  Letters = {"low", "UP"}
  Empty = ""
  Batches <- MCBatches
INVARIANTS ScriptsTypeOK GreedyMatch ConditionUntouched LeftToRight
INVARIANTS FoldersReadAsWritten AreasFit ProjectsAreIndependent
PROPERTIES ResolutionEnds
