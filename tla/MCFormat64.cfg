SPECIFICATION MCSpec
CONSTANTS
  Parts = {"format"}
  IntpWidth = 8
  Names <- MCNames
  Sizes = {300}
  Times = {1}
  MaxDeps = 2
  FileName = {"a", "b", "d/a"}
  FolderName = {"p"}
  BaseName <- MCBaseName
  MaxDepth = 1
  MaxObjects = 3
  Pattern = {"p", "q", "$m"}
  OsName = {"o"}
  DiskFile = {"p1", "p2", "q1", "o1"}
  Matches <- MCMatches
  Resolved <- MCResolved
  CRCScripts <- MCCRCScripts
  lib = lib
  client = client
  hl2 = hl2
  tf = tf
  Projects <- MCProjects
  Games <- MCGames
  NoGame = NoGame
  root = root
  common = common
  macros = macros
  definitions = definitions
  Script = {root, common, macros, definitions}
  Root = root
  Definition = definitions
  NoFile = NoFile
  Torn = Torn
  Scenario <- MCScenario
  MaxEdits = 2
INVARIANTS RoundTrip
