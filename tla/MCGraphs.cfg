SPECIFICATION MCSpec
CONSTANTS
  Parts = {"search", "loading", "scanning", "building"}
  a = a
  b = b
  cpp = cpp
  h1 = h1
  h2 = h2
  lib = lib
  client = client
  server = server
  mathlib = mathlib
  client1 = client1
  client2 = client2
  server1 = server1
  mathlib1 = mathlib1
  game = game
  one = one
  Node = {a, b, lib}
  Library = {lib}
  MarkMax = 3
  File = {cpp, h1, h2, lib}
  Source = {cpp, h1, h2}
  Roots = {cpp}
  MaxVersion = 2
  Candidates <- MCCandidates
  Project = {client, server, mathlib}
  ProjectNode = {client1, client2, server1, mathlib1}
  Tag = {game, one, unknown}
INVARIANTS GraphsTypeOK AnswerCorrect ExactlySurvivorsStay IncludesChecked
INVARIANTS SameAsWithoutCache RemovalTrumps NoProjectTwice
