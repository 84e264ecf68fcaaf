SPECIFICATION ShellFair
CONSTANTS
  Msgs = {1, 2, 3, 4, 5, 6, 7, 8, 9, 49, 50, 101, 120}
  UserHandles = {0, 1, 2, 3}
  MaxId = 9
  Keys = {49, 50, 101, 120}
  MaxKeys = 2
INVARIANTS
  ShellTypeOK
  OwnId
  OnlyCompletionsPanic
PROPERTIES
  RunsOnKernel
  PromptReturns

