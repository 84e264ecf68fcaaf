SPECIFICATION ShellSpec
CONSTANTS
  Msgs = {1, 2, 3, 4, 5, 6, 7, 8, 50}
  UserHandles = {0, 1, 2, 3}
  MaxId = 8
  Keys = {50}
  MaxKeys = 1
INVARIANT AwaitedThreadsLive
