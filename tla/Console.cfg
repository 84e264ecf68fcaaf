SPECIFICATION KeyboardSpec
CONSTANTS
  BUFFER_WIDTH = 3
  BUFFER_HEIGHT = 2
  Printable = {" ", "a", "F", "U", "K", "x"}
  Capacity = 1
  Keys = {"none", "a", "newline", "backspace", "delete", "ArrowUp", "ArrowDown", "ArrowLeft", "ArrowRight", "F1"}
  RawKeys = {"ArrowUp", "ArrowDown", "ArrowLeft", "ArrowRight", "F1"}
  Name <- MCName
  FULL <- MCFULL
  UNINITIALISED <- MCUNINITIALISED
  Texts <- MCTexts
  MaxKeys = 3
  MaxTexts = 1
INVARIANTS
  KeyboardTypeOK
  NoLostWakeup
  ScreenShowsText
  SpinsOnlyBehindTask
  OnlyVerticalPanics
PROPERTIES
  ScancodesHandled
CHECK_DEADLOCK FALSE
