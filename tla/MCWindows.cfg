SPECIFICATION MCSpec
CONSTANTS
  QSize = 2
  MaxLost = 1
  Modifiers = {"win", "shift"}
  Extended = {"win"}
  Plain <- Typed
  Window = {w1, w2}
  NoWindow = NoWindow
  NbWs = 2
  InitialWins <- NoWins
  KernelWins = {}
  Fkey <- FkeyDef
  Buttons <- ButtonStates
  MaxMouse = 2
  LineNum = 2
  Sizes <- PixelSizes
  Keys = {"k", "bs", "nl"}
  Scripts <- Writes
  Counts = {1}
  Reader = {r1, r2}
  MaxKeys = 4
  MaxScripts = 1
SYMMETRY Interchangeable
INVARIANTS KeysInOrder WindowsPlaced NoStrayDrag TextSound LinesTyped EchoShown DrawnExact
CHECK_DEADLOCK FALSE
