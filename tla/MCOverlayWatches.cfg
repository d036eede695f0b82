CONSTANTS
  Pads <- WatchPads
  HexRows = 1
  HexCols = 1
  FullRows = 1
  FullCols = 1
  InputLen <- NoInput
  BufferLen <- NoInput
  PageBytes = 6
  Pages = 1
  Jump = 1
  ByteValues = 1
  MaxWatch = 1
  PlayerAddr = {0}
  RamImages <- Zeros6
  Entries <- WatchEntries
  HostAddrs <- SomeHostAddrs
  Boot <- OnesBehind
SPECIFICATION Spec
CHECK_DEADLOCK FALSE
INVARIANTS
  TypeOK
  CursorInMenu
  
