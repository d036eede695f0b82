CONSTANTS
  Pads <- ViewerPads
  HexRows = 1
  HexCols = 2
  FullRows = 1
  FullCols = 1
  InputLen <- ShortInput
  BufferLen <- Buffers
  PageBytes = 6
  Pages = 2
  Jump = 1
  ByteValues = 1
  MaxWatch = 1
  PlayerAddr = {0}
  RamImages <- Zeros12
  Entries <- ViewerEntries
  HostAddrs <- SomeHostAddrs
  Boot <- ZerosBehind
SPECIFICATION Spec
CHECK_DEADLOCK FALSE
INVARIANTS
  OneFocus
  CursorOnKey
  TextFits
  RequestOwned
PROPERTIES
  AnswerNeedsNewPress
