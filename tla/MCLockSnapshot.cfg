CONSTANTS
  Pads <- LockPads
  HexRows = 1
  HexCols = 1
  FullRows = 1
  FullCols = 1
  InputLen <- NoInput
  BufferLen <- NoInput
  PageBytes = 8
  Pages = 1
  Jump = 1
  ByteValues = 2
  MaxWatch = 1
  PlayerAddr = {0}
  RamImages <- OneSet
  Entries <- MonitorOnly
  HostAddrs <- SomeHostAddrs
  Boot <- ZerosBehind
SPECIFICATION Spec
CHECK_DEADLOCK FALSE
PROPERTIES
  LockKeepsSnapshot
