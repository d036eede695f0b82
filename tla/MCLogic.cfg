CONSTANTS
  Dec = 2
  Hex = 2
  WordDigits = 5
  FPS = 3
  SecondsPerMinute = 3
  TimerTime = 3
  MsgTime = 2
  MaxFrames = 10
  IgtValues = {0, 9}
  Places = {here, there}
  Unset = unset
SPECIFICATION Spec
INVARIANTS
  TypeOK
  PlayerIsTold
PROPERTIES
  DrawnItsTime
  LockHolds
  TextIsCount
  RestartRuns
  RestartServed
