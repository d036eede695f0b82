CONSTANTS
  BufferUnits = 18
  Slack = 6
  Screens <- SomeScreens
  Prints = {1}
  ByteSize = 2
  HWordSize = 8
  Dec = 3
  Hex = 2
  WordDigits = 8
  Ram <- SomeRam
  Addresses <- SomeAddresses
  Values <- SomeValues
  FloatPlaces = 1
  FloatSize = 10
  ByteValues = 4
  WordBytes = 2
  LevelRam <- SomeLevelRam
  Contents <- SomeContents
  Levels <- SomeLevels
  Names <- SomeNames
  RngValues = {0, 9}
  AreaWords = 40
  ActorSize = 2
  PropertiesSize = 2
  CollisionSize = 4
  SwitchSize = 2
  PuzzleSize = 2
  ConditionSize = 2
  CameraSize = 2
SPECIFICATION HackSpec
INVARIANTS
  ListWhole
  PeeksTell
  RestoreBringsBack
PROPERTIES
  BelowAreas
  Beats
  KeepsBeating
  RestoreTouchesOnly
