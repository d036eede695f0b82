CONSTANTS
  Pads <- AllPads
SPECIFICATION Spec
PROPERTIES
  OneFramePerPress
  OneTogglePerPress
  PressHeardOnce
  SpinAnswers
