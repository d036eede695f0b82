CONSTANTS
  MaxSent = 4
  ListenBlocks = 4
  Fifo = 3
SPECIFICATION Spec
CHECK_DEADLOCK FALSE
INVARIANTS
  AnswersInOrder
PROPERTIES
  CommandsWhole
  ReplyIsAnswer
  GameGoesOn
