CONSTANTS
  Web = {w1}
  Main = main
  Node = node
  Writer = writer
  Uses <- PeerBlocks
  Replay = FALSE
  Order <- DefaultOrder
  MaxCalls = 2
SPECIFICATION Spec
PROPERTY RequestsAnswered
CHECK_DEADLOCK FALSE
