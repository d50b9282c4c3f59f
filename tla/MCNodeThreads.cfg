CONSTANTS
  Web = {w1, w2}
  Main = main
  Node = node
  Writer = writer
  Uses <- Undisturbed
  Replay = FALSE
  Order <- DefaultOrder
  MaxCalls = 4
SPECIFICATION Spec
INVARIANTS QueueSound NodeOutlivesUse
PROPERTIES RequestsAnswered ShutdownCompletes
CHECK_DEADLOCK FALSE
