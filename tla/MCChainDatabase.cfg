CONSTANTS
  Block <- MCBlock
  Worlds <- MCWorlds
  Partitions <- MCPartitions
  Genesis = "genesis"
  NoBlock = "none"
  Prev <- MCPrev
  Num <- MCNum
  Producer <- MCProducer
  Bad = {"f4", "b4"}
  Overtaking = {"m3", "m6", "f3", "f4"}
  Redelivered = {"m5", "m6", "f2", "f3", "f4", "b4", "d2", "d3", "d4", "a2", "b3", "c4", "a5"}
  Witness = {"A", "B", "C", "D"}
  StartVoting = 3
  MaxWitnesses = 1
  MaxSize = 1024
  Summaries = 3
  Limit = 3
SPECIFICATION Spec
INVARIANTS ChainSound LoggedIsBacked LongestChain FailedPushKeepsHead AnswersSound
PROPERTY PushReturns
CHECK_DEADLOCK FALSE
