CONSTANTS
  Witness = {1, 2, 3, 4}
  MaxWitnesses = 3
  MaxVoted = 2
  LapLength = 31
  Required = 2
  Interval = 2
  BlocksPerDay = 3
  Window = 4
  BlockSizes <- MCBlockSizes
  InitVotes <- MCInitVotes
  HardforkTime = 8
  Mine = {2}
  Version <- MCVersion
  Participation = 33
  Swings <- MCSwings
  Resigning = {4}
  Late = {3}
  MaxBlocks = 6
  MaxSlots = 3
  MaxTime = 14
  Skew = 1
  MaxEvents = 1
  Orderly = TRUE
SPECIFICATION Spec
INVARIANTS ScheduleSound LapsKept SignsAgainOnlyAtOnce OwnBlocksApply
CHECK_DEADLOCK FALSE
