CONSTANTS
  NIndexes = 3
  MaxHeight = 4
  LibLag = 1
  MaxCrashes = 3
  CrashAt <- OutsideReindexWindows
SPECIFICATION Spec
INVARIANTS StateSound LoggedIsCommitted
PROPERTY EventuallyServes
