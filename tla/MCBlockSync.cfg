CONSTANTS
  Peer = {"p", "q"}
  Block <- MCBlock
  Genesis = "genesis"
  NoBlock = "none"
  Prev <- MCPrev
  Num <- MCNum
  Bad = {"d3"}
  Heads <- MCHeads
  Ignores <- MCIgnores
  Order <- MCOrder
  Limits <- MCLimits
  MaxBreaks <- MCBreaks
  Worlds = {"forks", "broken", "deaf", "grow", "again"}
SPECIFICATION Spec
INVARIANTS InOrder RequestsSound
PROPERTY SyncCompletes
CHECK_DEADLOCK FALSE
