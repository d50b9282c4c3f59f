CONSTANTS
  StartNums = {0, 2}
  MaxNum = 6
SPECIFICATION Spec
INVARIANTS LogSound LookupsRight
PROPERTY FlushedSurvives
CHECK_DEADLOCK FALSE
