CONSTANTS
  Key = {k1, k2}
  Data = {1, 2}
  Absent = Absent
  MaxId = 3
  MaxDepth = 3
  MaxRevision = 3
SPECIFICATION Spec
INVARIANTS TypeOK UndoAlwaysDefined UndoRestores RevisionsConsecutive
PROPERTY ImplementsSnapshots
