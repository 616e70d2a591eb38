SPECIFICATION Spec
CONSTANTS
  Key = {k1, k2}
  Value = {e, a, b}
  Empty = e
  Absent = absent
  Caller = {c1, c2}
  Backend = {"mem", "bolt", "badger"}
  MaxWrites = 4
  MaxUndo = 2
SYMMETRY Symmetric
INVARIANT TypeOK
INVARIANT OldValueReplaced
INVARIANT UndoRestores
CHECK_DEADLOCK FALSE
