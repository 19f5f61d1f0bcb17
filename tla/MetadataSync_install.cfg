SPECIFICATION Spec
CONSTANTS
  Commands = {c1, c2, c3}
  Targets = {t1, t2}
  Pin <- MCPin
  Files = {"presets"}
  Absent = Absent
SYMMETRY Symmetry
INVARIANTS Safety
PROPERTIES ImplementsUndoLog
CHECK_DEADLOCK FALSE
