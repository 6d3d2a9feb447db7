CONSTANTS
  Cells = {e1, e2, e3, e4}
  Vals = {x1, x2, x3, x4}
  NULL = NULL
  Reuse = FALSE
SPECIFICATION Spec
CHECK_DEADLOCK FALSE
PROPERTY ImplementsList
