CONSTANTS
  Cells = {e1, e2, e3, e4}
  Vals = {x1, x2, x3, x4}
  NULL = NULL
  Reuse = TRUE
SPECIFICATION FifoSpec
SYMMETRY Symmetry
CHECK_DEADLOCK FALSE
INVARIANT TypeOK
INVARIANT ChainIsSound
PROPERTY ImplementsList
