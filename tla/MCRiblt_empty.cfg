\* Two elements and a source that may have no symbol at all.
SPECIFICATION RibltSpec
CONSTANTS
  Elem = {e1, e2}
  MaxCells = 3
  MaxCopies = 1
  FirstEnd = 0
  PerCell = 64
  BaseWork = 8192
SYMMETRY Symmetric
INVARIANT SuccessRight
CHECK_DEADLOCK FALSE
