\* One element, which may be given twice to Encoder.add and be in the local set.
SPECIFICATION RibltSpec
CONSTANTS
  Elem = {e1}
  MaxCells = 3
  MaxCopies = 2
  FirstEnd = 1
  PerCell = 64
  BaseWork = 8192
INVARIANT SuccessRight
CHECK_DEADLOCK FALSE
