\* Receipts: every array of at most four.  Log: three writers of whom two sign, two
\* appends, two copies.  Handshake: any lists, keys of one other session.
\* Signatures: two owners, two roots.  Reconciliation: two sets of three elements.
\* Decoder: three blocks over the field of four elements, all rows, all orders.
SPECIFICATION Labs
CONSTANTS
  c1 = c1
  c2 = c2
  x = x
  y = y
  Channel = {c1, c2}
  Body = {x, y}
  Bytes <- Sizes
  Input <- Arrays
  NoReceipt = NoReceipt
  Signers = 3
  Threshold = 2
  Replica = {c1, c2}
  Block = {x}
  Call = {a1, a2}
  MaxCommits = 4
  MaxLength = 2
  NoNonce = NoNonce
  other = other
  Strange = {other}
  ModeLists <- Lists
  Nothing = Nothing
  Owner = {o1, o2}
  Root = {r1, r2}
  MaxMade = 3
  Junk = Junk
  Missing = Missing
  Thrown = Thrown
  Elem = {e1, e2, e3}
  MaxCells = 4
  MaxCopies = 1
  FirstEnd = 1
  PerCell = 2
  BaseWork = 3
  K = 3
  Field <- GF4
  Zero <- NoBits
  One <- LowBit
  Plus <- Sum4
  Times <- Product4
  Inv <- Inv4
  None = None
INVARIANTS
  ClaimsExact
  StrictExact
  NonceUsedOnce
  HeadsSigned
  FailureExplained
  KeysAgree
  HybridFailsClosed
  LevelsApart
  DifferenceExact
  PeelComplete
  DecodesSource
PROPERTIES
  NothingForgotten
CHECK_DEADLOCK FALSE
