\* Two files of one name, any connection dropped, the receiver killed anywhere.
SPECIFICATION Spec
CONSTANTS
  s1 = s1
  s2 = s2
  a = a
  b = b
  d = d
  Sender = {s1, s2}
  Chunk = {a, b, d}
  Content <- TwoContents
  Zero = Zero
  Torn = Torn
  None = None
  Window = 1
  MaxConn = 3
  Faulty <- AnyConn
  Killable <- AnyPoint
INVARIANTS
  NoFrameRefused
  OneReceiptPerIdentity
PROPERTIES
  ImplementsDelivery
  RecordKept
CHECK_DEADLOCK FALSE
