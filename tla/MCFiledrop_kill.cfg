\* One file, the receiver killed anywhere.
SPECIFICATION Spec
CONSTANTS
  s1 = s1
  s2 = s2
  a = a
  b = b
  d = d
  Sender = {s1}
  Chunk = {a, b, d}
  Content <- SameContent
  Zero = Zero
  Torn = Torn
  None = None
  Window = 1
  MaxConn = 3
  Faulty <- AnyConn
  Killable <- AnyPoint
INVARIANTS
  ResumeIsPrefix
CHECK_DEADLOCK FALSE
