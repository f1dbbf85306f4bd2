\* One file, two senders of it, the receiver killed anywhere but between rename
\* and unlink, the last connection steady.
SPECIFICATION FairSpec
CONSTANTS
  s1 = s1
  s2 = s2
  a = a
  b = b
  d = d
  Sender = {s1, s2}
  Chunk = {a, b, d}
  Content <- SameContent
  Zero = Zero
  Torn = Torn
  None = None
  Window = 2
  MaxConn = 3
  Faulty <- LastSteady
  Killable <- NotAtUnlink
INVARIANTS
  ResumeIsPrefix
  SidecarBacked
PROPERTIES
  SteadyReceiveCompletes
  ReceiptSettles
CHECK_DEADLOCK FALSE
