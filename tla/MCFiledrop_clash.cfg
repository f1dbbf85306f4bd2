\* Two files of one name, no kill: connections die, the last one is steady.
SPECIFICATION FairSpec
CONSTANTS
  s1 = s1
  s2 = s2
  a = a
  b = b
  d = d
  Sender = {s1, s2}
  Chunk = {a, b, d}
  Content <- TwoContents
  Zero = Zero
  Torn = Torn
  None = None
  Window = 1
  MaxConn = 3
  Faulty <- LastSteady
  Killable <- NoPoint
PROPERTIES
  SteadyReceiveCompletes
CHECK_DEADLOCK FALSE
