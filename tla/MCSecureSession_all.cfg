\* A transfer of one chunk, one or two passphrases, on a connection that lasts
\* and on one that may die.
SPECIFICATION FairSpec
CONSTANTS
  Pass = {p, q}
  Script <- Transfer
  Type <- MsgType
  HighWater = 3
  None = None
INVARIANTS
  FramesIntact
  AuthGate
  NonceOnce
PROPERTIES
  CutReleases
  SamePassCompletes
  OtherPassFails
CHECK_DEADLOCK FALSE
