\* Three peers, one key, four nodes: grants, concurrent writes and deletions.
SPECIFICATION FairSpec
CONSTANTS
  p1 = p1
  p2 = p2
  p3 = p3
  Peer = {p1, p2, p3}
  Founder = p1
  Rank <- Ranks
  Key = {k}
  Value = {v}
  None = None
  MaxNodes = 4
INVARIANTS
  CausalWins
  NothingLost
  Converged
PROPERTIES
  EventuallyOneView
CHECK_DEADLOCK FALSE
