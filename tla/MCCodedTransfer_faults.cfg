\* Three blocks, up to seven symbols, three acknowledgements, three drops: enough
\* to lose all first symbols, all their reports, or all acknowledgements.
SPECIFICATION FairSpec
CONSTANTS
  K = 3
  Cap = 7
  Acks = 3
  MaxDrops = 3
  Rank <- RankOf
INVARIANTS
  RankSound
  AckStops
PROPERTIES
  Completes
  Ends
CHECK_DEADLOCK FALSE
