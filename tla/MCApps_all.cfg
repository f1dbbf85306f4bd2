\* Pages: two files, two receives, two chunks.  Benches: one or two repetitions and
\* their retries.  Links: both.  Trials: two in a run, with and without a relay.
SPECIFICATION Apps
CONSTANTS
  Send = {s1, s2}
  Try = {t1, t2}
  totalChunks = 2
  WrongPass = WrongPass
  Sample <- Samples
  BaseFile <- Files
  RepsFlag = {1, 2}
  NotNumber = NotNumber
  Infinite = Infinite
  NoFile = NoFile
  n = 2
INVARIANTS
  PagesAgree
  VerdictExact
  AllReleased
  TrialTrue
PROPERTIES
  ButtonComesBack
  TrialEnds
CHECK_DEADLOCK FALSE
