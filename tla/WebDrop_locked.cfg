\* One transfer to its end.
SPECIFICATION WebSpec
CONSTANTS
  Send = {s1, s2}
  Try = {t1}
  totalChunks = 1
  WrongPass = WrongPass
INVARIANT HintHolds
CHECK_DEADLOCK FALSE
