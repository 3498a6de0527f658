SPECIFICATION Spec
CONSTANTS
  Songs <- AmbiguousSong
  Channels = 2
  NameLen = 2
  Losses = {0}
  Junk = {}
CHECK_DEADLOCK FALSE
INVARIANTS
  ReadsWritten
