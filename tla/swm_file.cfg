SPECIFICATION Spec
CONSTANTS
  Songs <- AllSongs
  Channels = 2
  NameLen = 2
  Losses <- SomeLosses
  Junk <- SomeJunk
CHECK_DEADLOCK FALSE
INVARIANTS
  TypeOK
  MeetsMarks
  ReadsBack
  ReadsWritten
