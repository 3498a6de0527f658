CONSTANTS
  Chn = 1
  TableSize = 12
  Tables <- FastTables
  TmpP <- OneProgram
  RowFx <- FastRowFx
  OrderTempo = {0, 1, 2}
  FastSpeedBind = TRUE
  DelaySupport = TRUE
SPECIFICATION FairSpec
INVARIANTS RowsComplete StepOnce BoundInv
PROPERTIES RowsKeepComing
