CONSTANTS
  Chn = 3
  TableSize = 12
  Tables <- GridTables
  TmpP <- OneProgram
  RowFx <- GridRowFx
  OrderTempo = {0}
  FastSpeedBind = TRUE
  DelaySupport = TRUE
SPECIFICATION Spec
INVARIANTS TypeOK Lockstep NoOvershoot GridInv
