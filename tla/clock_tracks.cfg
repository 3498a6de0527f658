CONSTANTS
  Chn = 2
  TableSize = 10
  Tables <- TracksTables
  TmpP <- OneProgram
  RowFx <- TracksRowFx
  OrderTempo = {0, 4}
  FastSpeedBind = TRUE
  DelaySupport = TRUE
SPECIFICATION Spec
INVARIANTS NoStandstill ProgramBounded RowsComplete StepOnce EndHolds TracksInv
