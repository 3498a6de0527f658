CONSTANTS
  None = None
  Legato = Legato
  SmallFx = SmallFx
  Order <- MCOrder
  Builds <- MCBuilds
  Instruments <- MCInstruments
  Rows <- MCRows
  Effects <- MCEffects
SPECIFICATION Spec
INVARIANTS
  TypeOK
  OwnInstrument
  FilterMovesOnce
  TablesOwn
  RestartsMatch
  GivenBack
  EffectSounds
