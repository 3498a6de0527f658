CONSTANTS
  None = None
  Legato = Legato
  SmallFx = SmallFx
  Order <- MCOrder
  Builds <- MCBuilds
  Instruments <- MCInstruments
  Rows <- PortamentoRows
  Effects <- MCEffects
SPECIFICATION Spec
INVARIANTS
  EffectSounds
