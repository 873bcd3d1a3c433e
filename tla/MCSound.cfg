SPECIFICATION Spec
CONSTANTS
  Blocks = 2
  Nobody = Nobody
INVARIANTS
  FinishedIsSilent
  ProgramEndsSilent
PROPERTIES
  SoundEnds
