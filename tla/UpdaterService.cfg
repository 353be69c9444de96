SPECIFICATION Spec
CONSTANTS
  MaxChunks = 2
  MaxSessions = 4
INVARIANTS
  OneLeftIsHarmless
  RefusedOnce
