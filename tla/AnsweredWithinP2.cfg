SPECIFICATION Spec
CONSTANTS
  Modulus = 16
  Steps = {1, 2}
  P2 = 2
  S3 = 5
  PowerDown = 3
  BootDelay = 4
  FailDelay = 4
  RestartDelay = 2
INVARIANT AnsweredWithinP2
