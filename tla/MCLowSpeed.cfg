CONSTANTS
  sensor = sensor
  other = other
  Port <- PortDef
  Samplings <- SamplingsDef
  SIZE_OF_LSBUF = 2
  LOWSPEED_RX_TIMEOUT = 1
SPECIFICATION Spec
INVARIANTS ActiveWhilePending ResponseReady
PROPERTIES Completes
