CONSTANTS
  Workers = {w1, w2}
  TargetList <- DupTargets
  PortList <- OnePort
  BatchSize = 2
  NoRandomize = FALSE
  UseGuard = FALSE
  Verdicts <- OneVerdict
  MaxOther = 1
SPECIFICATION Spec
INVARIANTS NoJobLostOrDuplicated ShutdownOrder
PROPERTIES Implements Returns
