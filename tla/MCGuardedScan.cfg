CONSTANTS
  Workers = {w1}
  TargetList <- DupTargets
  PortList <- TwoPorts
  BatchSize = 1
  NoRandomize = TRUE
  UseGuard = TRUE
  Verdicts <- TwoVerdicts
  RTTs <- Times
  RisePercent = 115
  RiseStreak = 2
  BaselineSamples = 1
  MaxConsecLoss = 2
  MaxLoaded = 1
  MaxOther = 1
SPECIFICATION GuardedSpec
INVARIANTS TripsWhenDue NoProbeAfterTrip ProgressConsistent
PROPERTY DistressEndsProbing
