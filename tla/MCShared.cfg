CONSTANTS
  Workers = {w1, w2}
  BatchSlots = 2
  Interval = 1
  Horizon = 6
  Conns = {c1, c2, c3}
  Addrs = {"a", "b"}
  MaxSize = 2
  Latencies = {9, 40}
  RateLimit = 20
  WindowSize = 2
  MaxProbes = 4
  Jobs = {j1, j2}
  OpenPorts = {j1}
  IDs = 4
  MaxNoise = 1
  Starts = {2}
  p1 = p1
  p2 = p2
  d1 = d1
  Probes = {p1, p2}
  Remote <- TwoHosts
  ScanTypes = {"syn", "ack", "window", "stealth"}
  RawDecoys = {}
  XDPDecoys = {d1}
  OnLink = {"b"}
  Fragments = 2
  Attempts = 2
  UDPAttempts = 3
  Unused = Unused
SPECIFICATION Spec
INVARIANTS SlotsConserved AverageRate OneOwner LossesConserved OnlyDisturbedMislead VerdictIsTheHosts NoReplyUnheard
PROPERTY DrainDiscards
CHECK_DEADLOCK FALSE
