CONSTANTS
  p1 = p1
  p2 = p2
  d1 = d1
  Probes = {p1, d1}
  Decoys = {d1}
  Remote <- OneHost
  ScanTypes = {"syn"}
  Attempts = 1
SPECIFICATION Spec
INVARIANT NoReplyUnheard
