CONSTANTS
  NumQueues = 2
  Frames = {f1, f2, f3, f4}
  Ring = 1
  QueueSize = 2
  TxBatchSize = 2
  Fragments = 3
  Scanners = {s1}
  Decoys = {d1}
  Replies = {r1, r2}
SYMMETRY Symmetry
SPECIFICATION XDPSpec
INVARIANTS RedirectsToOpen UninterruptedExitReleases ReadyToScan EachFrameInOnePlace FramesIntact
