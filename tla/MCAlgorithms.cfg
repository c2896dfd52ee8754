CONSTANTS
  MaxJobs = 9
  Word = 64
  Octets = 2
  OctetBits = 2
  MaxPort = 5
  V4Addresses = {"192.0.2.1", "10.0.0.1"}
  V6Addresses = {"2001:db8::1"}
  PrivateAddresses = {"10.0.0.1"}
  SensitivePorts = {22}
  Candidates <- CandidatePorts
  Reports <- Changes
  Decisions <- Tries
  Frames <- Datagrams
  Draws <- RandomOrders
  Lookups <- LookedUp
  Services <- SomeServices
  Others <- MoreInputs
  Failed = Failed
  Panics = Panics
  Signatures <- Greeters
  Endless = Endless
  NoIntel = NoIntel
  NoInput = NoInput
SPECIFICATION Spec
INVARIANTS VisitsEachOnce ExpansionExact OneRowAndTheWorst ReportsExact SendsAsAsked ServicesAsAnswered FingerprintsFit
CHECK_DEADLOCK FALSE
