SPECIFICATION FairSpec
CONSTANTS
  a = a
  b = b
  Servers = {a, b}
  NoUrl = ""
  MaxCycles = 4
  MaxRecreations = 1
  MayReject = TRUE
INVARIANTS QuietAgreement
PROPERTIES WitnessShowsServer ImplementsAttempt ConnectingSettles
