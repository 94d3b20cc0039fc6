CONSTANTS
  Threads = {t1, t2}
  MaxQueue = 2
  MaxRecreations = 1
SPECIFICATION FairSpec
INVARIANTS DrainedIsFinal
PROPERTIES ImplementsTeardown ShutdownEnds
