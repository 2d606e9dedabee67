SPECIFICATION FairSpec
CONSTANTS
  GENESIS <- MCGenesis
  _entry_hash <- MCHash
  Calls = {"c1", "c2", "c3"}
  Processes = {"p1", "p2"}
  home <- MCHome
  Budget = 2
  MaxResent = 1
  StaleReads = TRUE
  Faults = {"raise", "lost", "crash"}
INVARIANTS
  TypeOK
  ChainVerifies
  RecordedOnce
PROPERTIES
  ImplementsLog
  EveryCallEnds
CHECK_DEADLOCK FALSE
