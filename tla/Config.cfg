SPECIFICATION FairSpec
CONSTANTS
  Configs <- Changing
  Getters = 3
  Readers = {worker, review}
  worker = worker
  review = review
  MaxFaults <- Bounds
INVARIANTS
  TypeOK
  SettledIsCurrent
PROPERTIES
  ReadReturnsFile
  ImplementsJitConfig
  FileCatchesUp
CHECK_DEADLOCK FALSE
