SPECIFICATION Spec
CONSTANTS
  MaxQueue = 3
  MaxBuffers = 2
  Hazards = {}
INVARIANTS
  PlayersTold
  ThreadsEnd
  BuffersFreed
PROPERTIES
  CloseReturns
