SPECIFICATION Spec
CONSTANTS
  Threads = {t1, t2}
  Nobody = Nobody
  Attempts = 2
  Repetition = 3
  Buffers <- BuffersMC
  Faulty <- FaultyMC
INVARIANTS
  TypeOK
  NothingBeforeThePass
  NothingMadeOfStuckBytes
PROPERTIES
  EveryCallEnds
