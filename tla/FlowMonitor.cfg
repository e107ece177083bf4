SPECIFICATION FairSpec
CONSTANTS
  k1 = k1
  k2 = k2
  f1 = f1
  r1 = r1
  r2 = r2
  LocalKeys = {k1, k2}
  RemoteKeys = {f1}
  Readers = {r1, r2}
  ReadersOf <- MCUserReadersOf
  DeleteBatch = 1
  WriteFails = FALSE
INVARIANTS TypeOK
PROPERTIES Reclaimed
CHECK_DEADLOCK FALSE
