SPECIFICATION FairSpec
CONSTANTS
  MaxLosses = 1
  v0 = v0
  v1 = v1
  v2 = v2
  v3 = v3
  h1 = h1
  h2 = h2
  Values = {v0, v1, v2, v3}
  Chunks <- MCChunks
  NumTopics = 1
  NumPartitions = 2
  Hosts = {h1, h2}
  ReadersOf <- MCReadersOf
  BufferSize = 1
INVARIANTS TypeOK  OffsetsExact AnnouncedReadable
PROPERTIES Delivered
CHECK_DEADLOCK FALSE
