SPECIFICATION FairSpec
CONSTANTS
  s1 = s1
  s2 = s2
  s3 = s3
  c1 = c1
  c2 = c2
  Stores = {s1, s2, s3}
  Containers = {c1, c2}
  ContainerOf <- MCContainerOf
  WithFd = {s1}
  CleansUp = {s1}
  Gateway = 0
  MaxFaults = 1
  MaxMessages = 1
INVARIANTS TypeOK RoutesBacked
PROPERTIES NoStaleDelivery FreshKept ExpiredRemoved
CHECK_DEADLOCK FALSE
