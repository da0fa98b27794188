SPECIFICATION Spec
CONSTANTS
  Domains = {2}
  ND = 5
  MemSize = 3
  MaxSize = 1
  MaxProxies = 3
  Bounds <- MCAllocBounds
  Requests <- MCAllocRequests
  Devices = {}
  Threads = {t1, t2}
  Preemptible = {"alloc"}
CHECK_DEADLOCK FALSE
INVARIANT FreeListSound
