SPECIFICATION Spec
CONSTANTS
  Domains = {2, 3}
  ND = 5
  MemSize = 4
  MaxSize = 2
  MaxProxies = 4
  Bounds <- MCBounds
  Requests <- MCRequests
  Devices <- MCDevices
  Threads = {t1}
  Preemptible = {"check"}
INVARIANT MemorySound
CHECK_DEADLOCK FALSE
