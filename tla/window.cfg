SPECIFICATION DevicesSpec
CONSTANTS
  Threads = {t1, t2, tm}
  Timers = {tm}
  Sids = {s1, s2}
  Dids = {d1, d2}
  d1 = d1
  d2 = d2
  Tokens = {k1}
  None = None
  Requests <- Everything
  Excludes <- NoExclusion
  CarryForward = TRUE
  SerialSessions = FALSE
  MaxEpoch = 2
  MaxChal = 1
  MaxCrashes = 0
  Visitors = {v1}
  Nonces = {n1, n2, n3}
  DeviceType <- Sensor
  Scenarios <- FewDevices
INVARIANTS QueuedAsTold
PROPERTIES RecordNeverReplaced QueuedIsDecided DevicesAreServed TokenBridges
CHECK_DEADLOCK FALSE
