SPECIFICATION AccessSpec
CONSTANTS
  Threads = {t1}
  Timers = {}
  Sids = {s1}
  Dids = {d1}
  Tokens = {k1}
  None = None
  Requests <- Served
  Excludes <- NoExclusion
  CarryForward = TRUE
  SerialSessions = TRUE
  MaxEpoch = 1
  MaxChal = 1
  MaxCrashes = 1
  Visitors = {v1, v2}
  Nonces = {n1, n2}
  DeviceType <- Sensor
SYMMETRY Symmetry
INVARIANTS NonceBuysOnce OnlyDrivesStop
PROPERTIES RevokedIsDenied TokenEndsWithProcess
