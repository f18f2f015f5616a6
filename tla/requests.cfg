SPECIFICATION FairSpec
CONSTANTS
  Threads = {t1, t2, tm}
  Timers = {tm}
  Sids = {s1}
  Dids = {d1}
  Tokens = {k1}
  None = None
  Requests <- Blocking
  Excludes <- AnyExclusion
  CarryForward = TRUE
  SerialSessions = TRUE
  MaxEpoch = 2
  MaxChal = 1
  MaxCrashes = 0
CHECK_DEADLOCK FALSE
INVARIANTS RegisteredHasProof
PROPERTIES RequestsEnd
