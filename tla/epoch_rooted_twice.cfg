SPECIFICATION HistorySpec
CONSTANTS
  Threads = {t1}
  Timers = {}
  Sids = {s1, s2}
  Dids = {d1, d2}
  Tokens = {}
  None = None
  Requests <- Faulty
  Excludes <- NoExclusion
  CarryForward = TRUE
  SerialSessions = TRUE
  MaxEpoch = 2
  MaxChal = 1
  MaxCrashes = 1
SYMMETRY Symmetry
INVARIANTS OneRootPerEpoch
