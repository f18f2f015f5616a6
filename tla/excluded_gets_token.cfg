SPECIFICATION Spec
CONSTANTS
  Threads = {t1}
  Timers = {}
  Sids = {s1, s2}
  Dids = {d1, d2}
  Tokens = {k1}
  None = None
  Requests <- NoProof
  Excludes <- AnyExclusion
  CarryForward = TRUE
  SerialSessions = TRUE
  MaxEpoch = 2
  MaxChal = 1
  MaxCrashes = 0
SYMMETRY Symmetry
INVARIANTS TokenizedIsQueued
