SPECIFICATION Spec
CONSTANTS
  Threads = {t1}
  Timers = {}
  Sids = {s1, s2}
  Dids = {d1, d2}
  Tokens = {k1, k2}
  None = None
  Requests <- AllRequests
  Excludes <- NoExclusion
  CarryForward = TRUE
  SerialSessions = TRUE
  MaxEpoch = 2
  MaxChal = 1
  MaxCrashes = 0
SYMMETRY Symmetry
INVARIANTS TypeOK OneOnboardingPerDid RevokedTokensBlacklisted TokenizedIsQueued
PROPERTIES RevokedStaysRevoked RoleIsKept ImplementsLifecycle
