SPECIFICATION Spec
CONSTANTS
  Threads = {t1, t2}
  Timers = {}
  Sids = {s1, s2}
  Dids = {d1, d2}
  Tokens = {}
  None = None
  Requests <- Onboarding
  Excludes <- NoExclusion
  CarryForward = TRUE
  SerialSessions = TRUE
  MaxEpoch = 2
  MaxChal = 1
  MaxCrashes = 0
SYMMETRY Symmetry
INVARIANTS OneOnboardingPerDid
