SPECIFICATION Spec
CONSTANTS
  Threads = {t1, t2, tm}
  Timers = {tm}
  Sids = {s1, s2}
  Dids = {d1, d2}
  Tokens = {}
  None = None
  Requests <- Faulty
  Excludes <- AnyExclusion
  CarryForward = FALSE
  SerialSessions = TRUE
  MaxEpoch = 2
  MaxChal = 2
  MaxCrashes = 2
SYMMETRY Symmetry
INVARIANTS ChainInOrder IssuedProofsStayValid
PROPERTIES SessionOrder PossessionProven ImplementsRegistry
