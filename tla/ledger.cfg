SPECIFICATION Spec
CONSTANTS
  Roots = {r1, r2}
  MaxEpoch = 2
INVARIANTS OwnFileVerifies TamperEvident
