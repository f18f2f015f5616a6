SPECIFICATION Spec
CONSTANTS
  Devices <- FiveDevices
  LastEpoch = 2
INVARIANTS RootIsTheSet OnlyItsProofVerifies OnlyIssuedVerifies
CHECK_DEADLOCK FALSE
