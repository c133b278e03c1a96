SPECIFICATION TeardownSpec
CONSTANTS
  g1 = g1
  g2 = g2
  NoGate = NoGate
  Gates <- BothGates
  Attended <- BothGates
  SubmitOutcomes <- Nobody
PROPERTIES
  SlotFreedByOwner
  
CHECK_DEADLOCK FALSE
