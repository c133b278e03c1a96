SPECIFICATION FairSpec
CONSTANTS
  g1 = g1
  g2 = g2
  NoGate = NoGate
  Gates <- BothGates
  Attended <- OneGate
  SubmitOutcomes <- Reliable
PROPERTIES
  RulingNeverChanges
  UnattendedReturns
  AnswerReachesBothEnds
CHECK_DEADLOCK FALSE
