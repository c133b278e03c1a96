SPECIFICATION Spec
CONSTANTS
  g1 = g1
  g2 = g2
  NoGate = NoGate
  Gates <- OneGate
  Attended <- OneGate
  SubmitOutcomes <- Nobody
INVARIANT ApprovedIsNotDenied
CHECK_DEADLOCK FALSE
