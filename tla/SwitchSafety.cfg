SPECIFICATION Spec
CONSTANTS
  g1 = g1
  g2 = g2
  NoGate = NoGate
  Gates <- BothGates
  Attended <- BothGates
  SubmitOutcomes <- Reliable
SYMMETRY GateSymmetry
INVARIANTS
  OneTerminalPrompt
  NoDeadlineUnderPrompt
  DecidedPromptIsLeaving
  QuietMeansClear
CHECK_DEADLOCK FALSE
