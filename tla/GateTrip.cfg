SPECIFICATION FairSpec
CONSTANTS
  g1 = g1
  g2 = g2
  p1 = p1
  p2 = p2
  Nobody = Nobody
  Terminal = Terminal
  Gates <- OneGate
  Presses <- TwoPresses
  SendAttempts = 3
  PushAttempts = 2
  EnvelopeMemory = 2
  SlowKinds <- OnlyOpen
  LastSendFails = TRUE
  SendOutcomes <- SentOrRefused
  EditOutcomes <- Always
  MayBeStale = TRUE
INVARIANTS
  ClaimIsBacked
  TakenIsRuling
  PostedOnce
PROPERTIES
  NoOrphanButtons
CHECK_DEADLOCK FALSE
