SPECIFICATION LinkFairSpec
CONSTANTS
  beat = beat
  worker = worker
  inbound = inbound
  NoFile = NoFile
  Senders <- MCSenders
  Beat = beat
  Inbound = inbound
  MaxBrokers = 3
  LoseLive = TRUE
  SendAttempts = 3
  MaxFrames = 1
  MaxFaults = 1
INVARIANTS
  LinkSafe
PROPERTIES
  SessionJoins
CHECK_DEADLOCK FALSE
