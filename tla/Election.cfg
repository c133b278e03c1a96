SPECIFICATION ElectionSpec
CONSTANTS
  s1 = s1
  s2 = s2
  Supervisors <- MCSupervisors
  NoOne = NoOne
  NoFile = NoFile
  Attempts = 2
  MaxBrokers = 4
  MaxFaults = 2
  LoseLive = FALSE
INVARIANTS
  ElectionSafe
PROPERTIES
  ImplementsService
  BrokerComesBack
CHECK_DEADLOCK FALSE
