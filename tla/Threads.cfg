SPECIFICATION FairSpec
CONSTANTS
  s1 = s1
  s2 = s2
  NoSession = NoSession
  NoRecord = NoRecord
  NoThread = NoThread
  Sessions <- OneSession
  MaxThreads = 3
  MaxGens = 2
  MaxRestarts = 1
  MaxRegisters = 3
  MaxReleases = 2
  CreateOutcomes <- MayFail
  ResolveOutcomes <- Always
  ArchiveOutcomes <- Always
  Crashes = TRUE
  DieMidRequest = TRUE
INVARIANTS
  OneThreadPerGateway
  RecordedIsHeld
PROPERTIES
  ImplementsThreadLife
  NeverRebuilt
  EndedSessionsAreTidied
CHECK_DEADLOCK FALSE
