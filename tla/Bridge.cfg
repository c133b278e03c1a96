SPECIFICATION Spec
CONSTANTS
  me = me
  other = other
  a1 = a1
  a2 = a2
  alice = alice
  bob = bob
  Nobody = Nobody
  Starters <- BothSessions
  Addresses <- TwoAddresses
  Principals <- TwoPeople
  Settings <- SomeSettings
  Leftovers <- SomeLeftovers
  DatabaseFails = TRUE
  Callers <- OneCaller
  Kinds <- ThreeKinds
  MaxHeld = 2
  MaxReady = 2
  MaxJobs = 4
  Me = me
  Unreachable <- NotThere
  LayerCount = 7
  LayerFails <- SomeLayers
  MaxFrames = 1
  MaxThreads = 2
  MaxOverruns = 1
CONSTRAINTS OneSyncFollowed OneOddity
INVARIANTS
  RightPeople
  QueueSound
  AllOrNothing
  
CHECK_DEADLOCK FALSE
