SPECIFICATION FairSpec
CONSTANTS
  h1 = h1
  h2 = h2
  sweeper = sweeper
  r1 = r1
  w1 = w1
  w2 = w2
  Hooks <- MCHooks
  Worker = sweeper
  Runs = {r1}
  Waits <- MCWaits
  MaxTools = 2
  MaxCalls = 5
  SendAttempts = 2
  MaxFaults = 1
INVARIANTS
  PaneIsTrue
  WaitsAreTrue
PROPERTIES
  NeverOlder
  ReleaseGoesOut
CHECK_DEADLOCK FALSE
