SPECIFICATION FairSpec
CONSTANTS
  loop = loop
  g1 = g1
  p1 = p1
  Loop = loop
  Approvals <- MCApprovals
  Prompts <- MCPrompts
  Streaming = TRUE
  MaxEntries = 1
  MaxRuns = 1
  MaxTools = 2
  MaxHooks = 4
INVARIANTS
  TrackerTrue
  EdgeReachesSink
  MailboxSound
PROPERTY CloseReleases
CHECK_DEADLOCK FALSE
