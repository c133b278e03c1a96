SPECIFICATION FairSpec
CONSTANTS
  m1 = m1
  m2 = m2
  Messages <- MCMessages
  Unknown <- MCUnknown
  Shaky <- MCShaky
  Events <- MCEvents
  PushAttempts = 2
  Window = 2
  Key = Key
  MaxKeys = 1
  MaxCancels = 1
  MaxSubs = 1
INVARIANTS
  SteeredOnce
  ReactionTellsTruth
  TextInOnePlace
  
PROPERTY QueuedBecomesTurn
CHECK_DEADLOCK FALSE
