SPECIFICATION DiscoverySpec
INVARIANTS
  TypesOK
  OneCurrentVersion
  
  IndexedOnce
  RetriesHarmless
  SkippedFailedOnAll
  EventsDelivered
  NothingHiddenListed
  FeedComplete
  ListsAndFlagsAgree
  
  CountedOnce
  StaleIsQueued
  PlaysAccounted
  AccessIsEarned
  SupportAddsUp
  ContentAsServed
  RewardsAreRight
PROPERTIES
  EventuallyIndexed
  CompletedOnceByRows
  EveryoneGoesOn
  TrendingCatchesUp
  TakenDownForCause
CHECK_DEADLOCK FALSE
