\* Every interleaving of checker, consumer and environment from start to
\* shutdown.  The consumer and the broker do what they like.
SPECIFICATION LifespanFairSpec
CONSTANT MaxFailures = 2
INVARIANTS
  
  AnnouncementsMatch
  NoChannelWithoutConsumer
  LifespanTypeOK
  TasksEndFirst
  CheckerOutlivesConsumer
PROPERTIES
  ConvergesToAlive
  ConvergesToDead
  MissingQueueShows
  
  ShutdownEnds
  
