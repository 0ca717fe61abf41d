\* One event in its handler when the lifespan cancels the consumer.
SPECIFICATION FairSpec
CONSTANTS
  e1 = e1
  e2 = e2
  x = x
  j = j
  l = l
  Messages = {e1}
  Kind <- MCKind
  Tasks = {t1}
  Prefetch = 1
  MaxConcurrent = 1
  NoMessage = NoMessage
PROPERTY DrainLetsHandlersAck
