\* One slot for two tasks: a task has to wait for others to settle.
SPECIFICATION FairSpec
CONSTANTS
  e1 = e1
  e2 = e2
  x = x
  j = j
  l = l
  Messages = {e1, e2, j}
  Kind <- MCKind
  Tasks = {t1, t2}
  Prefetch = 2
  MaxConcurrent = 1
  NoMessage = NoMessage
PROPERTIES
  
  DrainEnds
