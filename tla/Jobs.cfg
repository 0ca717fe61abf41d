\* Two jobs, async or sync, and three clients that come and go, over one list
\* of connections or over the two the repository has.
SPECIFICATION FairSpec
CONSTANTS
  Jobs = {j1, j2}
  Sockets = {s1, s2, s3}
CHECK_DEADLOCK FALSE
INVARIANTS
  TypeOK
  RecordConsistent
  ConnsAreLive
PROPERTIES
  TerminalStable
  JobsEnd
  ImplementsJobBoard
