\* One async job, one client that is connected all along.
SPECIFICATION PushSpec
CONSTANTS
  Jobs = {j1}
  Sockets = {s1}
CHECK_DEADLOCK FALSE
INVARIANT PushedOnCompletion
