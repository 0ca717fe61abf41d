\* A create request whose publish() fails.
SPECIFICATION Spec
CONSTANTS
  NoCall = NoCall
  Users = {u1}
  Deletes = {d1, d2}
  Calls = {u1, d1, d2}
CHECK_DEADLOCK FALSE
INVARIANTS
  EveryUserAnnounced
