\* One user that two DELETE requests compete for.
SPECIFICATION FairSpec
CONSTANTS
  NoCall = NoCall
  Users = {u1}
  Deletes = {d1, d2}
  Calls = {u1, d1, d2}
CHECK_DEADLOCK FALSE
INVARIANTS
  TypeOK
  OneConnection
  NobodyStuck
  AnswersTruthful
PROPERTIES
  ImplementsUserFeed
  
