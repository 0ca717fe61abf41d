\* Three commands in any mixture, at the same time or one after the other.
SPECIFICATION Spec
CONSTANT Runs = {r1, r2, r3}
CHECK_DEADLOCK FALSE
INVARIANTS
  TypeOK
  VersionTruthful
  OneMigrates
PROPERTIES
  HalfMigratedStays
  
