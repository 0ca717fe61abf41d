\* Two events, an unknown type and a list body; three tasks, so that with
\* Prefetch = 2 some task is always left over from an earlier connection.
SPECIFICATION Spec
CONSTANTS
  e1 = e1
  e2 = e2
  x = x
  j = j
  l = l
  Messages = {e1, e2, x, l}
  Kind <- MCKind
  Tasks = {t1, t2, t3}
  Prefetch = 2
  MaxConcurrent = 2
  NoMessage = NoMessage
SYMMETRY MCSymmetry
INVARIANTS
  TypeOK
  SlotsConserved
  OneOwner
  NoEventLost
  NoEventDeadLettered
PROPERTY ImplementsAtLeastOnce
