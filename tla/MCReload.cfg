\* A command, a cert without consumers, two that share a unit.
SPECIFICATION FairSpec
CONSTANTS
  N = 4
  u1 = u1
  u2 = u2
  Units = {u1, u2}
  Kind <- AllKinds
  UnitSeq <- SharedUnits
  Method <- Methods
  Operators <- Meddling
INVARIANTS TypeOK NilMeansFresh
PROPERTIES ImplementsNotify CancelEnds
