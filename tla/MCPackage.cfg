\* The single-instance timer and two templated ones.
SPECIFICATION Spec
CONSTANTS
  Main = main
  Instances = {i1, i2}
INVARIANTS TypeOK WillKept NoOrphans
