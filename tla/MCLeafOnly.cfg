\* A fullchain slot fed by a source that returns the leaf alone.
SPECIFICATION Spec
CONSTANTS
  NoFile <- MCNoFile
  Issuer = Issuer
  NoIssue = NoIssue
  N = 1
  Configs <- LeFull
  Ids = {i1, i2, i3}
  Names = {"host", "alt"}
  Chain <- LeafOnly
  Ttl = 4
  ServeMin = 3
  Num = 1
  Den = 2
  Interval = 1
  RunMax = 0
  Reliable = {1}
  MaxBad = 1
  Manual = {}
  OtherPerms = {"pub", "key"}
INVARIANT SettledIsSkipped
