\* Two certs: the first may fail for ever, the second is promised its renewals.
SPECIFICATION Spec
CONSTANTS
  NoFile <- MCNoFile
  Issuer = Issuer
  NoIssue = NoIssue
  N = 2
  Configs <- Fleet
  Ids = {i1, i2, i3, i4}
  Names = {"host", "alt", "www"}
  Chain <- MCChain
  Ttl = 4
  ServeMin = 3
  Num = 1
  Den = 2
  Interval = 1
  RunMax = 0
  Reliable = {2}
  MaxBad = 1
  Manual = {}
  OtherPerms = {"key"}
SYMMETRY AnyNames
INVARIANTS ServedLeafValid QuietIsSound NamesServed
