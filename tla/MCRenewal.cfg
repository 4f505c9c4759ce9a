\* One PKI cert over many renewals: time, failures, kills, config changes.
SPECIFICATION Spec
CONSTANTS
  NoFile <- MCNoFile
  Issuer = Issuer
  NoIssue = NoIssue
  N = 1
  Configs <- OneCert
  Ids = {i1, i2, i3}
  Names = {"host", "alt"}
  Chain <- MCChain
  Ttl = 10
  ServeMin = 10
  Num = 1
  Den = 2
  Interval = 2
  RunMax = 1
  Reliable = {1}
  MaxBad = 1
  Manual = {"force", "dry"}
  OtherPerms = {"pub"}
SYMMETRY AnyNames
INVARIANTS TypeOK ServedLeafValid QuietIsSound ReloadSeesWholeSet SettledIsSkipped
