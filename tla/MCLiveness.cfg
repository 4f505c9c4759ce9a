\* Fairness: runs end, and lost reloads are made up for.
SPECIFICATION FairSpec
CONSTANTS
  NoFile <- MCNoFile
  Issuer = Issuer
  NoIssue = NoIssue
  N = 1
  Configs <- OneBundle
  Ids = {i1, i2, i3}
  Names = {"host", "alt"}
  Chain <- MCChain
  Ttl = 4
  ServeMin = 3
  Num = 1
  Den = 2
  Interval = 1
  RunMax = 0
  Reliable = {1}
  MaxBad = 1
  Manual = {"force"}
  OtherPerms = {"key"}
PROPERTIES RunEnds StaleIsReloaded
