\* alt_names are taken out of the config of a Let's Encrypt cert.
SPECIFICATION Spec
CONSTANTS
  NoFile <- MCNoFile
  Issuer = Issuer
  NoIssue = NoIssue
  N = 1
  Configs <- Dropping
  Ids = {i1, i2, i3}
  Names = {"host", "alt"}
  Chain <- MCChain
  Ttl = 4
  ServeMin = 3
  Num = 1
  Den = 2
  Interval = 1
  RunMax = 0
  Reliable = {1}
  MaxBad = 1
  Manual = {}
  OtherPerms = {"key"}
INVARIANT NamesServed
