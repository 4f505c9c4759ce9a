\* A Let's Encrypt cert whose alt_names repeat the fqdn.
SPECIFICATION Spec
CONSTANTS
  NoFile <- MCNoFile
  Issuer = Issuer
  NoIssue = NoIssue
  N = 1
  Configs <- FqdnListed
  Ids = {i1, i2, i3}
  Names = {"host", "alt"}
  Chain <- MCChain
  Ttl = 4
  ServeMin = 3
  Num = 1
  Den = 2
  Interval = 1
  RunMax = 0
  Reliable = {1}
  MaxBad = 1
  Manual = {}
  OtherPerms = {"key"}
INVARIANT SettledIsSkipped
