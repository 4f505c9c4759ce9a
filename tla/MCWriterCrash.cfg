\* One agent; power losses, kills, failing calls and meddling actors.
SPECIFICATION Spec
CONSTANTS
  Procs = {a1}
  NoFile <- MCNoFile
  Issuer = Issuer
  i1 = i1
  i2 = i2
  Configs <- OnePair
  Materials <- TwoIssues
  TempPerms <- MCTempPerms
  ForeignPerms <- MCForeignPerms
  Torn <- MCTorn
  MaxFaults = 2
INVARIANTS TypeOK WriteApplied ChangedIsTruthful TempAccounted
PROPERTY ImplementsAtomicFiles
