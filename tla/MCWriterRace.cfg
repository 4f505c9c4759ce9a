\* Two agents writing the same paths at the same time, before and after an edit of
\* the config's perms, nothing failing but calls.
SPECIFICATION Spec
CONSTANTS
  Procs = {a1, a2}
  NoFile <- MCNoFile
  Issuer = Issuer
  i1 = i1
  i2 = i2
  Configs <- EditedPair
  Materials <- TwoIssues
  TempPerms <- MCTempPerms
  ForeignPerms <- MCForeignPerms
  Torn <- MCTorn
  MaxFaults = 0
SYMMETRY AnyAgents
INVARIANTS EveryChangeReported PermsSettle
PROPERTY ImplementsAtomicFiles
