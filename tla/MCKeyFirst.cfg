\* A bundle that starts with its key is accepted: violates AcceptedHasLeaf.
SPECIFICATION Spec
CONSTANTS
  NoFile <- MCNoFile
  Issuer = Issuer
  Den = 4
  Default = 1
  CertNames = {"n1", "n2"}
  Places = {"dir"}
  FileNames = {"f1", "f2"}
  Templates <- MCTemplates
  MaxEdits = 3
INVARIANTS AcceptedHasLeaf
