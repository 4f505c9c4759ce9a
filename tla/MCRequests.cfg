\* Two calls to either source; answers that are whole, or lack one thing each.
SPECIFICATION FairSpec
CONSTANTS
  Calls = 2
  Sources = {"pki", "letsencrypt"}
  MaxPending = 2
  a = a
  Omitted = Omitted
  AltNames <- NoNamesAndOne
  Bundles <- SomeBundles
  PkiShapes <- PkiAnswers
  LeShapes <- LeAnswers
CHECK_DEADLOCK FALSE
INVARIANTS TypeOK OmittedIssuesOnce
PROPERTIES ImplementsIssuing FetchReturns
