\* Four models, every choice of steps, with and without exit-on-fail.
CONSTANTS
  Scripts <- MCScripts
  Configs <- MCConfigs
SPECIFICATION Spec
INVARIANTS
  NoStatementLost
  RecordsFollowTheFile
  CatalogRead
  EndsAsAgreed
PROPERTY
  Termination
