\* Two queries under any options, one optimization each, of any kind that makes
\* a difference with one plan and one result.
CONSTANTS
  p1 = p1
  p2 = p2
  h1 = h1
  h2 = h2
  NumQueries = 2
  MaxOpts = 1
  Plans = {p1}
  Hashes = {h1}
  Times = {900}
  TestTimeout = 2
  Delta = 1
  Configs <- MCConfigs
  Kinds <- MCKinds
SPECIFICATION Spec
INVARIANTS
  TypeOK
  CleanStart
  NothingElseStopsTheRun
PROPERTY
  Termination
