\* Does every discrepancy reach the user?
CONSTANTS
  p1 = p1
  p2 = p2
  h1 = h1
  h2 = h2
  NumQueries = 1
  MaxOpts = 2
  Plans <- MCPlans
  Hashes <- MCHashes
  Times = {900}
  TestTimeout = 2
  Delta = 1
  Configs <- MCMeasuring
  Kinds <- MCPlain
SPECIFICATION Spec
INVARIANT DiscrepancyReported
