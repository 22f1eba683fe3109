\* One query with three optimizations over two plans and two results.
CONSTANTS
  p1 = p1
  p2 = p2
  h1 = h1
  h2 = h2
  NumQueries = 1
  MaxOpts = 3
  Plans <- MCPlans
  Hashes <- MCHashes
  Times = {900, 2500}
  TestTimeout = 2
  Delta = 1
  Configs <- MCMeasuring
  Kinds <- MCPlain
SYMMETRY MCSymmetry
SPECIFICATION Spec
INVARIANTS
  MinIsMinimum
  CurrentLimit
  OncePerPlan
  DiscrepancyFails
