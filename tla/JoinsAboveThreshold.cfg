\* A query of four tables under the default threshold.
CONSTANTS
  Queries <- MCFourTables
  Thresholds <- MCDefaultThreshold
  Gucs = {}
SPECIFICATION Spec
INVARIANT JoinsAboveThreshold
