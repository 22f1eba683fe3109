\* Queries of no to four tables, at, below and above the default threshold 3.
CONSTANTS
  Queries <- MCQueries
  Thresholds <- MCThresholds
  Gucs = {"g1", "g2"}
SPECIFICATION Spec
INVARIANTS
  HintsComplete
  TipsObeyed
  GucStaysWithCopy
