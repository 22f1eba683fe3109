\* Every option; up to two tables to compact.
CONSTANT
  MaxTables = 2
SPECIFICATION Spec
INVARIANTS
  ExitCodeTells
  ResultsOutliveCleanup
  CleanedUp
  CompactedBeforeMeasured
