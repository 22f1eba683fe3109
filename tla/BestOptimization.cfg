\* Up to four optimizations; 5 percent is the delta of config/default.conf.
CONSTANTS
  MaxOpts = 4
  Times <- MCTimes
  Infinity = 99999999
  DeltaPct = 5
SPECIFICATION Spec
INVARIANTS
  BestIsFastest
  OnlyRealGains
