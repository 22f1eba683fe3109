\* The documented shape of a call: one warm-up, five measured runs, at most
\* five reruns.  500 is the median from which outliers are looked for; 2000
\* is one against 600 and 700, 200 is not.
CONSTANTS
  ThresholdPct = 100
  MinMedian = 500
  NumRetries = 5
  NumWarmup = 1
  MaxAdditional = 5
  Times = {200, 600, 700, 2000}
  Modes <- MCModes
SPECIFICATION Spec
INVARIANT TimedUnderTimeout
