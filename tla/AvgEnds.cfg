\* Ends and averages, on calls that measure on the server and in the client, with an
\* iteration that only warms up.
CONSTANTS
  ThresholdPct = 100
  MinMedian = 500
  NumRetries = 4
  NumWarmup = 2
  MaxAdditional = 3
  Times = {600, 2000}
  Modes <- MCFewModes
SPECIFICATION Spec
INVARIANT SomethingToAverage
PROPERTY Termination
