CONSTANTS
  Avgs <- MCAvgs
  Stddevs <- MCStddevs
  Cnts <- MCCnts
  MaxLen = 3
SPECIFICATION Spec
INVARIANT TypeOK
INVARIANT FoldIsPooledCountAndMean
INVARIANT FoldVarianceNeverBelowPooled
CHECK_DEADLOCK FALSE
