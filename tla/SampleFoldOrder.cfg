CONSTANTS
  Avgs <- MCAvgs
  Stddevs <- MCStddevs
  Cnts <- MCCnts
  MaxLen = 3
SPECIFICATION Spec
INVARIANT FoldOrderIndependent
CHECK_DEADLOCK FALSE
