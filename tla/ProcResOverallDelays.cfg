CONSTANTS
  f1 = f1
  f2 = f2
  f3 = f3
  f4 = f4
  n0 = n0
  n1 = n1
  n2 = n2
  v1 = v1
  v2 = v2
  s1 = s1
  Files <- MCFiles
  DensityOf <- MCDensityOf
  TracesOf <- MCTracesOf
  START_TIME = 0
  END_TIME = 4
  TargetSplit = 2
  TargetLow = n1
  TargetHigh = n2
  GridWidth = 1
SPECIFICATION Spec
CHECK_DEADLOCK FALSE
INVARIANT OverallKeepsEveryVariable
