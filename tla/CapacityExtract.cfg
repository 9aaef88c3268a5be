CONSTANTS
  s1 = s1
  a = a
  Missing = Missing
  Grids <- MCGrids
  Seps <- MCSeps
  Sers <- MCSers
  Periods <- MCPeriods
  Positions <- MCPositions
  Values <- MCValues
  Threshold = 2
  DelayThreshold = 2
SPECIFICATION Spec
INVARIANT TypeOK
INVARIANT PlotShowsCapacity
CHECK_DEADLOCK FALSE
