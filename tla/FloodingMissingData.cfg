CONSTANTS
  f1 = f1
  f2 = f2
  f3 = f3
  f4 = f4
  f5 = f5
  f6 = f6
  p1 = p1
  p2 = p2
  p3 = p3
  p4 = p4
  Absent = Absent
  NoColumns = NoColumns
  Malformed = Malformed
  Unread = Unread
  node_cnt_x <- MCnode_cnt_x
  Points <- MCPoints
  Params <- MCParams
  PlotSeps <- MCPlotSeps
  PlotReps <- MCPlotReps
  PlotGrids <- MCPlotGrids
  FilesOf <- MCFilesOf
  NodeStats <- MCNodeStatsShort
  ReaderMayFail = FALSE
SPECIFICATION Spec
INVARIANT SweepNeverAborts
CHECK_DEADLOCK FALSE
