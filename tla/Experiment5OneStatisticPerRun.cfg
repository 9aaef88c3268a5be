CONSTANTS
  f1 = f1
  f2 = f2
  f3 = f3
  f4 = f4
  Absent = Absent
  NoColumns = NoColumns
  Malformed = Malformed
  Unread = Unread
  node_cnt_x <- MCnode_cnt_x
  Points <- MCPoints
  FilesOf <- MCFilesOf
  NodeStats <- MCNodeStats
  ReaderMayFail = FALSE
SPECIFICATION Spec
SYMMETRY FileSymmetry
INVARIANT OneStatisticPerRun
CHECK_DEADLOCK FALSE
