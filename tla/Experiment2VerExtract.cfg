CONSTANTS
  p1 = p1
  p2 = p2
  f1 = f1
  f2 = f2
  f3 = f3
  f4 = f4
  Absent = Absent
  Malformed = Malformed
  Unread = Unread
  Points <- MCPoints
  FilesOf <- MCFilesOf
  SampleSet <- MCSampleSet
  ReaderMayFail = TRUE
SPECIFICATION Spec
INVARIANT TypeOK
INVARIANT RowIsFoldOfFiles
SYMMETRY FileSymmetry
CHECK_DEADLOCK FALSE
