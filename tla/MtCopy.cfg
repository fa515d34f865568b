SPECIFICATION Spec
CONSTANTS
  FileSizes = {1, 5, 8}
  OldSizes = {0, 9}
  ThreadCounts = {1, 2, 3, 6}
  MaxFaults = 1
INVARIANTS SegmentsKept Copied
PROPERTIES Terminates
CHECK_DEADLOCK FALSE
