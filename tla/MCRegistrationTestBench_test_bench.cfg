SPECIFICATION Spec
CONSTANTS
  Submaps <- MCSubmaps
  Ids <- MCIds
  DuplicateId = 99
  Ranges <- MCRanges
  Solutions <- MCSolutions
INVARIANTS
  TypeOK
  TrialsAreIndependent
  LogIsComplete
  EveryCombinationTried
  RowsDescribeSubmap
PROPERTIES
  RunsToItsEnd
\* The bench ends at Ctrl-C.
CHECK_DEADLOCK FALSE
