SPECIFICATION Spec
CONSTANTS
  Workers = {w1, w2}
  Total = 9
  PerWindow = 5
  Tracks = 2
  Modes <- Returning
INVARIANT ReportComplete
