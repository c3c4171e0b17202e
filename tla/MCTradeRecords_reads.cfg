SPECIFICATION Spec
CONSTANTS
  MaxPairs = 2
  MaxReports = 2
INVARIANT RecordsTrue
