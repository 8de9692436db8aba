SPECIFICATION FairVTSpec
CONSTANTS
  Scans = {short, rescan}
  Bounded = {short}
  MinPositives = 2
  Positives <- MCPositives
INVARIANT VTTypeOK
INVARIANT VerdictIsVirusTotals
PROPERTY LateVerdictIsDropped
PROPERTY AnswersOnce
PROPERTY ScanReturns
CHECK_DEADLOCK FALSE
