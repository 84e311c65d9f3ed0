\* Two runs over two documents of one file name and an object that is no PDF.
SPECIFICATION FairSpec
CONSTANTS
  Objects <- MCObjects
  Ineligible = {3}
  FileName <- MCFileName
  MaxPage = 3
  MaxPagesPerPdf = 2
  MaxPdfs = 2
  MaxAttempts = 2
  MaxScore = 1
  MaxRuns = 2
INVARIANTS
  OneRecordPerPage
  NewExamplesArrive
  SummaryIsTrue
  WithinLimits
PROPERTIES
  ExistingRecordsAreKept
  RunEnds
CHECK_DEADLOCK FALSE
