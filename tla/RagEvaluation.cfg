SPECIFICATION FairEvaluationSpec
CONSTANTS
  NRecords = 2
  MaxTokens = 2
  ReferenceSets <- MCReferenceSets
INVARIANTS RowsSayWhatWasStreamed ReadersAgree SummaryAddsUp
PROPERTIES EvaluationEnds
CHECK_DEADLOCK FALSE
