\* Typed and spoken questions with tokens: requests overlap.
SPECIFICATION FairChatSpec
CONSTANTS
  MaxRequests = 2
  MaxResets = 1
  MaxRecordings = 2
  Kinds = {"text", "audio"}
  Jwt = TRUE
INVARIANTS
  RecordingCanBeStopped
  StreamingAnswersAreRead
  BusyForARequest
PROPERTY StreamingModeEnds
CHECK_DEADLOCK FALSE
