\* Typed questions without tokens: one request at a time.
SPECIFICATION ChatSpec
CONSTANTS
  MaxRequests = 4
  MaxResets = 3
  MaxRecordings = 0
  Kinds = {"text"}
  Jwt = FALSE
INVARIANTS
  NewConversationIsNew
PROPERTY OneConversationAtATime
CHECK_DEADLOCK FALSE
