\* A spoken question is sent while a typed one is answered.
SPECIFICATION ChatSpec
CONSTANTS
  MaxRequests = 3
  MaxResets = 1
  MaxRecordings = 1
  Kinds = {"text", "audio"}
  Jwt = FALSE
INVARIANT NewConversationIsNew
CHECK_DEADLOCK FALSE
