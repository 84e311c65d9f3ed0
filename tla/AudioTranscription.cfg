SPECIFICATION FairSpec
CONSTANTS
  r1 = r1
  r2 = r2
  r3 = r3
  a1 = a1
  a2 = a2
  Requests = {r1, r2, r3}
  Nobody = Nobody
  Agents = {a1, a2}
  AgentOf <- MCAgentOf
  MaxPolls = 2
  Locations = {"names", "prefix", "bare"}
INVARIANTS TranscriptIsOwn AnswersFitTheJob
PROPERTIES RequestsAreAnswered
CHECK_DEADLOCK FALSE
