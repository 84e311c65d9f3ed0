\* Three steps: one before, one at and one after the step at work.
CONSTANTS
  N = 3
  Requests = {q1}
SPECIFICATION Spec
INVARIANTS
  TerminalAnswerIsExact
  TerminalAnswerIsComplete
\* The run ends and every request is answered.
CHECK_DEADLOCK FALSE
