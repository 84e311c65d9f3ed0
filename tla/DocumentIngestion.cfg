\* Two submissions and a run of the loader, which share an object.
CONSTANTS
  Requests = {r1, r2}
  Loaders = {l1}
  Objects = {a, b}
  a = a
  b = b
  Unsupported = Unsupported
  None = None
  Old = Old
  MaxFiles = 2
  Plans <- SmallPlans
SPECIFICATION Spec
INVARIANTS
  JobsAreComplete
  ExistingObjectsAreKept
  AnswersAccountForObjects
  SummariesAddUp
PROPERTY ImplementsContract
\* Every task comes to its end.
CHECK_DEADLOCK FALSE
