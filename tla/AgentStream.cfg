SPECIFICATION Spec
CONSTANTS
  MaxTokens = 3
  MaxOthers = 3
INVARIANTS
  NamelessFramesAreUnderstood
PROPERTIES
  InContractOrder
