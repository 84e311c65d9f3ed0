\* Two runs with the same names, in modes that may meet, and a vector store and a
\* connector that exist already; with another run's, a name can be ambiguous.
CONSTANTS
  Runs = {r1, r2}
  Old = {o1}
  None = None
  Modes <- MixedModes
SPECIFICATION Spec
SYMMETRY Symmetry
INVARIANTS
  ConnectorRestsOnReadyResources
PROPERTIES
  HandedOutConnectorIsLive
  LookupAgreesWithPreflight
CHECK_DEADLOCK FALSE
