CONSTANTS
  PickTimeout = 3
  MaxPresses = 5
SPECIFICATION Spec
INVARIANTS TypeOK EveryUpCounts InstallConsistent
PROPERTIES ConfirmsAimed InstallEnds
