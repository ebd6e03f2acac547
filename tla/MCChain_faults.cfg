\* One operation, two plans of any scenario, one dropped link or restart.
CONSTANTS
  Ops = {o1}
  NoJob = NoJob
  Slots = {1, 2, 3}
  Scenarios = {"valid-plastic", "wrong-position", "underweight", "jam", "duplicate"}
  MaxRuns = 2
  MaxFaults = 1
SPECIFICATION ChainSpec
INVARIANTS
  OutcomeDelivered
PROPERTIES
  KeepsContract
  SessionDecided
  LiveViewCatchesUp
