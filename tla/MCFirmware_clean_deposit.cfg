CONSTANTS
  NoOp = NoOp
  Ops = {o1}
  Slots = {1, 2}
  Loads = {18}
  MaxRoutes = 1
SPECIFICATION Spec
INVARIANTS
  CleanDepositAccepted
