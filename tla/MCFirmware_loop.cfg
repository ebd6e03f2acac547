CONSTANTS
  NoOp = NoOp
  Ops = {o1, o2}
  Slots = {1, 2}
  Loads = {2, 18}
  MaxRoutes = 2
SPECIFICATION FairSpec
INVARIANTS
  StationInv
  ConfirmedWasWeighed
PROPERTIES
  KeepsContract
  RouteEnds
