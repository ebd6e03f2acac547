\* Two routed sessions of one student: web1 serves the HTTP handlers, mq the
\* telemetry, and both complete deposits, as the callback endpoint and the MQTT
\* thread do.
CONSTANTS
  u1 = u1
  web2 = web2
  Scenes = {"closings"}
  Ops = {o1, o2}
  NoOp = NoOp
  Users = {u1}
  Owner <- SameOwner
  Positions = {1, 2}
  PolicyPoints <- SeedPolicy
  LivePhases = {"routing", "measuring"}
  BonusPosition = 1
  BonusTarget = 2
  BonusPoints = 3
  Creators = {web1}
  Capturers = {}
  Cancellers = {web1}
  Telemetry = {mq}
  Completers = {mq, web1}
SPECIFICATION MCSpec
SYMMETRY OpSymmetry
PROPERTIES
  LedgerMoves
