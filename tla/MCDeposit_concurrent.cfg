\* One session under the deployed threads: mq is the MQTT callback thread, web1
\* and web2 are HTTP workers that both take uploads, and the callback endpoint
\* completes on web2.
CONSTANTS
  u1 = u1
  web2 = web2
  Scenes = {"uploads", "closings"}
  Ops = {o1}
  NoOp = NoOp
  Users = {u1}
  Owner <- SameOwner
  Positions = {1, 4}
  PolicyPoints <- SeedPolicy
  LivePhases = {"routing", "measuring"}
  BonusPosition = 1
  BonusTarget = 2
  BonusPoints = 3
  Creators = {web1}
  Capturers = {web1, web2}
  Cancellers = {web2}
  Telemetry = {mq}
  Completers = {mq, web2}
SPECIFICATION MCSpec
INVARIANTS
  VerdictBacked
  RoutedAfterCommit
PROPERTIES
  OneVerdict
  AwardMatchesPolicy
  ConfirmedStands
