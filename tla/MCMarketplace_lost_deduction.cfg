\* A redemption commits while the MQTT thread awards a deposit.
CONSTANTS
  u1 = u1
  web2 = web2
  code = code
  Users = {u1}
  Ops = {o1, o2}
  NoOp = NoOp
  Owner <- OneOwner
  Positions = {1}
  PolicyPoints <- OnePointEach
  LivePhases = {}
  BonusPosition = 1
  BonusTarget = 1
  BonusPoints = 1
  Creators = {web1}
  Capturers = {}
  Cancellers = {}
  Telemetry = {}
  Completers = {mq}
  Keys = {k1}
  NoKey = NoKey
  KeyOwner <- KeysOfOne
  Rewards = {code}
  NoReward = NoReward
  Cash = {}
  Null = Null
  Stocks = {}
  Shelf <- TwoUnits
  Price <- TwoPointPrice
  Prices = {}
  Free = Free
  Students = {web1}
  Admins = {}
SPECIFICATION MCSpec
SYMMETRY MarketSymmetry
INVARIANTS
  JointLedger
