\* Awards on the MQTT thread and over the HTTP callback, redemptions of codes on
\* the two request threads; or payouts that two admins decide on.
CONSTANTS
  u1 = u1
  web2 = web2
  code = code
  Users = {u1}
  Ops = {o1, o2}
  NoOp = NoOp
  Owner <- OneOwner
  Positions = {1}
  PolicyPoints <- OnePointEach
  LivePhases = {}
  BonusPosition = 1
  BonusTarget = 1
  BonusPoints = 1
  Creators = {web1}
  Capturers = {}
  Cancellers = {}
  Telemetry = {}
  Completers = {mq, web1}
  Keys = {k1, k2}
  NoKey = NoKey
  KeyOwner <- KeysOfOne
  Rewards = {code, cash}
  NoReward = NoReward
  Cash = {cash}
  Null = Null
  Stocks = {}
  Shelf <- TwoUnits
  Price <- TwoPointPrice
  Prices = {}
  Free = Free
  Students = {web1, web2}
  Admins = {adm1, adm2}
SPECIFICATION MCSpec
SYMMETRY MarketSymmetry
INVARIANTS
  NeverOverdrawn
  NoPointsFromNothing
