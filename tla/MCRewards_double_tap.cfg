\* A double tap: two threads carry the one request of the one key.
CONSTANTS
  u1 = u1
  cash = cash
  code = code
  web2 = web2
  adm2 = adm2
  Users = {u1}
  Keys = {k1}
  KeyOwner <- OneOwner
  Rewards = {cash, code}
  NoReward = NoReward
  Cash = {cash}
  Null = Null
  Stocks = {}
  Balances = {}
  Opening <- OnePoint
  Shelf <- OneUnit
  Price <- SeedPrice
  Prices = {}
  NoKey = NoKey
  Free = Free
  Students = {web1, web2}
  Admins = {}
SPECIFICATION MCSpec
PROPERTIES
  RetryReturnsOriginal
