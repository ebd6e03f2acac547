\* Two student threads and up to two admins over two keys, a code and a cash
\* payout: a redemption and a refund of the same student lock the reward and the
\* balance in opposite orders, while the admins reprice, set and lift limits,
\* move a reward between the categories and decide on payouts.
CONSTANTS
  u1 = u1
  cash = cash
  code = code
  web2 = web2
  adm2 = adm2
  Users = {u1}
  Keys = {k1, k2}
  KeyOwner <- OneOwner
  Rewards = {cash, code}
  NoReward = NoReward
  Cash = {cash}
  Null = Null
  Stocks = {1, Null}
  Balances = {0, 1}
  Opening <- TwoPoints
  Shelf <- OneUnit
  Price <- SeedPrice
  Prices = {1}
  NoKey = NoKey
  Free = Free
  Students = {web1, web2}
  Admins = {adm1, adm2}
SPECIFICATION MCSpec
INVARIANTS
  NeverNegative
PROPERTIES
  ResourcesConserved
  KeepsContract
  CodeSettledOnce
  RequestEnds
