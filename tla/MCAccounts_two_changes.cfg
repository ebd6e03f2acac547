\* One account whose password may be changed on both threads at once.
CONSTANTS
  root = root
  ann = ann
  Users = {root}
  Founders = {root}
  Email <- OwnEmail
  Passwords = {p0, p1, p2}
  Initial = p0
  Links = {}
  Jtis = {j1, j2}
  None = None
  VerifyFirst = FALSE
  Visitors = {web1}
  Changers = {web1, web2}
  Managers = {}
  MaxVersion = 1
SPECIFICATION Spec
SYMMETRY TokenSymmetry
INVARIANTS
  EveryTokenDies
