\* Each part on its own.  The token ids are interchangeable.
CONSTANTS
  root = root
  ann = ann
  l1 = l1
  j1 = j1
  j2 = j2
  None = None
  web1 = web1
  web2 = web2
  phone = phone
  Nobody = Nobody
  Users = {root, ann}
  Founders = {root}
  Email <- OwnEmail
  Passwords = {p0, p1}
  Initial = p0
  Links = {l1}
  Jtis = {j1, j2}
  VerifyFirst = FALSE
  Visitors = {web1, web2}
  Changers = {web1, web2}
  Managers = {web1, web2}
  MaxVersion = 1
  Threads = {web1, web2, phone}
  LastDay = 1
  MaxPerDay = 3
  Keys = {phone}
  Callers = {web1, web2}
  Limit = 2
  Window = 2
  Lag = 1
  EndOfTime = 6
  Faculties = {law, arts}
  Names = {n1, n2}
  Students = {ann}
  Items = {bin, cup}
  Stations = {bin}
  Shipped = {cup}
  First = bin
  Nil = Nil
  Editors = {web1}
  Clerks = {web2}
  MaxPoints = 1
  Population = {ann, root}
  Legacy = {old, law}
  Canonical = {eng, arts}
  Engineering = eng
  OldEngineering = old
  Releases = {v1, v2}
  Frames <- TypicalFrames
  Slots = {web1, web2}
  NoRelease = NoRelease
  MaxWrites = 2
  Images = {a1, a2, b1, c1, d1}
  Pilot = {a1, a2}
  Session <- SessionOf
  Class <- LabelOf
  NoImage = NoImage
  MaxRuns = 2
  law = law
  arts = arts
  n1 = n1
  n2 = n2
  bin = bin
  cup = cup
  eng = eng
  old = old
  v1 = v1
  v2 = v2
  a1 = a1
  a2 = a2
  b1 = b1
  c1 = c1
  d1 = d1
  s1 = s1
  s2 = s2
  s3 = s3
  s4 = s4
  plastic = plastic
  metal = metal
SPECIFICATION MCSpec
SYMMETRY TokenSymmetry
INVARIANTS
  OldPasswordDies
  LinkSpentOnce
  WindowBound
  MintedDense
  NoOrphans
  UpgradeWorks
  FacultyKept
  TestSetUnseen
  SplitCovers
  GatedAndHonest
  OwnPreprocessing
PROPERTIES
  AdminRemains
  LogoutHolds
  HistoryKept
CHECK_DEADLOCK FALSE
