SPECIFICATION PlainSpec
CONSTANTS
  t1 = t1  t2 = t2  m1 = m1  m2 = m2  r1 = r1  h1 = h1
  NoTask = NoTask  NoMember = NoMember  Absent = Absent
  Task = {t1, t2}
  Member = {m1, m2}
  Resident = {r1}
  Housekeeper = {}
  Deps <- MCDeps
  Assigned <- MCUnassigned
  Supersedable = {}
  Oversized = {}
  TimePasses = FALSE
  MaxCalls = 5
  MaxCrashes = 0
INVARIANTS ExclusiveClaim
CHECK_DEADLOCK FALSE
