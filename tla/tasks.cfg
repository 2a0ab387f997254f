SPECIFICATION MCSpec
CONSTANTS
  t1 = t1  t2 = t2  m1 = m1  m2 = m2  r1 = r1  h1 = h1
  NoTask = NoTask  NoMember = NoMember  Absent = Absent
  Task = {t1, t2}
  Member = {m1, m2}
  Resident = {r1}
  Housekeeper = {h1}
  Deps <- MCDeps
  Assigned <- MCUnassigned
  Supersedable = {t1}
  Oversized = {}
  TimePasses = TRUE
  MaxCalls = 4
  MaxCrashes = 1
INVARIANTS FirstClaimExclusive NoPrematureClaim
PROPERTIES MCSettles
CHECK_DEADLOCK FALSE
