SPECIFICATION MCSpec
CONSTANTS
    lead = lead  dev = dev  ops = ops  m1 = m1  m2 = m2  m3 = m3
    b = b  h1 = h1  h2 = h2
    Member = {lead, dev, ops}
    Msg = {m1, m2, m3}
    To <- MCTo
    Reader = {r1, b}
    Inbox <- MCInbox
    Broker = {b}
    Housekeeper = {h1}
    Sends <- MCSends
    NoToken = NoToken  Absent = Absent  NoCopy = NoCopy
    Batch = 2
    MaxAttempts = 2
    MaxSummary = 1
    MaxLate = 1
    MaxCrashes = 1
    Tailer = {t1, t2}
    MaxLines = 4
    x = x  y = y  z = z
    Teammate = {x, y, z}
    Custom = {z}
    Initial = {x, z}
    Busy = {}
    Agent = {a1, a2, a3, a4}
    Tick = {1, 2}
    Editor = {e1}
    NoTeammate = NoTeammate  NoAgent = NoAgent
    MaxTeammates = 2
    MaxSpawnsPerMinute = 2
    MaxEdits = 2
INVARIANTS NothingLost NoEventSkipped TeamSafe
PROPERTIES MCSettles
CHECK_DEADLOCK FALSE
