SPECIFICATION Spec
CONSTANTS
  u1 = u1  u2 = u2  u3 = u3  h1 = h1  h2 = h2
  Queues = {1}
  Users = {u1, u2, u3}
  Handlers = {h1}
  Telegram = {u1, u2, u3}
  NewPositions <- Asked
  NewStatuses <- AllStatuses
  MaxNotify = 2
  SendMayFail = TRUE
  MaxCode = 3
  MaxRows = 3
  MaxVersion = 0
  MaxRestarts = 2
SYMMETRY Symmetry
INVARIANTS OnePosition NoticeAgrees
PROPERTIES LineKept
CHECK_DEADLOCK FALSE
