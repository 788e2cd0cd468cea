SPECIFICATION Spec
CONSTANTS
  u1 = u1  u2 = u2  u3 = u3  h1 = h1  h2 = h2
  Queues = {1}
  Users = {u1, u2}
  Handlers = {h1, h2}
  Telegram = {u1, u2}
  NewPositions <- AskedNegative
  NewStatuses <- GoingOnly
  MaxNotify = 1
  SendMayFail = FALSE
  MaxCode = 2
  MaxRows = 3
  MaxVersion = 1
  MaxRestarts = 1
SYMMETRY Symmetry
INVARIANTS TypeOK CodesUnique CalledOnce
CHECK_DEADLOCK FALSE
