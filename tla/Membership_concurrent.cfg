SPECIFICATION Spec
CONSTANTS
  s1 = s1  s2 = s2  s3 = s3  g1 = g1  g2 = g2  h1 = h1  h2 = h2
  NoStudent = NoStudent  NoGroup = NoGroup
  Students = {s1, s2}
  Groups = {g1, g2}
  Handlers = {h1, h2}
  Ops = {"pseudo", "claim", "switch", "captain", "remove", "change", "delete"}
  SwitchNames = {"MODERATOR"}
  PendingOnly = TRUE
  MessageMayFail = FALSE
SYMMETRY Symmetry
INVARIANTS TypeOK NoOrphans OneRole
PROPERTY CaptainsStay
CHECK_DEADLOCK FALSE
