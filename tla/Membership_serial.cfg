SPECIFICATION Spec
CONSTANTS
  s1 = s1  s2 = s2  s3 = s3  g1 = g1  g2 = g2  h1 = h1  h2 = h2
  NoStudent = NoStudent  NoGroup = NoGroup
  Students = {s1, s2, s3}
  Groups = {g1, g2}
  Handlers = {h1}
  Ops = {"register", "pseudo", "claim", "verifyUser", "verifyGroup", "switch", "captain",
         "remove", "leave", "change", "request", "delete"}
  SwitchNames = {"MODERATOR", "STUDENT"}
  PendingOnly = TRUE
  MessageMayFail = TRUE
SYMMETRY Symmetry
INVARIANTS OrderKept
CHECK_DEADLOCK FALSE
