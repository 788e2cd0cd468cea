SPECIFICATION Spec
CONSTANTS
  Emails = {"e1", "e2", "e3"}
  Usernames = {"n1", "n2"}
  Passwords = {"p1", "p2"}
  Pictures = {"a1"}
  NoPicture = "a0"
  NONE = NONE
  FirstUsers <- MCFirstUsers
  FirstFiles <- MCFirstFiles
  Registrations <- MCRegistrations
  Handlers = {h1, h2}
  MaxRequests = 4
  MaxTime = 2
INVARIANTS
  TypeOK
  AccountsWhole
  SessionsAgree
  PicturesKept
SYMMETRY Symmetry
CHECK_DEADLOCK FALSE
