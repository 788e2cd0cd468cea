SPECIFICATION Spec
CONSTANTS
  e1 = e1  e2 = e2  h1 = h1  h2 = h2
  Emails = {e1}
  Handlers = {h1, h2}
  Minute = 1
  Hour = 2
  RepeatAllowed = TRUE
  MailMayFail = TRUE
  RepeatOnce = TRUE
  MaxTokens = 2
  MaxTime = 3
SYMMETRY Symmetry
INVARIANTS TypeOK LinkDies OneLink OneUse
PROPERTIES LinkLives RateLimit
CHECK_DEADLOCK FALSE
