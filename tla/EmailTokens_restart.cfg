SPECIFICATION Spec
CONSTANTS
  e1 = e1  e2 = e2  h1 = h1  h2 = h2
  Emails = {e1}
  Handlers = {h1}
  Minute = 1
  Hour = 2
  RepeatAllowed = FALSE
  MailMayFail = FALSE
  RepeatOnce = TRUE
  MaxTokens = 3
  MaxTime = 4
SYMMETRY Symmetry
INVARIANTS NoneLate
CHECK_DEADLOCK FALSE
