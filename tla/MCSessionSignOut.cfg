SPECIFICATION Spec
CONSTANTS
  Accounts = {a1, a2}
  Threads = {t1, t2}
  None = None
  MaxTokens = 2
  MaxGen = 4
PROPERTIES SignOutEndsItsOwnSignIn
CHECK_DEADLOCK FALSE
