CONSTANTS
  t1 = t1
  t2 = t2
  p1 = p1
  None = None
  Threads = {t1, t2}
  Pages = {p1}
  Emails <- OneEmail
  Lower <- Lower1
  Username <- Lower1
  PageEmail <- PageEmail1
  Entries <- Entries8
  Passwords = {"pw"}
  Weak = {}
  Challenged = {}
  PagePasswords <- PagePasswordsAll
  Codes <- MCCodes
  Texts <- MCTexts
  Strip <- MCStrip
  NonAscii = {}
  TTL = 0
  MaxAttempts = 5
  MaxPrompts = 3
  Local = TRUE
  MaxFaults = 2
  MaxSlips = 3
  MaxNow = 1
SPECIFICATION FairSpec
INVARIANTS TypeOK NeverUsedUp ConfirmedSignsIn
PROPERTIES GetsIn
CHECK_DEADLOCK FALSE
