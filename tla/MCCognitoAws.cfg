CONSTANTS
  e1 = e1
  e2 = e2
  t1 = t1
  t2 = t2
  None = None
  Threads <- MCThreads
  Entries <- MCEntries
  Emails <- MCEmails
  Lower <- MCLower
  Username <- MCFolded
  Codes <- MCCodes
  Texts <- MCTexts
  Strip <- MCStrip
  NonAscii <- MCNonAscii
  Passwords <- MCPasswords
  Weak <- MCWeak
  Challenged <- MCChallenged
  TTL = 0
  MaxAttempts = 1
  MaxNow = 1
  MaxFaults = 2
  Local = FALSE
SPECIFICATION Spec
SYMMETRY Symmetry
INVARIANTS OkMeansConfirmed NoCodeOfAws
