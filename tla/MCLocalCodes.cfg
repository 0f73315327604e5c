CONSTANTS
  e1 = e1
  e2 = e2
  e3 = e3
  t1 = t1
  t2 = t2
  t3 = t3
  None = None
  Threads <- MCThreads2
  Entries <- MCEntries2
  Emails <- MCEmails
  Lower <- MCLower
  Codes <- MCCodes
  Texts <- MCTextsAscii
  Strip <- MCStripAscii
  NonAscii <- MCNonAscii
  TTL = 0
  MaxAttempts = 2
  MaxNow = 1
SPECIFICATION Spec
SYMMETRY Symmetry
INVARIANTS GuessesBounded ConsumedIsGone AcceptancesBounded
