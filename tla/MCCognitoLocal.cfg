CONSTANTS
  e1 = e1
  e2 = e2
  t1 = t1
  t2 = t2
  None = None
  Threads <- MCThreads
  Entries <- MCEntries
  Emails <- MCEmails
  Lower <- MCLower
  Username <- MCExact
  Codes <- MCCodes
  Texts <- MCTexts
  Strip <- MCStrip
  NonAscii <- MCNonAscii
  Passwords = {"Str0ng!"}
  Weak = {}
  Challenged = {}
  TTL = 0
  MaxAttempts = 1
  MaxNow = 0
  MaxFaults = 1
  Local = TRUE
SPECIFICATION Spec
SYMMETRY Symmetry
INVARIANTS ConflictMeansConfirmed OkMeansConfirmed StaleOnlyInFlight
PROPERTIES ConfirmedByOwnCode
