CONSTANTS
  b1 = b1
  b2 = b2
  ann = ann
  bob = bob
  s1 = s1
  s2 = s2
  None = None
  Tabs = {b1, b2}
  Slots = {s1, s2}
  Users = {ann, bob}
  MaxSessions = 2
  MaxOutstanding = 2
  Patient = {b1}
SPECIFICATION Spec
SYMMETRY Symmetry
INVARIANTS OneSection AsksWhenSignedOut
PROPERTIES EndsForCause AppearsForPatient
