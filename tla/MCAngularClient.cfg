CONSTANTS
  ann = ann
  bob = bob
  None = None
  Users = {ann, bob}
  MaxLoads = 2
  MaxSessions = 2
SPECIFICATION FairSpec
INVARIANTS OneForm ConfirmsRegistered BooksOfSession TokenIsSession
PROPERTIES SessionEndsForCause AnswersComeBack
