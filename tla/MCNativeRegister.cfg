CONSTANTS
  w1 = w1
  w2 = w2
  w3 = w3
  None = None
  Workers = {w1, w2, w3}
  Usernames = {"ada", "grace"}
  Emails = {"g@x.org", "a@x.org"}
  MaxFaults = 1
SPECIFICATION FairSpec
INVARIANTS UniqueUsers CreatedIsStored UntoldCostsFault
PROPERTIES EveryRequestAnswered
