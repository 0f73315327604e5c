---------------------------- MODULE MCSignupPage ----------------------------
EXTENDS SignupPage, TLC

CONSTANTS t1, t2, p1

OneEmail == {"ann"}
Lower1   == [e \in OneEmail |-> e]
PageEmail1 == [p \in Pages |-> "ann"]
PagePasswordsAll == [p \in Pages |-> Passwords]

MCTexts == {"111", " 222"}
MCStrip == [x \in MCTexts |-> IF x = " 222" THEN "222" ELSE x]
MCCodes == {"222"}

\* What NeverUsedUp and ConfirmedSignsIn are about.
ASSUME UsersAssumption == OnePage /\ OnePassword /\ Unchallenged

\* Enough for a sign-up after every slip, fault and tick, and two more.
Entries8 == {"e1", "e2", "e3", "e4", "e5", "e6", "e7", "e8"}
=============================================================================
