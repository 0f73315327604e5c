-------------------------- MODULE MCCognitoService --------------------------
EXTENDS CognitoService, TLC

CONSTANTS e1, e2, t1, t2

MCThreads == {t1, t2}
MCEntries == {e1, e2}

\* Two spellings of one address; the pool tells them apart or not.
MCEmails  == {"Ann", "ann"}
MCLower   == [e \in MCEmails |-> "ann"]
MCExact   == [e \in MCEmails |-> e]
MCFolded  == MCLower

MCCodes    == {"111", "222"}
MCTexts    == {" 222", "no-ascii"}
MCStrip    == [x \in MCTexts |-> IF x = " 222" THEN "222" ELSE x]
MCNonAscii == {"no-ascii"}

MCPasswords == {"weak", "Str0ng!"}
MCWeak      == {"weak"}

\* A second account, whose sign-in is answered with a challenge.
MCChallenged == {"ann"}

Symmetry == Permutations(Threads)
=============================================================================
