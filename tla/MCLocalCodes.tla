--------------------------- MODULE MCLocalCodes -----------------------------
EXTENDS LocalCodes, TLC

CONSTANTS e1, e2, e3, t1, t2, t3

MCThreads2 == {t1, t2}
MCThreads3 == {t1, t2, t3}
MCEntries2 == {e1, e2}
MCEntries3 == {e1, e2, e3}

\* Two spellings of one address, and another address.
MCEmails == {"Ann", "ann", "bob"}
MCEmailsOne == {"Ann", "ann"}
MCLower  == [e \in MCEmails |-> IF e = "Ann" THEN "ann" ELSE e]
MCLowerOne == [e \in MCEmailsOne |-> "ann"]

\* A padded text that is right for one of the codes and wrong for the other,
\* and a text that is not ASCII.
MCCodes  == {"111", "222"}
MCTexts  == {" 222", "no-ascii"}
MCStrip  == [x \in MCTexts |-> IF x = " 222" THEN "222" ELSE x]
MCNonAscii == {"no-ascii"}
MCTextsAscii == {" 222"}
MCStripAscii == [x \in MCTextsAscii |-> "222"]

Symmetry == Permutations(Threads)
=============================================================================
