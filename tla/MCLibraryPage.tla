--------------------------- MODULE MCLibraryPage ----------------------------
EXTENDS LibraryPage, TLC

CONSTANTS b1, b2, s1, s2, ann, bob

\* Users are alike, and so are the slots.  Tabs are not: one is patient.
Symmetry == Permutations(Users) \cup Permutations(Slots)
=============================================================================
