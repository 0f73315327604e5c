CONSTANTS
  i1 = i1
  i2 = i2
  None = None
  Importers = {i1, i2}
  PathOf <- BothPaths
  Batches <- MCBatches
  Isbns <- MCIsbns
  InternalCodes <- MCInternalCodes
  Titles <- MCTitles
  Kinds = {"book_author", "book_genre"}
  Spellings <- MCSpellings
  Trim <- MCTrim
  Fold <- MCFold
  MaxImports = 3
  MaxFaults = 1
SPECIFICATION FairSpec
INVARIANTS UniqueBooks
PROPERTIES LinksComplete LinksLineUp RerunAddsNothing EveryImportEnds
CHECK_DEADLOCK FALSE
