-------------------------- MODULE MCCatalogImport ---------------------------
EXTENDS CatalogImport

CONSTANTS i1, i2

BothPaths == [i \in Importers |-> IF i = i1 THEN "json" ELSE "staging"]

MCSpellings == {"fantasy", "Fantasy", " fantasy", " Fantasy", "inker"}
MCTrim == [s \in MCSpellings |->
             CASE s = " fantasy" -> "fantasy" [] s = " Fantasy" -> "Fantasy"
               [] OTHER -> s]
MCFold == [s \in MCSpellings |->
             CASE s = "Fantasy" -> "fantasy" [] s = " Fantasy" -> " fantasy"
               [] OTHER -> s]

Credit(author, role) == [author_info |-> author, creator_role_type |-> role]

Row(isbn, code, title, genres, credits) ==
  [isbn |-> isbn, code |-> code, title |-> title,
   says |-> [k \in Kinds |-> IF k = "book_author" THEN credits
                             ELSE {[genre |-> g] : g \in genres}]]

MCIsbns  == {"978"}
MCInternalCodes == {"C1", "C2"}
MCTitles == {"A", "B"}

\* Rows that share an identifier, a title or a name, in one file or in two,
\* in both orders; a book of two authors, and authors who differ in case; a
\* row without identifiers, and one without a title.
A978  == Row("978", "C1", "A", {"Fantasy"},
             {Credit("Fantasy", "fantasy"), Credit("fantasy", "inker")})
B978  == Row("978", None, "B", {"Fantasy"}, {})
AC1   == Row(None, "C1", "A", {" Fantasy"}, {Credit(" fantasy", "Fantasy")})
AC2   == Row(None, "C2", "A", {"fantasy"}, {})
BC2   == Row(None, "C2", "B", {"fantasy"}, {Credit("Fantasy", "Fantasy")})
Bare  == Row(None, None, "A", {"Fantasy"}, {})
Blank == Row("978", None, None, {"fantasy"}, {})

MCBatches == {<<A978, BC2>>, <<AC2, A978>>, <<A978, B978>>, <<AC1>>,
              <<AC1, Bare>>, <<Blank, BC2>>}
=============================================================================
