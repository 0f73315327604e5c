------------------------ MODULE CatalogImportProofs -------------------------
(***************************************************************************)
(* Proofs about CatalogImport for any number of sessions, importing any    *)
(* files along either path.                                                *)
(***************************************************************************)
EXTENDS CatalogImport, FiniteSetTheorems, SequenceTheorems, TLAPS

Identified(b) == b.isbn # None \/ b.code # None

Apart(S, T) == \A a \in S, b \in T : ~Clashes(a, b)

\* What UniqueBooks rests on while transactions are open: no two of them
\* hold books that clash, and none holds one that clashes with a stored book.
OpenApart ==
  /\ newBooks = [i \in Importers |-> newBooks[i]]
  /\ \A b \in books : Identified(b)
  /\ \A i \in Importers : \A b \in newBooks[i] : Identified(b)
  /\ \A a, b \in books : a # b => ~Clashes(a, b)
  /\ \A i \in Importers : \A a, b \in newBooks[i] : a # b => ~Clashes(a, b)
  /\ \A i \in Importers : Apart(books, newBooks[i])
  /\ \A i, j \in Importers : i # j => Apart(newBooks[i], newBooks[j])

LEMMA ClashesBothWays ==
  ASSUME NEW a, NEW b
  PROVE  Clashes(a, b) <=> Clashes(b, a)
BY DEF Clashes

LEMMA OpenApartUnique == OpenApart => UniqueBooks
<1> SUFFICES ASSUME OpenApart PROVE UniqueBooks
  OBVIOUS
<1>1. ASSUME NEW a \in books, NEW b \in books, a # b
      PROVE  /\ a.isbn = b.isbn => a.isbn = None
             /\ a.code = b.code => a.code = None
  BY <1>1 DEF OpenApart, Clashes
<1>2. \A b : Identified(b) => Clashes(b, b)
  BY DEF Identified, Clashes
<1>3. ASSUME NEW i \in Importers, NEW j \in Importers
      PROVE  /\ books \cap newBooks[i] = {}
             /\ i # j => newBooks[i] \cap newBooks[j] = {}
  BY <1>2 DEF OpenApart, Apart
<1> QED
  BY <1>1, <1>3 DEF UniqueBooks

LEMMA OpenApartInit == Init => OpenApart
BY DEF Init, OpenApart, Apart

\* A transaction that ends without storing anything frees what it held.
LEMMA FailKeepsApart ==
  ASSUME OpenApart, NEW i \in Importers, Fail(i)
  PROVE  OpenApart'
<1>1. /\ books' = books
      /\ newBooks' = [newBooks EXCEPT ![i] = {}]
  BY DEF Fail, End, stored
<1>2. /\ newBooks' = [k \in Importers |-> newBooks'[k]]
      /\ newBooks'[i] = {}
      /\ \A k \in Importers \ {i} : newBooks'[k] = newBooks[k]
  BY <1>1 DEF OpenApart
<1> QED
  BY <1>1, <1>2 DEF OpenApart, Apart

LEMMA CommitKeepsApart ==
  ASSUME OpenApart, NEW i \in Importers, Commit(i)
  PROVE  OpenApart'
<1>1. /\ books' = books \cup newBooks[i]
      /\ newBooks' = [newBooks EXCEPT ![i] = {}]
  BY DEF Commit, End
<1>2. /\ newBooks' = [k \in Importers |-> newBooks'[k]]
      /\ newBooks'[i] = {}
      /\ \A k \in Importers \ {i} : newBooks'[k] = newBooks[k]
  BY <1>1 DEF OpenApart
<1>3. \A a, b \in books' : a # b => ~Clashes(a, b)
  BY <1>1, ClashesBothWays DEF OpenApart, Apart
<1>4. \A k \in Importers : Apart(books', newBooks'[k])
  BY <1>1, <1>2 DEF OpenApart, Apart
<1> QED
  BY <1>1, <1>2, <1>3, <1>4 DEF OpenApart, Apart

\* The unique indexes: a book goes in when it clashes with nothing its
\* transaction sees, and only when no open transaction holds its keys.
LEMMA InsertKeepsApart ==
  ASSUME OpenApart, NEW i \in Importers, InsertBook(i)
  PROVE  OpenApart'
<1> DEFINE b == NextBook(i)
<1>1. step[i] = "book_info" /\ left[i] # <<>> /\ Free(i)
  BY DEF InsertBook
<1>2. CASE b.isbn = None /\ b.code = None
  BY <1>2, FailKeepsApart DEF InsertBook
<1>3. CASE ~(b.isbn = None /\ b.code = None)
  <2>1. /\ books' = books
        /\ newBooks' = [newBooks EXCEPT ![i] =
             IF \E c \in books \cup @ : Clashes(c, b) THEN @ ELSE @ \cup {b}]
    BY <1>3 DEF InsertBook, stored
  <2>2. Identified(b)
    BY <1>3 DEF Identified
  <2>3. \A j \in Importers \ {i} : \A c \in newBooks[j] : ~Clashes(c, b)
    BY <1>1 DEF Free, Blocks
  <2> HIDE DEF b
  <2>4. CASE \E c \in books \cup newBooks[i] : Clashes(c, b)
    <3>1. newBooks' = newBooks
      BY <2>1, <2>4 DEF OpenApart
    <3> QED
      BY <2>1, <3>1 DEF OpenApart, Apart
  <2>5. CASE ~ \E c \in books \cup newBooks[i] : Clashes(c, b)
    <3>1. /\ newBooks' = [k \in Importers |-> newBooks'[k]]
          /\ newBooks'[i] = newBooks[i] \cup {b}
          /\ \A k \in Importers \ {i} : newBooks'[k] = newBooks[k]
      BY <2>1, <2>5 DEF OpenApart
    <3>2. \A a, c \in newBooks'[i] : a # c => ~Clashes(a, c)
      BY <2>5, <3>1, ClashesBothWays DEF OpenApart
    <3>3. Apart(books, newBooks'[i])
      BY <2>5, <3>1 DEF OpenApart, Apart
    <3>4. \A k \in Importers \ {i} :
            Apart(newBooks[k], newBooks'[i]) /\ Apart(newBooks'[i], newBooks[k])
      BY <2>3, <3>1, ClashesBothWays DEF OpenApart, Apart
    <3>5. \A c \in newBooks'[i] : Identified(c)
      BY <2>2, <3>1 DEF OpenApart
    <3> QED
      BY <2>1, <3>1, <3>2, <3>3, <3>4, <3>5 DEF OpenApart
  <2> QED
    BY <2>4, <2>5
<1> QED
  BY <1>2, <1>3

LEMMA OpenApartNext == OpenApart /\ [Next]_vars => OpenApart'
<1> SUFFICES ASSUME OpenApart, [Next]_vars PROVE OpenApart'
  OBVIOUS
<1>1. ASSUME NEW i \in Importers, Start(i) PROVE UNCHANGED <<books, newBooks>>
  BY <1>1 DEF Start, stored, opened
<1>2. ASSUME NEW i \in Importers, StatementDone(i)
      PROVE  UNCHANGED <<books, newBooks>>
  BY <1>2 DEF StatementDone, stored, opened
<1>3. ASSUME NEW i \in Importers, InsertName(i)
      PROVE  UNCHANGED <<books, newBooks>>
  BY <1>3 DEF InsertName, stored
<1>4. ASSUME NEW i \in Importers, NEW k \in Kinds, InsertLinks(i, k)
      PROVE  UNCHANGED <<books, newBooks>>
  BY <1>4 DEF InsertLinks, stored
<1>5. CASE UNCHANGED <<books, newBooks>>
  BY <1>5 DEF OpenApart, Apart
<1>6. ASSUME NEW i \in Importers, Victim(i) \/ Error(i) PROVE Fail(i)
  BY <1>6 DEF Victim, Error
<1>7. UNCHANGED vars => UNCHANGED <<books, newBooks>>
  BY DEF vars, stored, opened
<1> QED
  BY <1>1, <1>2, <1>3, <1>4, <1>5, <1>6, <1>7, InsertKeepsApart,
     CommitKeepsApart, FailKeepsApart DEF Next, Statement

-----------------------------------------------------------------------------
\* Whatever files are imported at once, from however many sessions, and
\* whichever of them fail: no two stored books share an ISBN or an internal
\* code, and no row is stored twice (digital-library-system.sql:57-58, with
\* the ON CONFLICT of line 262 and of import_books.sql:62).
THEOREM BooksAreUnique == Spec => []UniqueBooks
<1>1. Spec => []OpenApart
  BY OpenApartInit, OpenApartNext, PTL DEF Spec
<1> QED
  BY <1>1, OpenApartUnique, PTL

-----------------------------------------------------------------------------
\* What LinksLineUp rests on: the links of an open transaction already line
\* up with the file it imports, and a session between two imports has none.
LineUp ==
  /\ newLinks = [i \in Importers |-> newLinks[i]]
  /\ batch = [i \in Importers |-> batch[i]]
  /\ step = [i \in Importers |-> step[i]]
  /\ \A i \in Importers :
       /\ step[i] = "idle" => newLinks[i] = {}
       /\ \A l \in newLinks[i] :
            \E n \in Kept(i), k \in Kinds : SaidBy(i, n, k, l)

\* What a link statement finds is the name it looks for.
LEMMA FindsTheName ==
  ASSUME NEW i, NEW d, NEW m, NEW s, Finds(i, d, m, s)
  PROVE  SameName(<<d, Trim[s]>>, <<d, m>>)
BY DEF Finds, SameName, Key

LEMMA LineUpInit == Init => LineUp
BY DEF Init, LineUp

\* A step that gives no session a new link, and only sessions without links
\* another file.
LEMMA OldLinksLineUp ==
  ASSUME LineUp, NEW i \in Importers, newLinks' = newLinks,
         \/ batch' = batch
         \/ newLinks[i] = {} /\ \E rows : batch' = [batch EXCEPT ![i] = rows],
         \E t : step' = [step EXCEPT ![i] = t] /\ t # "idle"
  PROVE  LineUp'
<1>1. /\ step' = [j \in Importers |-> step'[j]]
      /\ batch' = [j \in Importers |-> batch'[j]]
  BY DEF LineUp
<1>2. ASSUME NEW j \in Importers, step'[j] = "idle" PROVE step[j] = "idle"
  BY <1>2 DEF LineUp
<1>3. ASSUME NEW j \in Importers, NEW l \in newLinks[j]
      PROVE  \E n \in Kept(j)', k \in Kinds : SaidBy(j, n, k, l)'
  <2>1. batch'[j] = batch[j]
    BY <1>3 DEF LineUp
  <2>2. Kept(j)' = Kept(j)
    BY <2>1 DEF Kept
  <2>3. \A n, k : SaidBy(j, n, k, l)' <=> SaidBy(j, n, k, l)
    BY <2>1 DEF SaidBy
  <2> QED
    BY <1>3, <2>2, <2>3 DEF LineUp
<1> QED
  BY <1>1, <1>2, <1>3 DEF LineUp

LEMMA EndLinesUp ==
  ASSUME LineUp, NEW i \in Importers, End(i)
  PROVE  LineUp'
<1>1. /\ step' = [j \in Importers |-> step'[j]]
      /\ batch' = [j \in Importers |-> batch'[j]]
      /\ newLinks' = [j \in Importers |-> newLinks'[j]]
      /\ newLinks'[i] = {}
      /\ \A j \in Importers \ {i} :
           /\ step'[j] = step[j]
           /\ batch'[j] = batch[j]
           /\ newLinks'[j] = newLinks[j]
  BY DEF LineUp, End, Goto
<1>2. ASSUME NEW j \in Importers \ {i}, NEW l \in newLinks[j]
      PROVE  \E n \in Kept(j)', k \in Kinds : SaidBy(j, n, k, l)'
  <2>1. Kept(j)' = Kept(j)
    BY <1>1 DEF Kept
  <2>2. \A n, k : SaidBy(j, n, k, l)' <=> SaidBy(j, n, k, l)
    BY <1>1 DEF SaidBy
  <2> QED
    BY <2>1, <2>2 DEF LineUp
<1> QED
  BY <1>1, <1>2 DEF LineUp

LEMMA NotIdle == "idle" \notin Running
BY ImportAssumption DEF Running, Names, Dictionaries

LEMMA GoOnGoes ==
  ASSUME NEW i \in Importers, GoOn(i)
  PROVE  \E t : step' = [step EXCEPT ![i] = t] /\ t # "idle"
BY NotIdle DEF GoOn, Goto

LEMMA InsertLinksLineUp ==
  ASSUME LineUp, NEW i \in Importers, NEW k \in Kinds, InsertLinks(i, k)
  PROVE  LineUp'
<1>1. batch' = batch /\ books' = books /\ names' = names
  BY DEF InsertLinks, stored
<1>2. /\ step' = [j \in Importers |-> step'[j]]
      /\ step'[i] # "idle"
      /\ \A j \in Importers \ {i} : step'[j] = step[j]
  BY GoOnGoes DEF LineUp, InsertLinks
<1>3. /\ newLinks' = [j \in Importers |-> newLinks'[j]]
      /\ \A j \in Importers \ {i} : newLinks'[j] = newLinks[j]
  BY DEF LineUp, InsertLinks
<1>4. /\ \A j : Kept(j)' = Kept(j)
      /\ \A j, n, x, l : SaidBy(j, n, x, l)' <=> SaidBy(j, n, x, l)
  BY <1>1 DEF Kept, SaidBy
<1>5. ASSUME NEW l \in newLinks'[i], l \notin newLinks[i]
      PROVE  \E n \in Kept(i) : SaidBy(i, n, k, l)
  <2>1. PICK n \in Kept(i) : Joined(i, n, l[1]) /\ Picked(i, n, k, l[2])
    BY <1>5 DEF InsertLinks, LineUp
  <2>2. l[2] \in Entries(k)
    BY <1>5 DEF InsertLinks, LineUp
  <2>3. PICK e \in batch[i][n].says[k] :
          \A d \in Dictionaries[k] : Finds(i, d, l[2][d], e[d])
    BY <2>1 DEF Picked
  <2>4. \A d \in Dictionaries[k] : SameName(<<d, Trim[e[d]]>>, <<d, l[2][d]>>)
    BY <2>3, FindsTheName
  <2>5. DOMAIN l[2] = Dictionaries[k]
    BY <2>2 DEF Entries
  <2>6. Book(batch[i][n]) = l[1]
    BY <2>1 DEF Joined
  <2> QED
    BY <2>3, <2>4, <2>5, <2>6 DEF SaidBy
<1> QED
  BY <1>1, <1>2, <1>3, <1>4, <1>5 DEF LineUp

LEMMA LineUpNext == LineUp /\ [Next]_vars => LineUp'
<1> SUFFICES ASSUME LineUp, [Next]_vars PROVE LineUp'
  OBVIOUS
<1>1. ASSUME NEW i \in Importers, Start(i) PROVE LineUp'
  <2>1. newLinks[i] = {} /\ newLinks' = newLinks
    BY <1>1 DEF Start, LineUp, opened
  <2>2. \E rows : batch' = [batch EXCEPT ![i] = rows]
    BY <1>1 DEF Start
  <2>3. \E t : step' = [step EXCEPT ![i] = t] /\ t # "idle"
    <3>1. step' = [step EXCEPT ![i] = "book_info"]
      BY <1>1 DEF Start, Goto
    <3> QED
      BY <3>1, "book_info" # "idle"
  <2> QED
    BY <2>1, <2>2, <2>3, OldLinksLineUp
<1>2. ASSUME NEW i \in Importers, StatementDone(i) PROVE LineUp'
  <2>1. newLinks' = newLinks /\ batch' = batch /\ GoOn(i)
    BY <1>2 DEF StatementDone, opened
  <2> QED
    BY <2>1, GoOnGoes, OldLinksLineUp
<1>3. CASE newLinks' = newLinks /\ batch' = batch /\ step' = step
  BY <1>3 DEF LineUp, Kept, SaidBy
<1>4. ASSUME NEW i \in Importers, InsertBook(i) PROVE LineUp'
  <2>1. CASE Fail(i)
    BY <2>1, EndLinesUp DEF Fail
  <2>2. CASE ~Fail(i)
    BY <1>3, <1>4, <2>2 DEF InsertBook
  <2> QED
    BY <2>1, <2>2
<1>5. ASSUME NEW i \in Importers, InsertName(i) PROVE LineUp'
  BY <1>3, <1>5 DEF InsertName
<1>6. ASSUME NEW i \in Importers, Commit(i) \/ Victim(i) \/ Error(i)
      PROVE  LineUp'
  BY <1>6, EndLinesUp DEF Commit, Victim, Error, Fail
<1>7. CASE UNCHANGED vars
  BY <1>3, <1>7 DEF vars, opened
<1> QED
  BY <1>1, <1>2, <1>4, <1>5, <1>6, <1>7, InsertLinksLineUp DEF Next, Statement

-----------------------------------------------------------------------------
\* Whatever files are imported at once, along either path, and whatever names
\* other imports store in between: a book is linked with nothing but what the
\* rows with its own identity say of it, and an author in the role of his own
\* credit (the join on ord, digital-library-system.sql:265-270 and 294-302,
\* import_books.sql:66-71 and 93-105).
THEOREM LinksAreOfTheirRow == Spec => LinksLineUp
<1>1. ASSUME LineUp, [Next]_vars
      PROVE  [\A i \in Importers : Commit(i) =>
                \A l \in links' \ links :
                  \E n \in Kept(i), k \in Kinds : SaidBy(i, n, k, l)]_vars
  BY <1>1 DEF LineUp, Commit
<1> QED
  BY <1>1, LineUpInit, LineUpNext, PTL DEF Spec, LinksLineUp

-----------------------------------------------------------------------------
(***************************************************************************)
(* What LinksComplete and RerunAddsNothing rest on: how far each import    *)
(* has got with its file.  A session has the names of a file in when it    *)
(* comes to the links that use them; whatever a committed import went      *)
(* through is stored, under this spelling or one the index takes for it.   *)
(***************************************************************************)

Rank(i) == StatementOrder[PathOf[i]]

\* The transaction has done its statement for the table t.
Passed(i, t) == step[i] \in Running /\ Rank(i)[t] < Rank(i)[step[i]]

Remaining(i) == {left[i][n] : n \in DOMAIN left[i]}

\* The unique index of the dictionary has an entry for the name x.
Stands(x, S) == \E y \in S : SameName(y, x)

\* The unique indexes of the dictionaries, with what open transactions hold.
Distinct(S) == \A x, y \in S : SameName(x, y) => x = y
NamesApart ==
  /\ newNames = [i \in Importers |-> newNames[i]]
  /\ Distinct(names)
  /\ \A i \in Importers :
       /\ Distinct(newNames[i])
       /\ \A x \in newNames[i] : ~Stands(x, names)
       /\ \A j \in Importers \ {i} :
            \A x \in newNames[i] : ~Stands(x, newNames[j])

\* TypeOK, session by session, and that one under way has a file.
Tabulated ==
  /\ step = [i \in Importers |-> step[i]]
  /\ batch = [i \in Importers |-> batch[i]]
  /\ left = [i \in Importers |-> left[i]]
  /\ newBooks = [i \in Importers |-> newBooks[i]]
  /\ newNames = [i \in Importers |-> newNames[i]]
  /\ newLinks = [i \in Importers |-> newLinks[i]]
StoredTyped ==
  /\ books \subseteq Books
  /\ names \subseteq Items
  /\ links \subseteq Links
  /\ \A l \in links : l[1] \in books /\ Uses(l[2]) \subseteq names
  /\ committed \subseteq Paths \X Batches
  /\ imports \in 0..MaxImports
  /\ faults \in 0..MaxFaults
OpenTyped(i) ==
  /\ newBooks[i] \subseteq Books
  /\ newNames[i] \subseteq Items
  /\ newLinks[i] \subseteq Links
  /\ \A l \in newLinks[i] :
       l[1] \in newBooks[i] /\ Uses(l[2]) \subseteq Seen(i)
  /\ step[i] = "idle" => newBooks[i] = {} /\ newNames[i] = {}
StepTyped(i) ==
  /\ step[i] \in Running \cup {"idle"}
  /\ batch[i] \in Batches \cup {<<>>}
  /\ step[i] # "idle" => batch[i] \in Batches
  /\ left[i] \in (IF step[i] = "book_info" THEN Seq(DOMAIN batch[i])
                  ELSE Seq(Spellings))
  /\ step[i] \notin Names \cup {"book_info"} => left[i] = <<>>
TypeInv ==
  /\ Tabulated
  /\ StoredTyped
  /\ \A i \in Importers : OpenTyped(i) /\ StepTyped(i)

\* A transaction works on its file, and on nothing else.
Remains(i) ==
  /\ step[i] = "book_info" => Remaining(i) \subseteq Kept(i)
  /\ step[i] \in Names => Remaining(i) \subseteq ToInsert(i, step[i])
OfTheFile(i) ==
  /\ \A b \in newBooks[i] : \E n \in Kept(i) : b = Book(batch[i][n])
  /\ \A x \in newNames[i] : x[1] \in Names /\ x[2] \in ToInsert(i, x[1])

\* What its statements have gone through so far, every transaction finds there.
BooksIn(i) ==
  step[i] # "idle" =>
    \A n \in Kept(i) :
      \/ step[i] = "book_info" /\ n \in Remaining(i)
      \/ \E c \in books \cup newBooks[i] : Clashes(c, Book(batch[i][n]))

NamesIn(i) ==
  \A d \in Names : step[i] = d \/ Passed(i, d) =>
    \A s \in ToInsert(i, d) :
      \/ step[i] = d /\ s \in Remaining(i)
      \/ Stands(<<d, s>>, Seen(i))

\* An entry of row n that the link statement of k finds as it stands.
Trimmed(k, e) == [d \in Dictionaries[k] |-> Trim[e[d]]]
Due(i, n, k, e) ==
  /\ Book(batch[i][n]) \in newBooks[i]
  /\ \A d \in Dictionaries[k] : Entered(i, d, e[d]) = Trim[e[d]]
  /\ Uses(Trimmed(k, e)) \subseteq Seen(i)

\* No link is missing of the link statements the session has behind it.
LinksIn(i) ==
  \A k \in Kinds : Passed(i, k) =>
    \A n \in Kept(i) : \A e \in batch[i][n].says[k] :
      Due(i, n, k, e) => <<Book(batch[i][n]), Trimmed(k, e)>> \in newLinks[i]

Progress(i) ==
  Remains(i) /\ OfTheFile(i) /\ BooksIn(i) /\ NamesIn(i) /\ LinksIn(i)

\* Kept and ToInsert for a file that no session need be importing.
KeptOf(p, rows) ==
  {n \in DOMAIN rows :
     IF p = "json" THEN rows[n].isbn # None \/ rows[n].code # None
     ELSE rows[n].title # None}
NamesOf(p, rows, d) ==
  UNION {{IF p = "json" \/ d \in Dictionaries.book_author THEN Trim[e[d]]
          ELSE e[d] : e \in rows[n].says[k]}
           : n \in KeptOf(p, rows), k \in {k \in Kinds : d \in Dictionaries[k]}}

\* All of the file c[2], along the path c[1], is in: of each row the book or
\* one it clashes with, and of each name a spelling.
FileIn(c) ==
  /\ \A n \in KeptOf(c[1], c[2]) :
       \E b \in books : Clashes(b, Book(c[2][n]))
  /\ \A d \in Names : \A s \in NamesOf(c[1], c[2], d) :
       Stands(<<d, s>>, names)
CommittedIn == \A c \in committed : FileIn(c)

ImportInv ==
  /\ TypeInv
  /\ NamesApart
  /\ CommittedIn
  /\ \A i \in Importers : Progress(i)

LEMMA SameNames ==
  /\ \A x : SameName(x, x)
  /\ \A x, y : SameName(x, y) => SameName(y, x)
  /\ \A x, y, z : SameName(x, y) /\ SameName(y, z) => SameName(x, z)
BY DEF SameName

LEMMA NamesApartInit == Init => NamesApart
BY DEF Init, NamesApart, Distinct, Stands

\* A transaction that ends, storing its names or not.
LEMMA EndKeepsNamesApart ==
  ASSUME NamesApart, NEW i \in Importers, End(i),
         names' = names \/ names' = names \cup newNames[i]
  PROVE  NamesApart'
<1>1. newNames' = [newNames EXCEPT ![i] = {}]
  BY DEF End
<1>2. /\ newNames' = [j \in Importers |-> newNames'[j]]
      /\ newNames'[i] = {}
      /\ \A j \in Importers \ {i} : newNames'[j] = newNames[j]
  BY <1>1 DEF NamesApart
<1>3. Distinct(names')
  BY SameNames DEF NamesApart, Distinct, Stands
<1>4. ASSUME NEW j \in Importers, NEW x \in newNames'[j]
      PROVE  ~Stands(x, names')
  <2>1. j # i /\ x \in newNames[j] /\ ~Stands(x, newNames[i])
    BY <1>2, <1>4 DEF NamesApart
  <2> QED
    BY <2>1 DEF NamesApart, Stands
<1>5. ASSUME NEW j \in Importers
      PROVE  /\ Distinct(newNames'[j])
             /\ \A k \in Importers \ {j} :
                  \A x \in newNames'[j] : ~Stands(x, newNames'[k])
  BY <1>2 DEF NamesApart, Distinct, Stands
<1> QED
  BY <1>2, <1>3, <1>4, <1>5 DEF NamesApart

LEMMA InsertKeepsNamesApart ==
  ASSUME NamesApart, NEW i \in Importers, InsertName(i)
  PROVE  NamesApart'
<1> DEFINE x == NextName(i)
<1>1. /\ names' = names
      /\ newNames' = [newNames EXCEPT ![i] =
           IF \E y \in names \cup @ : SameName(y, x) THEN @ ELSE @ \cup {x}]
  BY DEF InsertName, stored
<1>2. \A j \in Importers \ {i} : ~Stands(x, newNames[j])
  BY SameNames DEF InsertName, Free, Blocks, Stands
<1> HIDE DEF x
<1>3. CASE \E y \in names \cup newNames[i] : SameName(y, x)
  <2>1. newNames' = newNames
    BY <1>1, <1>3 DEF NamesApart
  <2> QED
    BY <1>1, <2>1 DEF NamesApart
<1>4. CASE ~ \E y \in names \cup newNames[i] : SameName(y, x)
  <2>1. /\ newNames' = [j \in Importers |-> newNames'[j]]
        /\ newNames'[i] = newNames[i] \cup {x}
        /\ \A j \in Importers \ {i} : newNames'[j] = newNames[j]
    BY <1>1, <1>4 DEF NamesApart
  <2>2. Distinct(newNames'[i])
    BY <1>4, <2>1, SameNames DEF NamesApart, Distinct
  <2>3. \A y \in newNames'[i] : ~Stands(y, names)
    BY <1>4, <2>1, SameNames DEF NamesApart, Stands
  <2>4. ASSUME NEW j \in Importers \ {i}
        PROVE  /\ \A y \in newNames'[i] : ~Stands(y, newNames[j])
               /\ \A y \in newNames[j] : ~Stands(y, newNames'[i])
    BY <1>2, <2>1, SameNames DEF NamesApart, Stands
  <2> QED
    BY <1>1, <2>1, <2>2, <2>3, <2>4 DEF NamesApart
<1> QED
  BY <1>3, <1>4

LEMMA NamesApartNext == NamesApart /\ [Next]_vars => NamesApart'
<1> SUFFICES ASSUME NamesApart, [Next]_vars PROVE NamesApart'
  OBVIOUS
<1>1. CASE UNCHANGED <<names, newNames>>
  BY <1>1 DEF NamesApart
<1>2. ASSUME NEW i \in Importers, Start(i) \/ StatementDone(i)
      PROVE  UNCHANGED <<names, newNames>>
  BY <1>2 DEF Start, StatementDone, stored, opened
<1>3. ASSUME NEW i \in Importers, NEW k \in Kinds, InsertLinks(i, k)
      PROVE  UNCHANGED <<names, newNames>>
  BY <1>3 DEF InsertLinks, stored
<1>4. ASSUME NEW i \in Importers, InsertBook(i) PROVE NamesApart'
  <2>1. CASE Fail(i)
    BY <2>1, EndKeepsNamesApart DEF Fail, stored
  <2>2. CASE ~Fail(i)
    BY <1>1, <1>4, <2>2 DEF InsertBook, stored
  <2> QED
    BY <2>1, <2>2
<1>5. ASSUME NEW i \in Importers, Commit(i) \/ Victim(i) \/ Error(i)
      PROVE  NamesApart'
  BY <1>5, EndKeepsNamesApart DEF Commit, Victim, Error, Fail, stored
<1>6. UNCHANGED vars => UNCHANGED <<names, newNames>>
  BY DEF vars, stored, opened
<1> QED
  BY <1>1, <1>2, <1>3, <1>4, <1>5, <1>6, InsertKeepsNamesApart
     DEF Next, Statement


-----------------------------------------------------------------------------
(* The order of the statements, and what they go through                   *)

LEMMA OneSession ==
  ASSUME NEW i \in Importers
  PROVE  PathOf[i] \in {"json", "staging"}
BY ImportAssumption DEF Paths

LEMMA TableSets ==
  /\ Running \subseteq {"book_info", "author_info", "genre", "media_type",
                        "creator_role_type", "book_author", "book_genre",
                        "book_media_type", "commit"}
  /\ Names \subseteq {"author_info", "genre", "media_type", "creator_role_type"}
  /\ Kinds \subseteq {"book_author", "book_genre", "book_media_type"}
  /\ Names \subseteq Running
  /\ Kinds \subseteq Running
BY ImportAssumption DEF Running, Names, Dictionaries

\* Along either path the books come first, a dictionary before the links that
\* use it, and no two tables at once.
LEMMA Ranks ==
  ASSUME NEW i \in Importers
  PROVE  /\ \A t \in Running : Rank(i)[t] \in 1..9
         /\ \A t, u \in Running : Rank(i)[t] = Rank(i)[u] => t = u
         /\ \A t \in Running : Rank(i)["book_info"] <= Rank(i)[t]
         /\ \A t \in Running : Rank(i)[t] <= Rank(i)["commit"]
         /\ \A k \in Kinds : \A d \in Dictionaries[k] :
              d \in Names /\ Rank(i)[d] < Rank(i)[k]
<1>1. /\ \A k \in Kinds : Dictionaries[k] \subseteq Names
      /\ \A k \in Kinds :
           \/ /\ k = "book_author"
              /\ Dictionaries[k] = {"author_info", "creator_role_type"}
           \/ k = "book_genre" /\ Dictionaries[k] = {"genre"}
           \/ k = "book_media_type" /\ Dictionaries[k] = {"media_type"}
  BY ImportAssumption DEF Names, Dictionaries
<1>2. CASE PathOf[i] = "json"
  <2>1. Rank(i) = StatementOrder.json
    BY <1>2 DEF Rank, StatementOrder
  <2> QED
    BY <1>1, <2>1, TableSets DEF StatementOrder
<1>3. CASE PathOf[i] = "staging"
  <2>1. Rank(i) = StatementOrder.staging
    BY <1>3 DEF Rank, StatementOrder
  <2> QED
    BY <1>1, <2>1, TableSets DEF StatementOrder
<1> QED
  BY <1>2, <1>3, OneSession

\* The next statement: what has been done is what had, and the last one.
LEMMA FollowsPasses ==
  ASSUME NEW i \in Importers, NEW t \in Running, step[i] \in Running,
         Follows(i, t), step'[i] = t
  PROVE  /\ t # "book_info"
         /\ \A u \in Running : Passed(i, u)' <=> u = step[i] \/ Passed(i, u)
         /\ ~Passed(i, t)
<1> DEFINE rank == Rank(i)
<1>1. /\ rank[step[i]] < rank[t]
      /\ \A u \in Running : rank[step[i]] < rank[u] => rank[t] <= rank[u]
  BY DEF Follows, Rank
<1>2. /\ \A u \in Running : rank[u] \in 1..9 /\ rank["book_info"] <= rank[u]
      /\ \A u, v \in Running : rank[u] = rank[v] => u = v
      /\ "book_info" \in Running
  BY Ranks DEF Running
<1>3. \A u \in Running : /\ Passed(i, u) <=> rank[u] < rank[step[i]]
                         /\ Passed(i, u)' <=> rank[u] < rank[t]
  BY DEF Passed, Rank
<1> HIDE DEF rank
<1> QED
  BY <1>1, <1>2, <1>3

LEMMA OrdersAreSeqs ==
  ASSUME NEW S, IsFiniteSet(S), NEW s \in Orders(S)
  PROVE  /\ s \in Seq(S)
         /\ {s[n] : n \in DOMAIN s} = S
<1>1. Cardinality(S) \in Nat
  BY FS_CardinalityType
<1>2. /\ s \in [1..Cardinality(S) -> S]
      /\ \A x \in S : \E n \in DOMAIN s : s[n] = x
  BY DEF Orders
<1>3. s \in Seq(S)
  BY <1>1, <1>2, SeqDef
<1> QED
  BY <1>2, <1>3

LEMMA HeadAndTail ==
  ASSUME NEW S, NEW s \in Seq(S), s # <<>>
  PROVE  /\ Head(s) \in S
         /\ Tail(s) \in Seq(S)
         /\ {s[n] : n \in DOMAIN s} =
              {Head(s)} \cup {Tail(s)[n] : n \in DOMAIN Tail(s)}
<1>1. Len(s) \in Nat \ {0} /\ DOMAIN s = 1..Len(s)
  BY EmptySeq, LenProperties
<1>2. /\ Head(s) \in S
      /\ Tail(s) \in Seq(S)
      /\ Len(Tail(s)) = Len(s) - 1
      /\ \A n \in 1..Len(Tail(s)) : Tail(s)[n] = s[n + 1]
  BY HeadTailProperties
<1>3. DOMAIN Tail(s) = 1..(Len(s) - 1)
  BY <1>2, LenProperties
<1>4. Head(s) = s[1]
  BY <1>1
<1>5. ASSUME NEW n \in 1..Len(s), n # 1
      PROVE  n - 1 \in DOMAIN Tail(s) /\ Tail(s)[n - 1] = s[n]
  BY <1>1, <1>2, <1>3, <1>5
<1>6. ASSUME NEW n \in DOMAIN Tail(s)
      PROVE  n + 1 \in DOMAIN s /\ Tail(s)[n] = s[n + 1]
  BY <1>1, <1>2, <1>3, <1>6
<1>7. 1 \in DOMAIN s
  BY <1>1
<1>8. {s[n] : n \in DOMAIN s}
        \subseteq {s[1]} \cup {Tail(s)[n] : n \in DOMAIN Tail(s)}
  BY <1>1, <1>5
<1>9. {s[1]} \cup {Tail(s)[n] : n \in DOMAIN Tail(s)}
        \subseteq {s[n] : n \in DOMAIN s}
  BY <1>6, <1>7
<1> QED
  BY <1>2, <1>4, <1>8, <1>9

\* A file says finitely many things.
LEMMA KeptIsFinite ==
  ASSUME NEW i \in Importers, batch[i] \in Batches \cup {<<>>}
  PROVE  IsFiniteSet(Kept(i)) /\ Kept(i) \subseteq DOMAIN batch[i]
<1>1. batch[i] \in Seq(Rows)
  BY ImportAssumption, EmptySeq
<1>2. DOMAIN batch[i] = 1..Len(batch[i]) /\ Len(batch[i]) \in Nat
  BY <1>1, LenProperties
<1>3. IsFiniteSet(DOMAIN batch[i])
  BY <1>2, FS_Interval
<1> QED
  BY <1>3, FS_Subset DEF Kept

LEMMA ToInsertIsFinite ==
  ASSUME NEW i \in Importers, batch[i] \in Batches, NEW d \in Names
  PROVE  IsFiniteSet(ToInsert(i, d)) /\ ToInsert(i, d) \subseteq Spellings
<1> DEFINE K == {k \in Kinds : d \in Dictionaries[k]}
           Said(n, k) == {Entered(i, d, e[d]) : e \in batch[i][n].says[k]}
           P == Kept(i) \X K
           F == [x \in P |-> Said(x[1], x[2])]
<1>1. IsFiniteSet(Kept(i)) /\ Kept(i) \subseteq DOMAIN batch[i]
  BY KeptIsFinite
<1>2. IsFiniteSet(K)
  <2>1. \A x : IsFiniteSet({x})
    BY FS_Singleton
  <2>2. IsFiniteSet({"book_author"} \cup {"book_genre"})
    BY <2>1, FS_Union
  <2>3. IsFiniteSet(({"book_author"} \cup {"book_genre"})
                      \cup {"book_media_type"})
    BY <2>1, <2>2, FS_Union
  <2>4. K \subseteq ({"book_author"} \cup {"book_genre"})
                      \cup {"book_media_type"}
    BY TableSets
  <2> QED
    BY <2>3, <2>4, FS_Subset
<1>3. ASSUME NEW n \in Kept(i), NEW k \in K
      PROVE  /\ IsFiniteSet(Said(n, k))
             /\ Said(n, k) \subseteq Spellings
  <2> DEFINE E == batch[i][n].says[k]
             g == [e \in E |-> Entered(i, d, e[d])]
  <2>1. E \subseteq Entries(k) /\ IsFiniteSet(E)
    BY <1>1, ImportAssumption
  <2>2. g \in Surjection(E, Said(n, k))
    BY DEF Surjection
  <2>3. IsFiniteSet(Said(n, k))
    BY <2>1, <2>2, FS_Surjection
  <2>4. ASSUME NEW e \in E PROVE Entered(i, d, e[d]) \in Spellings
    BY <2>1, <2>4, ImportAssumption DEF Entries, Entered
  <2> QED
    BY <2>3, <2>4
<1>4. IsFiniteSet(P)
  BY <1>1, <1>2, FS_Product
<1> DEFINE T == {Said(n, k) : n \in Kept(i), k \in K}
<1>5. F \in Surjection(P, T)
  <2> HIDE DEF Said, K
  <2>1. ASSUME NEW x \in P PROVE F[x] \in T
    BY <2>1
  <2>2. ASSUME NEW X \in T PROVE \E x \in P : F[x] = X
    <3>1. PICK n \in Kept(i), k \in K : X = Said(n, k)
      OBVIOUS
    <3>2. <<n, k>> \in P /\ F[<<n, k>>] = X
      BY <3>1
    <3> QED
      BY <3>2
  <2>3. F \in [P -> T]
    BY <2>1
  <2> QED
    BY <2>2, <2>3 DEF Surjection
<1>6. IsFiniteSet(T)
  BY <1>4, <1>5, FS_Surjection
<1>7. \A X \in T : IsFiniteSet(X) /\ X \subseteq Spellings
  BY <1>3
<1>8. ToInsert(i, d) = UNION T
  BY DEF ToInsert
<1> HIDE DEF T
<1> QED
  BY <1>6, <1>7, <1>8, FS_UNION


-----------------------------------------------------------------------------
(* What a step of one session leaves alone                                 *)

Unmoved(j) ==
  /\ step'[j] = step[j]
  /\ batch'[j] = batch[j]
  /\ left'[j] = left[j]
  /\ newBooks'[j] = newBooks[j]
  /\ newNames'[j] = newNames[j]
  /\ newLinks'[j] = newLinks[j]

LEMMA EndFrame ==
  ASSUME Tabulated, NEW i \in Importers, End(i)
  PROVE  /\ Tabulated'
         /\ \A j \in Importers \ {i} : Unmoved(j)
         /\ step'[i] = "idle" /\ batch'[i] = <<>> /\ left'[i] = <<>>
         /\ newBooks'[i] = {} /\ newNames'[i] = {} /\ newLinks'[i] = {}
BY DEF Tabulated, Unmoved, End, Goto

\* A statement over, the session is at the next one with all that it goes
\* through.
GoneThrough(i, t) == IF t \in Names THEN ToInsert(i, t) ELSE {}

LEMMA GoOnFrame ==
  ASSUME Tabulated, NEW i \in Importers, GoOn(i),
         UNCHANGED <<batch, newBooks, newNames>>,
         \E new : newLinks' = [newLinks EXCEPT ![i] = new]
  PROVE  /\ Tabulated'
         /\ \A j \in Importers \ {i} : Unmoved(j)
         /\ step'[i] \in Running /\ Follows(i, step'[i])
         /\ left'[i] \in Orders(GoneThrough(i, step'[i]))
<1>1. PICK t \in Running :
        /\ Follows(i, t)
        /\ step' = [step EXCEPT ![i] = t]
        /\ \E order \in Orders(GoneThrough(i, t)) :
             left' = [left EXCEPT ![i] = order]
  BY DEF GoOn, Goto, GoneThrough
<1>2. PICK order \in Orders(GoneThrough(i, t)) :
        left' = [left EXCEPT ![i] = order]
  BY <1>1
<1>3. PICK new : newLinks' = [newLinks EXCEPT ![i] = new]
  OBVIOUS
<1>4. /\ Tabulated'
      /\ \A j \in Importers \ {i} : Unmoved(j)
  BY <1>1, <1>2, <1>3 DEF Tabulated, Unmoved
<1>5. step'[i] = t /\ left'[i] = order
  BY <1>1, <1>2 DEF Tabulated
<1> QED
  BY <1>1, <1>2, <1>4, <1>5

LEMMA StartFrame ==
  ASSUME Tabulated, NEW i \in Importers, Start(i)
  PROVE  /\ Tabulated'
         /\ \A j \in Importers \ {i} : Unmoved(j)
         /\ step[i] = "idle" /\ step'[i] = "book_info"
         /\ batch'[i] \in Batches
         /\ left'[i] \in Orders(Kept(i)')
         /\ UNCHANGED <<newBooks, newNames, newLinks>>
<1>1. PICK rows \in Batches : batch' = [batch EXCEPT ![i] = rows]
  BY DEF Start
<1>2. PICK order \in Orders(Kept(i)') : left' = [left EXCEPT ![i] = order]
  BY DEF Start
<1>3. /\ step[i] = "idle"
      /\ step' = [step EXCEPT ![i] = "book_info"]
      /\ UNCHANGED <<newBooks, newNames, newLinks>>
  BY DEF Start, Goto, opened
<1> QED
  BY <1>1, <1>2, <1>3 DEF Tabulated, Unmoved

\* A book that its CHECK lets in, and a name: in, or found to be there.
LEMMA InsertBookFrame ==
  ASSUME Tabulated, NEW i \in Importers, InsertBook(i), ~Fail(i)
  PROVE  /\ Tabulated'
         /\ \A j \in Importers \ {i} : Unmoved(j)
         /\ step[i] = "book_info" /\ left[i] # <<>>
         /\ left'[i] = Tail(left[i])
         /\ Identified(NextBook(i))
         /\ \/ newBooks'[i] = newBooks[i] \cup {NextBook(i)}
            \/ /\ newBooks'[i] = newBooks[i]
               /\ \E c \in books \cup newBooks[i] : Clashes(c, NextBook(i))
         /\ UNCHANGED <<stored, step, batch, newNames, newLinks, committed,
                        imports, faults>>
<1> DEFINE b == NextBook(i)
<1>1. /\ ~(b.isbn = None /\ b.code = None)
      /\ newBooks' = [newBooks EXCEPT ![i] =
           IF \E c \in books \cup @ : Clashes(c, b) THEN @ ELSE @ \cup {b}]
      /\ left' = [left EXCEPT ![i] = Tail(@)]
      /\ UNCHANGED <<stored, step, batch, newNames, newLinks, committed,
                     imports, faults>>
      /\ step[i] = "book_info" /\ left[i] # <<>>
  BY DEF InsertBook
<1>2. Identified(b)
  BY <1>1 DEF Identified
<1> HIDE DEF b
<1>3. CASE \E c \in books \cup newBooks[i] : Clashes(c, b)
  <2>1. newBooks' = newBooks
    BY <1>1, <1>3 DEF Tabulated
  <2>2. /\ Tabulated' /\ left'[i] = Tail(left[i])
        /\ \A j \in Importers \ {i} : Unmoved(j)
    BY <1>1, <2>1 DEF Tabulated, Unmoved
  <2> QED
    BY <1>1, <1>2, <1>3, <2>1, <2>2 DEF b
<1>4. CASE ~ \E c \in books \cup newBooks[i] : Clashes(c, b)
  <2>1. newBooks' = [newBooks EXCEPT ![i] = newBooks[i] \cup {b}]
    BY <1>1, <1>4
  <2>2. /\ Tabulated' /\ left'[i] = Tail(left[i])
        /\ \A j \in Importers \ {i} : Unmoved(j)
        /\ newBooks'[i] = newBooks[i] \cup {b}
    BY <1>1, <2>1 DEF Tabulated, Unmoved
  <2> QED
    BY <1>1, <1>2, <2>2 DEF b
<1> QED
  BY <1>3, <1>4

LEMMA InsertNameFrame ==
  ASSUME Tabulated, NEW i \in Importers, InsertName(i)
  PROVE  /\ Tabulated'
         /\ \A j \in Importers \ {i} : Unmoved(j)
         /\ step[i] \in Names /\ left[i] # <<>>
         /\ left'[i] = Tail(left[i])
         /\ \/ newNames'[i] = newNames[i] \cup {NextName(i)}
            \/ /\ newNames'[i] = newNames[i]
               /\ Stands(NextName(i), Seen(i))
         /\ UNCHANGED <<stored, step, batch, newBooks, newLinks, committed,
                        imports, faults>>
<1> DEFINE x == NextName(i)
<1>1. /\ newNames' = [newNames EXCEPT ![i] =
           IF \E y \in names \cup @ : SameName(y, x) THEN @ ELSE @ \cup {x}]
      /\ left' = [left EXCEPT ![i] = Tail(@)]
      /\ UNCHANGED <<stored, step, batch, newBooks, newLinks, committed,
                     imports, faults>>
      /\ step[i] \in Names /\ left[i] # <<>>
  BY DEF InsertName
<1> HIDE DEF x
<1>2. CASE \E y \in names \cup newNames[i] : SameName(y, x)
  <2>1. newNames' = newNames
    BY <1>1, <1>2 DEF Tabulated
  <2>2. /\ Tabulated' /\ left'[i] = Tail(left[i])
        /\ \A j \in Importers \ {i} : Unmoved(j)
    BY <1>1, <2>1 DEF Tabulated, Unmoved
  <2> QED
    BY <1>1, <1>2, <2>1, <2>2 DEF x, Stands, Seen
<1>3. CASE ~ \E y \in names \cup newNames[i] : SameName(y, x)
  <2>1. newNames' = [newNames EXCEPT ![i] = newNames[i] \cup {x}]
    BY <1>1, <1>3
  <2>2. /\ Tabulated' /\ left'[i] = Tail(left[i])
        /\ \A j \in Importers \ {i} : Unmoved(j)
        /\ newNames'[i] = newNames[i] \cup {x}
    BY <1>1, <2>1 DEF Tabulated, Unmoved
  <2> QED
    BY <1>1, <2>2 DEF x
<1> QED
  BY <1>2, <1>3

LEMMA StatementDoneFrame ==
  ASSUME Tabulated, NEW i \in Importers, StatementDone(i)
  PROVE  /\ Tabulated'
         /\ \A j \in Importers \ {i} : Unmoved(j)
         /\ step[i] \in Names \cup {"book_info"} /\ left[i] = <<>>
         /\ step'[i] \in Running /\ Follows(i, step'[i])
         /\ left'[i] \in Orders(GoneThrough(i, step'[i]))
         /\ UNCHANGED <<stored, batch, opened, committed, imports, faults>>
<1>1. /\ GoOn(i) /\ step[i] \in Names \cup {"book_info"} /\ left[i] = <<>>
      /\ UNCHANGED <<stored, batch, opened, committed, imports, faults>>
  BY DEF StatementDone
<1>2. /\ UNCHANGED <<batch, newBooks, newNames>>
      /\ newLinks' = [newLinks EXCEPT ![i] = newLinks[i]]
  BY <1>1 DEF opened, Tabulated
<1> QED
  BY <1>1, <1>2, GoOnFrame

\* What the link statement of k adds.
Linked(i, k) ==
  {l \in (books \cup newBooks[i]) \X Entries(k) :
     /\ Uses(l[2]) \subseteq Seen(i)
     /\ \E n \in Kept(i) : Joined(i, n, l[1]) /\ Picked(i, n, k, l[2])}

LEMMA InsertLinksFrame ==
  ASSUME Tabulated, NEW i \in Importers, NEW k \in Kinds, InsertLinks(i, k)
  PROVE  /\ Tabulated'
         /\ \A j \in Importers \ {i} : Unmoved(j)
         /\ step[i] = k
         /\ step'[i] \in Running /\ Follows(i, step'[i])
         /\ left'[i] \in Orders(GoneThrough(i, step'[i]))
         /\ newLinks'[i] = newLinks[i] \cup Linked(i, k)
         /\ UNCHANGED <<stored, batch, newBooks, newNames, committed, imports,
                        faults>>
<1>1. /\ GoOn(i) /\ step[i] = k
      /\ newLinks' = [newLinks EXCEPT ![i] = newLinks[i] \cup Linked(i, k)]
      /\ UNCHANGED <<stored, batch, newBooks, newNames, committed, imports,
                     faults>>
  BY DEF InsertLinks, Linked
<1>2. newLinks'[i] = newLinks[i] \cup Linked(i, k)
  BY <1>1 DEF Tabulated
<1> QED
  BY <1>1, <1>2, GoOnFrame


-----------------------------------------------------------------------------
(* Types                                                                   *)

LEMMA TypeInvInit == Init => TypeInv
<1> SUFFICES ASSUME Init PROVE TypeInv
  OBVIOUS
<1>1. Tabulated
  BY DEF Init, Tabulated
<1>2. StoredTyped
  BY ImportAssumption DEF Init, StoredTyped
<1>3. ASSUME NEW i \in Importers PROVE OpenTyped(i) /\ StepTyped(i)
  BY <1>3, TableSets, NotIdle DEF Init, OpenTyped, StepTyped
<1> QED
  BY <1>1, <1>2, <1>3 DEF TypeInv

LEMMA TypeInvIsTypeOK == TypeInv /\ NamesApart => TypeOK
<1> SUFFICES ASSUME TypeInv, NamesApart PROVE TypeOK
  OBVIOUS
<1>1. /\ step \in [Importers -> Running \cup {"idle"}]
      /\ batch \in [Importers -> Batches \cup {<<>>}]
  BY DEF TypeInv, Tabulated, StepTyped
<1>2. ASSUME NEW i \in Importers, NEW j \in Importers \ {i}
      PROVE  newNames[i] \cap newNames[j] = {}
  BY SameNames DEF NamesApart, Stands
<1> QED
  BY <1>1, <1>2 DEF TypeInv, StoredTyped, OpenTyped, StepTyped, Seen, TypeOK

LEMMA OthersTyped ==
  ASSUME TypeInv, NEW i \in Importers, \A j \in Importers \ {i} : Unmoved(j),
         names \subseteq names'
  PROVE  \A j \in Importers \ {i} : OpenTyped(j)' /\ StepTyped(j)'
<1> TAKE j \in Importers \ {i}
<1>1. Unmoved(j) /\ OpenTyped(j) /\ StepTyped(j)
  BY DEF TypeInv
<1>2. OpenTyped(j)'
  BY <1>1 DEF Unmoved, OpenTyped, Seen
<1>3. StepTyped(j)'
  BY <1>1 DEF Unmoved, StepTyped
<1> QED
  BY <1>2, <1>3

LEMMA EndTyped ==
  ASSUME TypeInv, NEW i \in Importers, End(i), StoredTyped',
         names \subseteq names'
  PROVE  TypeInv'
<1>1. /\ Tabulated' /\ \A j \in Importers \ {i} : Unmoved(j)
      /\ step'[i] = "idle" /\ batch'[i] = <<>> /\ left'[i] = <<>>
      /\ newBooks'[i] = {} /\ newNames'[i] = {} /\ newLinks'[i] = {}
  BY EndFrame DEF TypeInv
<1>2. OpenTyped(i)'
  BY <1>1 DEF OpenTyped
<1>3. StepTyped(i)'
  BY <1>1, EmptySeq DEF StepTyped
<1> QED
  BY <1>1, <1>2, <1>3, OthersTyped DEF TypeInv

LEMMA FailTyped ==
  ASSUME TypeInv, NEW i \in Importers, Fail(i), imports' = imports,
         faults' \in 0..MaxFaults
  PROVE  TypeInv'
<1>1. StoredTyped'
  BY DEF TypeInv, StoredTyped, Fail, stored
<1> QED
  BY <1>1, EndTyped DEF Fail, stored

\* A session that goes on: at the next table with a sequence of spellings.
LEMMA GoOnTyped ==
  ASSUME TypeInv, NEW i \in Importers, step[i] # "idle", batch'[i] = batch[i],
         step'[i] \in Running, Follows(i, step'[i]), step[i] \in Running,
         left'[i] \in Orders(GoneThrough(i, step'[i]))
  PROVE  StepTyped(i)'
<1>1. batch[i] \in Batches
  BY DEF TypeInv, StepTyped
<1>2. step'[i] # "book_info"
  BY FollowsPasses
<1>3. CASE step'[i] \in Names
  <2>1. left'[i] \in Orders(ToInsert(i, step'[i]))
    BY <1>3 DEF GoneThrough
  <2>2. left'[i] \in Seq(ToInsert(i, step'[i]))
    BY <1>1, <1>3, <2>1, ToInsertIsFinite, OrdersAreSeqs
  <2>3. left'[i] \in Seq(Spellings)
    BY <1>1, <1>3, <2>2, ToInsertIsFinite, SeqMonotonic
  <2> QED
    BY <1>1, <1>2, <1>3, <2>3 DEF StepTyped
<1>4. CASE step'[i] \notin Names
  <2>1. left'[i] \in Orders({})
    BY <1>4 DEF GoneThrough
  <2>2. left'[i] \in Seq({})
    BY <2>1, FS_EmptySet, OrdersAreSeqs
  <2>3. left'[i] = <<>>
    <3>1. left'[i] \in [1..Cardinality({}) -> {}] /\ Cardinality({}) = 0
      BY <2>1, FS_EmptySet DEF Orders
    <3>2. Len(left'[i]) \in Nat /\ DOMAIN left'[i] = 1..Len(left'[i])
      BY <2>2, LenProperties
    <3>3. Len(left'[i]) = 0
      BY <3>1, <3>2
    <3> QED
      BY <2>2, <3>3, EmptySeq
  <2>4. left'[i] \in Seq(Spellings)
    BY <2>3, EmptySeq
  <2> QED
    BY <1>1, <1>2, <1>4, <2>3, <2>4 DEF StepTyped
<1> QED
  BY <1>3, <1>4

LEMMA StartTyped ==
  ASSUME TypeInv, NEW i \in Importers, Start(i)
  PROVE  TypeInv'
<1>1. /\ step[i] = "idle" /\ step'[i] = "book_info" /\ batch'[i] \in Batches
      /\ left'[i] \in Orders(Kept(i)')
      /\ UNCHANGED <<newBooks, newNames, newLinks>>
      /\ Tabulated' /\ \A j \in Importers \ {i} : Unmoved(j)
  BY StartFrame DEF TypeInv
<1>2. /\ UNCHANGED <<books, names, links, committed, faults>>
      /\ imports' = imports + 1 /\ imports < MaxImports
  BY DEF Start, stored
<1>3. StoredTyped'
  BY <1>2, ImportAssumption DEF TypeInv, StoredTyped
<1>4. left'[i] \in Seq(DOMAIN batch'[i])
  <2>1. IsFiniteSet(Kept(i)') /\ Kept(i)' \subseteq DOMAIN batch'[i]
    <3>1. batch'[i] \in Seq(Rows)
      BY <1>1, ImportAssumption
    <3>2. DOMAIN batch'[i] = 1..Len(batch'[i]) /\ Len(batch'[i]) \in Nat
      BY <3>1, LenProperties
    <3>3. IsFiniteSet(DOMAIN batch'[i])
      BY <3>2, FS_Interval
    <3>4. Kept(i)' \subseteq DOMAIN batch'[i]
      BY DEF Kept
    <3> QED
      BY <3>3, <3>4, FS_Subset
  <2>2. left'[i] \in Seq(Kept(i)')
    BY <1>1, <2>1, OrdersAreSeqs
  <2> QED
    BY <2>1, <2>2, SeqMonotonic
<1>5. StepTyped(i)'
  BY <1>1, <1>4 DEF StepTyped, Running
<1>6. OpenTyped(i)'
  BY <1>1, <1>2 DEF TypeInv, OpenTyped, Seen
<1> QED
  BY <1>1, <1>2, <1>3, <1>5, <1>6, OthersTyped DEF TypeInv

LEMMA InsertBookTyped ==
  ASSUME TypeInv, NEW i \in Importers, InsertBook(i), ~Fail(i)
  PROVE  TypeInv'
<1>1. /\ Tabulated' /\ \A j \in Importers \ {i} : Unmoved(j)
      /\ step[i] = "book_info" /\ left[i] # <<>>
      /\ left'[i] = Tail(left[i])
      /\ newBooks'[i] \subseteq newBooks[i] \cup {NextBook(i)}
      /\ newBooks[i] \subseteq newBooks'[i]
      /\ UNCHANGED <<stored, step, batch, newNames, newLinks, committed,
                     imports, faults>>
  BY InsertBookFrame DEF TypeInv
<1>2. OpenTyped(i) /\ StepTyped(i)
  BY DEF TypeInv
<1>3. /\ Head(left[i]) \in DOMAIN batch[i]
      /\ Tail(left[i]) \in Seq(DOMAIN batch[i])
  BY <1>1, <1>2, HeadAndTail DEF StepTyped
<1>4. batch[i] \in Seq(Rows)
  BY <1>1, <1>2, ImportAssumption DEF StepTyped
<1>5. batch[i][Head(left[i])] \in Rows
  BY <1>3, <1>4, ElementOfSeq, LenProperties
<1>6. NextBook(i) \in Books
  BY <1>5 DEF NextBook, Book, Books, Rows
<1>7. StepTyped(i)'
  BY <1>1, <1>2, <1>3 DEF StepTyped
<1>8. OpenTyped(i)'
  BY <1>1, <1>2, <1>6 DEF OpenTyped, Seen, stored
<1>9. StoredTyped'
  BY <1>1 DEF TypeInv, StoredTyped, stored
<1> QED
  BY <1>1, <1>7, <1>8, <1>9, OthersTyped DEF TypeInv, stored

LEMMA InsertNameTyped ==
  ASSUME TypeInv, NEW i \in Importers, InsertName(i)
  PROVE  TypeInv'
<1>1. /\ Tabulated' /\ \A j \in Importers \ {i} : Unmoved(j)
      /\ step[i] \in Names /\ left[i] # <<>>
      /\ left'[i] = Tail(left[i])
      /\ newNames'[i] \subseteq newNames[i] \cup {NextName(i)}
      /\ newNames[i] \subseteq newNames'[i]
      /\ UNCHANGED <<stored, step, batch, newBooks, newLinks, committed,
                     imports, faults>>
  BY InsertNameFrame DEF TypeInv
<1>2. OpenTyped(i) /\ StepTyped(i) /\ step[i] \notin {"book_info", "idle"}
  BY <1>1, TableSets, NotIdle DEF TypeInv
<1>3. Head(left[i]) \in Spellings /\ Tail(left[i]) \in Seq(Spellings)
  BY <1>1, <1>2, HeadAndTail DEF StepTyped
<1>4. NextName(i) \in Items
  BY <1>1, <1>3 DEF NextName, Items
<1>5. StepTyped(i)'
  BY <1>1, <1>2, <1>3 DEF StepTyped
<1>6. OpenTyped(i)'
  BY <1>1, <1>2, <1>4 DEF OpenTyped, Seen, stored
<1>7. StoredTyped'
  BY <1>1 DEF TypeInv, StoredTyped, stored
<1> QED
  BY <1>1, <1>5, <1>6, <1>7, OthersTyped DEF TypeInv, stored

LEMMA StatementDoneTyped ==
  ASSUME TypeInv, NEW i \in Importers, StatementDone(i)
  PROVE  TypeInv'
<1>1. /\ Tabulated' /\ \A j \in Importers \ {i} : Unmoved(j)
      /\ step[i] \in Names \cup {"book_info"}
      /\ step'[i] \in Running /\ Follows(i, step'[i])
      /\ left'[i] \in Orders(GoneThrough(i, step'[i]))
      /\ UNCHANGED <<stored, batch, opened, committed, imports, faults>>
  BY StatementDoneFrame DEF TypeInv
<1>2. step[i] \in Running /\ step[i] # "idle"
  BY <1>1, NotIdle, TableSets DEF Running
<1>3. StepTyped(i)'
  BY <1>1, <1>2, GoOnTyped
<1>4. OpenTyped(i)'
  BY <1>1, NotIdle DEF TypeInv, OpenTyped, Seen, stored, opened
<1>5. StoredTyped'
  BY <1>1 DEF TypeInv, StoredTyped, stored
<1> QED
  BY <1>1, <1>3, <1>4, <1>5, OthersTyped DEF TypeInv, stored

LEMMA InsertLinksTyped ==
  ASSUME TypeInv, NEW i \in Importers, NEW k \in Kinds, InsertLinks(i, k)
  PROVE  TypeInv'
<1>1. /\ Tabulated' /\ \A j \in Importers \ {i} : Unmoved(j)
      /\ step[i] = k
      /\ step'[i] \in Running /\ Follows(i, step'[i])
      /\ left'[i] \in Orders(GoneThrough(i, step'[i]))
      /\ newLinks'[i] = newLinks[i] \cup Linked(i, k)
      /\ UNCHANGED <<stored, batch, newBooks, newNames, committed, imports,
                     faults>>
  BY InsertLinksFrame DEF TypeInv
<1>2. step[i] \in Running /\ step[i] # "idle"
  BY <1>1, NotIdle, TableSets
<1>3. StepTyped(i)'
  BY <1>1, <1>2, GoOnTyped
<1>4. ASSUME NEW l \in Linked(i, k)
      PROVE  /\ l \in Links /\ l[1] \in newBooks[i]
             /\ Uses(l[2]) \subseteq Seen(i)
  BY <1>4 DEF Linked, Joined, Links, TypeInv, StoredTyped, OpenTyped
<1>5. OpenTyped(i)'
  <2>1. OpenTyped(i) /\ Seen(i)' = Seen(i)
    BY <1>1 DEF TypeInv, Seen, stored
  <2> QED
    BY <1>1, <1>4, <2>1, NotIdle DEF OpenTyped
<1>6. StoredTyped'
  BY <1>1 DEF TypeInv, StoredTyped, stored
<1> QED
  BY <1>1, <1>3, <1>5, <1>6, OthersTyped DEF TypeInv, stored

LEMMA CommitTyped ==
  ASSUME TypeInv, NEW i \in Importers, Commit(i)
  PROVE  TypeInv'
<1>1. /\ step[i] = "commit" /\ End(i)
      /\ books' = books \cup newBooks[i]
      /\ names' = names \cup newNames[i]
      /\ links' = links \cup newLinks[i]
      /\ committed' = committed \cup {<<PathOf[i], batch[i]>>}
      /\ UNCHANGED <<imports, faults>>
  BY DEF Commit
<1>2. OpenTyped(i) /\ StoredTyped /\ batch[i] \in Batches /\ PathOf[i] \in Paths
  BY <1>1, OneSession DEF TypeInv, StepTyped, Paths
<1>3. \A l \in links' : l[1] \in books' /\ Uses(l[2]) \subseteq names'
  BY <1>1, <1>2 DEF OpenTyped, StoredTyped, Seen
<1>4. StoredTyped'
  BY <1>1, <1>2, <1>3 DEF OpenTyped, StoredTyped
<1> QED
  BY <1>1, <1>4, EndTyped

LEMMA TypeInvNext == TypeInv /\ [Next]_vars => TypeInv'
<1> SUFFICES ASSUME TypeInv, [Next]_vars PROVE TypeInv'
  OBVIOUS
<1>1. ASSUME NEW i \in Importers, InsertBook(i) PROVE TypeInv'
  <2>1. CASE Fail(i)
    BY <1>1, <2>1, FailTyped DEF InsertBook, TypeInv, StoredTyped
  <2>2. CASE ~Fail(i)
    BY <1>1, <2>2, InsertBookTyped
  <2> QED
    BY <2>1, <2>2
<1>2. ASSUME NEW i \in Importers, Victim(i) PROVE TypeInv'
  BY <1>2, FailTyped DEF Victim, TypeInv, StoredTyped
<1>3. ASSUME NEW i \in Importers, Error(i) PROVE TypeInv'
  BY <1>3, FailTyped, ImportAssumption DEF Error, TypeInv, StoredTyped
<1>4. CASE UNCHANGED vars
  BY <1>4 DEF vars, stored, opened, TypeInv, Tabulated, StoredTyped, OpenTyped,
              StepTyped, Seen
<1> QED
  BY <1>1, <1>2, <1>3, <1>4, StartTyped, InsertNameTyped, StatementDoneTyped,
     InsertLinksTyped, CommitTyped DEF Next, Statement

\* Whatever files are imported at once and whichever of the imports fail:
\* every link, stored or of an open transaction, is of a book and of names
\* that are there, no name is held by two transactions, and a session between
\* two imports holds nothing.
THEOREM ImportTypeCorrect == Spec => []TypeOK
<1>1. TypeInv /\ NamesApart /\ [Next]_vars => (TypeInv /\ NamesApart)'
  BY TypeInvNext, NamesApartNext
<1> QED
  BY <1>1, TypeInvInit, NamesApartInit, TypeInvIsTypeOK, PTL DEF Spec


-----------------------------------------------------------------------------
(* How far each import has got                                             *)

\* A name that another spelling already stood for is not there as it is
\* later either: the link statement misses nothing that a later commit adds.
LEMMA NoNewSpelling ==
  ASSUME NEW i \in Importers, NEW k \in Kinds, NEW n \in Kept(i),
         NEW e \in batch[i][n].says[k],
         \A d \in Dictionaries[k] :
           /\ Entered(i, d, e[d]) = Trim[e[d]]
           /\ Stands(<<d, Entered(i, d, e[d])>>, Seen(i)),
         NEW S, Seen(i) \subseteq S, Distinct(S),
         Uses(Trimmed(k, e)) \subseteq S
  PROVE  Uses(Trimmed(k, e)) \subseteq Seen(i)
<1>1. ASSUME NEW d \in Dictionaries[k]
      PROVE  <<d, Trim[e[d]]>> \in Seen(i)
  <2> DEFINE x == <<d, Trim[e[d]]>>
  <2>1. x \in S
    BY DEF Uses, Trimmed
  <2>2. PICK y \in Seen(i) : SameName(y, x)
    BY DEF Stands
  <2>3. y = x
    BY <2>1, <2>2 DEF Distinct
  <2> QED
    BY <2>2, <2>3
<1> QED
  BY <1>1 DEF Uses, Trimmed

\* The names of an entry are among those its dictionaries were given.
LEMMA EntryIsInserted ==
  ASSUME NEW i \in Importers, NEW k \in Kinds, NEW n \in Kept(i),
         NEW e \in batch[i][n].says[k], NEW d \in Dictionaries[k]
  PROVE  d \in Names /\ Entered(i, d, e[d]) \in ToInsert(i, d)
<1> DEFINE Said(m, x) == {Entered(i, d, y[d]) : y \in batch[i][m].says[x]}
           K == {x \in Kinds : d \in Dictionaries[x]}
<1>1. k \in K /\ Entered(i, d, e[d]) \in Said(n, k)
  OBVIOUS
<1>2. Said(n, k) \in {Said(m, x) : m \in Kept(i), x \in K}
  BY <1>1
<1>3. ToInsert(i, d) = UNION {Said(m, x) : m \in Kept(i), x \in K}
  BY DEF ToInsert
<1>4. d \in Names
  BY DEF Names
<1> HIDE DEF Said, K
<1> QED
  BY <1>1, <1>2, <1>3, <1>4

LEMMA SeenIsDistinct ==
  ASSUME NamesApart, NEW i \in Importers
  PROVE  Distinct(Seen(i))
BY SameNames DEF NamesApart, Distinct, Stands, Seen

\* The links of the statements behind a session stay complete, whatever it or
\* another session inserts or commits.
LEMMA LinksStay ==
  ASSUME NEW i \in Importers, NamesIn(i), LinksIn(i), NamesApart',
         batch'[i] = batch[i], newBooks'[i] = newBooks[i],
         newLinks[i] \subseteq newLinks'[i], Seen(i) \subseteq Seen(i)',
         NEW k \in Kinds, Passed(i, k)
  PROVE  \A n \in Kept(i)' : \A e \in batch'[i][n].says[k] :
           Due(i, n, k, e)' =>
             <<Book(batch'[i][n]), Trimmed(k, e)>> \in newLinks'[i]
<1> SUFFICES ASSUME NEW n \in Kept(i), NEW e \in batch[i][n].says[k],
                    Due(i, n, k, e)'
             PROVE  <<Book(batch[i][n]), Trimmed(k, e)>> \in newLinks[i]
  BY DEF Kept
<1>1. /\ Book(batch[i][n]) \in newBooks[i]
      /\ \A d \in Dictionaries[k] : Entered(i, d, e[d]) = Trim[e[d]]
      /\ Uses(Trimmed(k, e)) \subseteq Seen(i)'
  BY DEF Due, Entered
<1>2. ASSUME NEW d \in Dictionaries[k]
      PROVE  Stands(<<d, Entered(i, d, e[d])>>, Seen(i))
  <2>1. d \in Names /\ Entered(i, d, e[d]) \in ToInsert(i, d)
    BY EntryIsInserted
  <2>2. Passed(i, d) /\ step[i] # d
    <3>1. /\ Rank(i)[d] < Rank(i)[k] /\ Rank(i)[k] < Rank(i)[step[i]]
          /\ step[i] \in Running /\ d \in Running /\ k \in Running
      BY <2>1, Ranks, TableSets DEF Passed
    <3>2. /\ Rank(i)[d] \in 1..9 /\ Rank(i)[k] \in 1..9
          /\ Rank(i)[step[i]] \in 1..9
      BY <3>1, Ranks
    <3> QED
      BY <3>1, <3>2 DEF Passed
  <2> QED
    BY <2>1, <2>2 DEF NamesIn
<1>3. Distinct(Seen(i)')
  <2>1. /\ Distinct(names') /\ Distinct(newNames'[i])
        /\ \A x \in newNames'[i] : ~Stands(x, names')
    BY DEF NamesApart, Distinct, Stands
  <2> QED
    BY <2>1, SameNames DEF Distinct, Stands, Seen
<1>4. Uses(Trimmed(k, e)) \subseteq Seen(i)
  BY <1>1, <1>2, <1>3, NoNewSpelling
<1>5. Due(i, n, k, e)
  BY <1>1, <1>4 DEF Due
<1> QED
  BY <1>5 DEF LinksIn

\* What other sessions do: a commit of theirs adds names and books.
LEMMA OthersProgress ==
  ASSUME TypeInv, NamesApart', NEW j \in Importers, Progress(j), Unmoved(j),
         books \subseteq books', names \subseteq names'
  PROVE  Progress(j)'
<1>1. /\ Kept(j)' = Kept(j) /\ Remaining(j)' = Remaining(j)
      /\ \A d : ToInsert(j, d)' = ToInsert(j, d)
      /\ \A t : Passed(j, t)' <=> Passed(j, t)
      /\ Seen(j) \subseteq Seen(j)'
  BY DEF Unmoved, Kept, Remaining, ToInsert, Entered, Passed, Rank, Seen
<1>2. Remains(j)' /\ OfTheFile(j)'
  BY <1>1 DEF Progress, Remains, OfTheFile, Unmoved
<1>3. BooksIn(j)'
  BY <1>1 DEF Progress, BooksIn, Unmoved
<1>4. NamesIn(j)'
  BY <1>1 DEF Progress, NamesIn, Stands, Unmoved
<1>5. LinksIn(j)'
  <2> SUFFICES ASSUME NEW k \in Kinds, Passed(j, k)'
               PROVE  \A n \in Kept(j)' : \A e \in batch'[j][n].says[k] :
                        Due(j, n, k, e)' =>
                          <<Book(batch'[j][n]), Trimmed(k, e)>> \in newLinks'[j]
    BY DEF LinksIn
  <2> QED
    BY <1>1, LinksStay DEF Progress, Unmoved
<1> QED
  BY <1>2, <1>3, <1>4, <1>5 DEF Progress

\* A session between two imports has nothing behind it.
LEMMA IdleProgress ==
  ASSUME NEW i \in Importers,
         step[i] = "idle", newBooks[i] = {}, newNames[i] = {}
  PROVE  Progress(i)
<1>1. "idle" \notin Running /\ "idle" \notin Names
  BY NotIdle, TableSets
<1>2. \A t : ~Passed(i, t)
  BY <1>1 DEF Passed
<1> QED
  BY <1>1, <1>2 DEF Progress, Remains, OfTheFile, BooksIn, NamesIn, LinksIn

LEMMA EndProgress ==
  ASSUME TypeInv, NamesApart', \A j \in Importers : Progress(j),
         NEW i \in Importers,
         End(i), books \subseteq books', names \subseteq names'
  PROVE  \A j \in Importers : Progress(j)'
<1>1. /\ \A j \in Importers \ {i} : Unmoved(j)
      /\ step'[i] = "idle" /\ newBooks'[i] = {} /\ newNames'[i] = {}
  BY EndFrame DEF TypeInv
<1>2. Progress(i)'
  <2>1. "idle" \notin Running /\ "idle" \notin Names
    BY NotIdle, TableSets
  <2>2. \A t : ~Passed(i, t)'
    BY <1>1, <2>1 DEF Passed
  <2> QED
    BY <1>1, <2>1, <2>2
       DEF Progress, Remains, OfTheFile, BooksIn, NamesIn, LinksIn
<1> QED
  BY <1>1, <1>2, OthersProgress

LEMMA StartProgress ==
  ASSUME TypeInv, NamesApart', \A j \in Importers : Progress(j),
         NEW i \in Importers, Start(i)
  PROVE  \A j \in Importers : Progress(j)'
<1>1. /\ \A j \in Importers \ {i} : Unmoved(j)
      /\ step[i] = "idle" /\ step'[i] = "book_info" /\ batch'[i] \in Batches
      /\ left'[i] \in Orders(Kept(i)')
      /\ UNCHANGED <<books, names, newBooks, newNames, newLinks>>
  BY StartFrame DEF TypeInv, Start, stored
<1>2. newBooks'[i] = {} /\ newNames'[i] = {}
  BY <1>1 DEF TypeInv, OpenTyped
<1>3. Remaining(i)' = Kept(i)'
  BY <1>1 DEF Remaining, Orders
<1>4. "book_info" \notin Names
  BY TableSets
<1>5. \A t \in Running : ~Passed(i, t)'
  <2> TAKE t \in Running
  <2>1. /\ Rank(i)["book_info"] <= Rank(i)[t]
        /\ Rank(i)[t] \in 1..9 /\ Rank(i)["book_info"] \in 1..9
    BY Ranks DEF Running
  <2> QED
    BY <1>1, <2>1 DEF Passed, Rank
<1>6. Progress(i)'
  BY <1>1, <1>2, <1>3, <1>4, <1>5, TableSets
     DEF Progress, Remains, OfTheFile, BooksIn, NamesIn, LinksIn
<1> QED
  BY <1>1, <1>6, OthersProgress

LEMMA InsertBookProgress ==
  ASSUME TypeInv, NamesApart', \A j \in Importers : Progress(j),
         NEW i \in Importers, InsertBook(i), ~Fail(i)
  PROVE  \A j \in Importers : Progress(j)'
<1> DEFINE h == Head(left[i])
<1>1. /\ \A j \in Importers \ {i} : Unmoved(j)
      /\ step[i] = "book_info" /\ left[i] # <<>> /\ left'[i] = Tail(left[i])
      /\ Identified(NextBook(i))
      /\ \/ newBooks'[i] = newBooks[i] \cup {NextBook(i)}
         \/ /\ newBooks'[i] = newBooks[i]
            /\ \E c \in books \cup newBooks[i] : Clashes(c, NextBook(i))
      /\ UNCHANGED <<books, names, step, batch, newNames, newLinks>>
  BY InsertBookFrame DEF TypeInv, stored
<1>2. Progress(i) /\ StepTyped(i)
  BY DEF TypeInv
<1>3. Remaining(i) = {h} \cup Remaining(i)'
  <2>1. left[i] \in Seq(DOMAIN batch[i])
    BY <1>1, <1>2 DEF StepTyped
  <2>2. {left[i][n] : n \in DOMAIN left[i]} =
          {h} \cup {Tail(left[i])[n] : n \in DOMAIN Tail(left[i])}
    BY <1>1, <2>1, HeadAndTail
  <2> QED
    BY <1>1, <2>2 DEF Remaining
<1>4. h \in Kept(i)
  BY <1>1, <1>2, <1>3 DEF Progress, Remains
<1>5. /\ Kept(i)' = Kept(i) /\ \A d : ToInsert(i, d)' = ToInsert(i, d)
  BY <1>1 DEF Kept, ToInsert, Entered
<1>6. "book_info" \notin Names
  BY TableSets
<1>7. \A t \in Running : ~Passed(i, t)'
  <2> TAKE t \in Running
  <2>1. /\ Rank(i)["book_info"] <= Rank(i)[t]
        /\ Rank(i)[t] \in 1..9 /\ Rank(i)["book_info"] \in 1..9
    BY Ranks DEF Running
  <2> QED
    BY <1>1, <2>1 DEF Passed, Rank
<1>8. \E c \in books' \cup newBooks'[i] : Clashes(c, Book(batch[i][h]))
  <2>1. NextBook(i) = Book(batch[i][h])
    BY DEF NextBook
  <2>2. Clashes(NextBook(i), NextBook(i))
    BY <1>1 DEF Identified, Clashes
  <2> QED
    BY <1>1, <2>1, <2>2
<1>9. BooksIn(i)'
  <2> SUFFICES ASSUME NEW n \in Kept(i), n \notin Remaining(i)'
               PROVE  \E c \in books' \cup newBooks'[i] :
                        Clashes(c, Book(batch[i][n]))
    BY <1>1, <1>5 DEF BooksIn
  <2>1. CASE n = h
    BY <1>8, <2>1
  <2>2. CASE n # h
    <3>1. n \notin Remaining(i)
      BY <1>3, <2>2
    <3>2. step[i] # "idle"
      BY <1>1
    <3>3. PICK c \in books \cup newBooks[i] : Clashes(c, Book(batch[i][n]))
      BY <1>2, <3>1, <3>2 DEF Progress, BooksIn
    <3> QED
      BY <1>1, <3>3
  <2> QED
    BY <2>1, <2>2
<1>10. OfTheFile(i)'
  <2>1. NextBook(i) = Book(batch[i][h])
    BY DEF NextBook
  <2> QED
    BY <1>1, <1>2, <1>4, <1>5, <2>1 DEF Progress, OfTheFile
<1>11. Remains(i)'
  BY <1>1, <1>2, <1>3, <1>5, <1>6 DEF Progress, Remains
<1>12. NamesIn(i)' /\ LinksIn(i)'
  BY <1>1, <1>6, <1>7, TableSets DEF NamesIn, LinksIn
<1>13. Progress(i)'
  BY <1>9, <1>10, <1>11, <1>12 DEF Progress
<1> QED
  BY <1>1, <1>13, OthersProgress

LEMMA InsertNameProgress ==
  ASSUME TypeInv, NamesApart', \A j \in Importers : Progress(j),
         NEW i \in Importers, InsertName(i)
  PROVE  \A j \in Importers : Progress(j)'
<1> DEFINE h == Head(left[i])
<1>1. /\ \A j \in Importers \ {i} : Unmoved(j)
      /\ step[i] \in Names /\ left[i] # <<>> /\ left'[i] = Tail(left[i])
      /\ \/ newNames'[i] = newNames[i] \cup {<<step[i], h>>}
         \/ newNames'[i] = newNames[i] /\ Stands(<<step[i], h>>, Seen(i))
      /\ UNCHANGED <<books, names, step, batch, newBooks, newLinks>>
  BY InsertNameFrame DEF TypeInv, stored, NextName
<1>2. Progress(i) /\ StepTyped(i)
  BY DEF TypeInv
<1>3. Remaining(i) = {h} \cup Remaining(i)'
  <2>1. left[i] \in Seq(Spellings)
    BY <1>1, <1>2, TableSets DEF StepTyped
  <2>2. {left[i][n] : n \in DOMAIN left[i]} =
          {h} \cup {Tail(left[i])[n] : n \in DOMAIN Tail(left[i])}
    BY <1>1, <2>1, HeadAndTail
  <2> QED
    BY <1>1, <2>2 DEF Remaining
<1>4. h \in ToInsert(i, step[i])
  BY <1>1, <1>2, <1>3 DEF Progress, Remains
<1>5. /\ Kept(i)' = Kept(i) /\ \A d : ToInsert(i, d)' = ToInsert(i, d)
      /\ \A t : Passed(i, t)' <=> Passed(i, t)
      /\ Seen(i) \subseteq Seen(i)'
      /\ Stands(<<step[i], h>>, Seen(i)')
  <2>1. Kept(i)' = Kept(i) /\ \A d : ToInsert(i, d)' = ToInsert(i, d)
    BY <1>1 DEF Kept, ToInsert, Entered
  <2>2. \A t : Passed(i, t)' <=> Passed(i, t)
    BY <1>1 DEF Passed, Rank
  <2>3. Seen(i) \subseteq Seen(i)' /\ Stands(<<step[i], h>>, Seen(i)')
    BY <1>1, SameNames DEF Seen, Stands
  <2> QED
    BY <2>1, <2>2, <2>3
<1>6. "book_info" \notin Names
  BY TableSets
<1>7. Remains(i)'
  BY <1>1, <1>2, <1>3, <1>5, <1>6 DEF Progress, Remains
<1>8. OfTheFile(i)'
  BY <1>1, <1>2, <1>4, <1>5 DEF Progress, OfTheFile
<1>9. BooksIn(i)'
  BY <1>1, <1>2, <1>5, <1>6 DEF Progress, BooksIn
<1>10. NamesIn(i)'
  <2> SUFFICES ASSUME NEW d \in Names, step[i] = d \/ Passed(i, d),
                      NEW s \in ToInsert(i, d)
               PROVE  \/ step[i] = d /\ s \in Remaining(i)'
                      \/ Stands(<<d, s>>, Seen(i)')
    BY <1>1, <1>5 DEF NamesIn, Stands
  <2>1. CASE step[i] = d /\ s = h
    BY <1>5, <2>1
  <2>2. CASE ~(step[i] = d /\ s = h)
    <3>1. \/ step[i] = d /\ s \in Remaining(i)
          \/ Stands(<<d, s>>, Seen(i))
      BY <1>2 DEF Progress, NamesIn
    <3>2. Stands(<<d, s>>, Seen(i)) => Stands(<<d, s>>, Seen(i)')
      BY <1>5 DEF Stands
    <3> QED
      BY <1>3, <2>2, <3>1, <3>2
  <2> QED
    BY <2>1, <2>2
<1>11. LinksIn(i)'
  <2> SUFFICES ASSUME NEW k \in Kinds, Passed(i, k)'
               PROVE  \A n \in Kept(i)' : \A e \in batch'[i][n].says[k] :
                        Due(i, n, k, e)' =>
                          <<Book(batch'[i][n]), Trimmed(k, e)>> \in newLinks'[i]
    BY DEF LinksIn
  <2> QED
    BY <1>1, <1>2, <1>5, LinksStay DEF Progress
<1>12. Progress(i)'
  BY <1>7, <1>8, <1>9, <1>10, <1>11 DEF Progress
<1> QED
  BY <1>1, <1>12, OthersProgress


\* A session at its next statement: with the books or the names of the last
\* one in, and everything the next goes through still to insert.
LEMMA GoOnProgress ==
  ASSUME TypeInv, NamesApart', NEW i \in Importers, Progress(i),
         step[i] \in Running, step'[i] \in Running, Follows(i, step'[i]),
         step[i] \in Names \cup {"book_info"} => left[i] = <<>>,
         left'[i] \in Orders(GoneThrough(i, step'[i])),
         UNCHANGED <<books, names, batch, newBooks, newNames>>,
         newLinks[i] \subseteq newLinks'[i],
         \A k \in Kinds : step[i] = k =>
           \A n \in Kept(i) : \A e \in batch[i][n].says[k] :
             Due(i, n, k, e) =>
               <<Book(batch[i][n]), Trimmed(k, e)>> \in newLinks'[i]
  PROVE  Progress(i)'
<1>1. /\ Kept(i)' = Kept(i) /\ \A d : ToInsert(i, d)' = ToInsert(i, d)
      /\ Seen(i)' = Seen(i)
  BY DEF Kept, ToInsert, Entered, Seen
<1>2. /\ step'[i] # "book_info"
      /\ \A u \in Running : Passed(i, u)' <=> u = step[i] \/ Passed(i, u)
  BY FollowsPasses
<1>3. step'[i] \in Names => Remaining(i)' = ToInsert(i, step'[i])
  BY DEF Remaining, Orders, GoneThrough
<1>4. step[i] \in Names \cup {"book_info"} => Remaining(i) = {}
  BY EmptySeq DEF Remaining
<1>5. Remains(i)'
  BY <1>1, <1>2, <1>3 DEF Remains
<1>6. OfTheFile(i)'
  BY <1>1 DEF Progress, OfTheFile
<1>7. BooksIn(i)'
  <2>1. \A n \in Kept(i) :
          \E c \in books \cup newBooks[i] : Clashes(c, Book(batch[i][n]))
    BY <1>4, NotIdle DEF Progress, BooksIn
  <2> QED
    BY <1>1, <2>1 DEF BooksIn
<1>8. NamesIn(i)'
  <2> SUFFICES ASSUME NEW d \in Names, step'[i] = d \/ Passed(i, d)',
                      NEW s \in ToInsert(i, d)
               PROVE  \/ step'[i] = d /\ s \in Remaining(i)'
                      \/ Stands(<<d, s>>, Seen(i))
    BY <1>1 DEF NamesIn, Stands
  <2>1. CASE step'[i] = d
    BY <1>3, <2>1
  <2>2. CASE step'[i] # d
    <3>1. d = step[i] \/ Passed(i, d)
      BY <1>2, <2>2, TableSets
    <3> QED
      BY <1>4, <3>1 DEF Progress, NamesIn
  <2> QED
    BY <2>1, <2>2
<1>9. LinksIn(i)'
  <2> SUFFICES ASSUME NEW k \in Kinds, Passed(i, k)'
               PROVE  \A n \in Kept(i)' : \A e \in batch'[i][n].says[k] :
                        Due(i, n, k, e)' =>
                          <<Book(batch'[i][n]), Trimmed(k, e)>> \in newLinks'[i]
    BY DEF LinksIn
  <2>1. CASE Passed(i, k)
    BY <1>1, <2>1, LinksStay DEF Progress
  <2>2. CASE ~Passed(i, k)
    <3>1. step[i] = k
      BY <1>2, <2>2, TableSets
    <3>2. \A n, e : Due(i, n, k, e)' <=> Due(i, n, k, e)
      BY <1>1 DEF Due, Entered
    <3> QED
      BY <1>1, <3>1, <3>2
  <2> QED
    BY <2>1, <2>2
<1> QED
  BY <1>5, <1>6, <1>7, <1>8, <1>9 DEF Progress

LEMMA StatementDoneProgress ==
  ASSUME TypeInv, NamesApart', \A j \in Importers : Progress(j),
         NEW i \in Importers, StatementDone(i)
  PROVE  \A j \in Importers : Progress(j)'
<1>1. /\ \A j \in Importers \ {i} : Unmoved(j)
      /\ step[i] \in Names \cup {"book_info"} /\ left[i] = <<>>
      /\ step'[i] \in Running /\ Follows(i, step'[i])
      /\ left'[i] \in Orders(GoneThrough(i, step'[i]))
      /\ UNCHANGED <<books, names, batch, newBooks, newNames, newLinks>>
  BY StatementDoneFrame DEF TypeInv, stored, opened
<1>2. step[i] \in Running /\ step[i] \notin Kinds
  BY <1>1, TableSets DEF Running
<1>3. Progress(i)'
  BY <1>1, <1>2, GoOnProgress
<1> QED
  BY <1>1, <1>3, OthersProgress

\* What a link statement is due to find, it links.
LEMMA DueIsLinked ==
  ASSUME TypeInv, NEW i \in Importers, step[i] \in Kinds, NEW n \in Kept(i),
         NEW e \in batch[i][n].says[step[i]], Due(i, n, step[i], e)
  PROVE  <<Book(batch[i][n]), Trimmed(step[i], e)>> \in Linked(i, step[i])
<1> DEFINE k == step[i]
           m == Trimmed(k, e)
<1>1. e \in Entries(k)
  <2>1. batch[i] \in Batches /\ n \in DOMAIN batch[i]
    BY NotIdle, TableSets DEF TypeInv, StepTyped, Kept
  <2> QED
    BY <2>1, ImportAssumption
<1>2. m \in Entries(k)
  BY <1>1, ImportAssumption DEF Entries, Trimmed
<1>3. \A d \in Dictionaries[k] : m[d] = Trim[e[d]]
  BY DEF Trimmed
<1>4. \A d \in Dictionaries[k] : Finds(i, d, m[d], e[d])
  BY <1>3 DEF Finds
<1>5. Picked(i, n, k, m)
  BY <1>4 DEF Picked
<1>6. Book(batch[i][n]) \in newBooks[i] /\ Uses(m) \subseteq Seen(i)
  BY DEF Due
<1> HIDE DEF m, k
<1>7. <<Book(batch[i][n]), m>> \in (books \cup newBooks[i]) \X Entries(k)
  BY <1>2, <1>6
<1>8. Joined(i, n, Book(batch[i][n]))
  BY <1>6 DEF Joined
<1>9. <<Book(batch[i][n]), m>> \in Linked(i, k)
  BY <1>5, <1>6, <1>7, <1>8 DEF Linked
<1> QED
  BY <1>9 DEF m, k

LEMMA InsertLinksProgress ==
  ASSUME TypeInv, NamesApart', \A j \in Importers : Progress(j),
         NEW i \in Importers,
         NEW k \in Kinds, InsertLinks(i, k)
  PROVE  \A j \in Importers : Progress(j)'
<1>1. /\ \A j \in Importers \ {i} : Unmoved(j)
      /\ step[i] = k
      /\ step'[i] \in Running /\ Follows(i, step'[i])
      /\ left'[i] \in Orders(GoneThrough(i, step'[i]))
      /\ newLinks'[i] = newLinks[i] \cup Linked(i, k)
      /\ UNCHANGED <<books, names, batch, newBooks, newNames>>
  BY InsertLinksFrame DEF TypeInv, stored
<1>2. step[i] \in Running /\ step[i] \notin Names \cup {"book_info"}
  BY <1>1, TableSets
<1>3. \A x \in Kinds : step[i] = x =>
        \A n \in Kept(i) : \A e \in batch[i][n].says[x] :
          Due(i, n, x, e) =>
            <<Book(batch[i][n]), Trimmed(x, e)>> \in newLinks'[i]
  BY <1>1, DueIsLinked
<1>4. newLinks[i] \subseteq newLinks'[i]
  BY <1>1
<1>5. Progress(i)'
  BY <1>1, <1>2, <1>3, <1>4, GoOnProgress
<1> QED
  BY <1>1, <1>5, OthersProgress

\* What a committed import went through is stored: its file, all of it.
LEMMA CommitIn ==
  ASSUME TypeInv, CommittedIn, NEW i \in Importers, Progress(i), Commit(i)
  PROVE  CommittedIn'
<1>1. /\ step[i] = "commit"
      /\ books' = books \cup newBooks[i]
      /\ names' = names \cup newNames[i]
      /\ committed' = committed \cup {<<PathOf[i], batch[i]>>}
  BY DEF Commit
<1>2. "commit" \notin Names /\ "commit" # "idle" /\ "commit" # "book_info"
  BY TableSets
<1>3. /\ KeptOf(PathOf[i], batch[i]) = Kept(i)
      /\ \A d : NamesOf(PathOf[i], batch[i], d) = ToInsert(i, d)
  BY DEF KeptOf, NamesOf, Kept, ToInsert, Entered
<1>4. \A n \in Kept(i) : \E b \in books' : Clashes(b, Book(batch[i][n]))
  BY <1>1, <1>2 DEF Progress, BooksIn
<1>5. ASSUME NEW d \in Names, NEW s \in ToInsert(i, d)
      PROVE  Stands(<<d, s>>, names')
  <2>1. Passed(i, d)
    <3>1. /\ d \in Running /\ "commit" \in Running /\ d # "commit"
      BY <1>2, TableSets DEF Running
    <3>2. /\ Rank(i)[d] \in 1..9 /\ Rank(i)["commit"] \in 1..9
          /\ Rank(i)[d] <= Rank(i)["commit"]
          /\ Rank(i)[d] # Rank(i)["commit"]
      BY <3>1, Ranks
    <3> QED
      BY <1>1, <3>1, <3>2 DEF Passed
  <2> QED
    BY <1>1, <1>2, <2>1 DEF Progress, NamesIn, Seen
<1>6. ASSUME NEW c \in committed PROVE FileIn(c)'
  BY <1>1 DEF CommittedIn, FileIn, Stands
<1>7. ASSUME NEW c \in committed' PROVE FileIn(c)'
  <2>1. CASE c \in committed
    BY <1>6, <2>1
  <2>2. CASE c = <<PathOf[i], batch[i]>>
    <3>1. c[1] = PathOf[i] /\ c[2] = batch[i]
      BY <2>2
    <3> QED
      BY <1>3, <1>4, <1>5, <3>1 DEF FileIn
  <2> QED
    BY <1>1, <2>1, <2>2
<1> QED
  BY <1>7 DEF CommittedIn

LEMMA ImportInvInit == Init => ImportInv
<1> SUFFICES ASSUME Init PROVE ImportInv
  OBVIOUS
<1>1. \A i \in Importers : Progress(i)
  BY IdleProgress DEF Init
<1>2. CommittedIn
  BY DEF Init, CommittedIn
<1> QED
  BY <1>1, <1>2, TypeInvInit, NamesApartInit DEF ImportInv

LEMMA ImportInvNext == ImportInv /\ [Next]_vars => ImportInv'
<1> SUFFICES ASSUME ImportInv, [Next]_vars PROVE ImportInv'
  OBVIOUS
<1>1. /\ TypeInv /\ NamesApart /\ CommittedIn
      /\ \A j \in Importers : Progress(j)
      /\ TypeInv' /\ NamesApart'
  BY TypeInvNext, NamesApartNext DEF ImportInv
<1>2. ASSUME UNCHANGED <<books, names, committed>> PROVE CommittedIn'
  BY <1>1, <1>2 DEF CommittedIn, FileIn
<1>3. ASSUME NEW i \in Importers, Fail(i)
      PROVE  CommittedIn' /\ \A j \in Importers : Progress(j)'
  BY <1>1, <1>2, <1>3, EndProgress DEF Fail, stored
<1>4. ASSUME NEW i \in Importers, Start(i)
      PROVE  CommittedIn' /\ \A j \in Importers : Progress(j)'
  BY <1>1, <1>2, <1>4, StartProgress DEF Start, stored
<1>5. ASSUME NEW i \in Importers, InsertBook(i)
      PROVE  CommittedIn' /\ \A j \in Importers : Progress(j)'
  <2>1. CASE Fail(i)
    BY <1>3, <2>1
  <2>2. CASE ~Fail(i)
    <3>1. UNCHANGED <<books, names, committed>>
      BY <1>1, <1>5, <2>2, InsertBookFrame DEF TypeInv, stored
    <3> QED
      BY <1>1, <1>2, <1>5, <2>2, <3>1, InsertBookProgress
  <2> QED
    BY <2>1, <2>2
<1>6. ASSUME NEW i \in Importers, InsertName(i)
      PROVE  CommittedIn' /\ \A j \in Importers : Progress(j)'
  BY <1>1, <1>2, <1>6, InsertNameProgress DEF InsertName, stored
<1>7. ASSUME NEW i \in Importers, StatementDone(i)
      PROVE  CommittedIn' /\ \A j \in Importers : Progress(j)'
  BY <1>1, <1>2, <1>7, StatementDoneProgress DEF StatementDone, stored
<1>8. ASSUME NEW i \in Importers, NEW k \in Kinds, InsertLinks(i, k)
      PROVE  CommittedIn' /\ \A j \in Importers : Progress(j)'
  BY <1>1, <1>2, <1>8, InsertLinksProgress DEF InsertLinks, stored
<1>9. ASSUME NEW i \in Importers, Commit(i)
      PROVE  CommittedIn' /\ \A j \in Importers : Progress(j)'
  BY <1>1, <1>9, CommitIn, EndProgress DEF Commit
<1>10. ASSUME NEW i \in Importers, Victim(i) \/ Error(i) PROVE Fail(i)
  BY <1>10 DEF Victim, Error
<1>11. ASSUME UNCHANGED vars
       PROVE  CommittedIn' /\ \A j \in Importers : Progress(j)'
  <2>1. \A j \in Importers : Unmoved(j)
    BY <1>11 DEF vars, opened, Unmoved
  <2> QED
    BY <1>1, <1>2, <1>11, <2>1, OthersProgress DEF vars, stored
<1>12. CommittedIn' /\ \A j \in Importers : Progress(j)'
  BY <1>3, <1>4, <1>5, <1>6, <1>7, <1>8, <1>9, <1>10, <1>11 DEF Next, Statement
<1> QED
  BY <1>1, <1>12 DEF ImportInv

LEMMA ImportInvHolds == Spec => []ImportInv
BY ImportInvInit, ImportInvNext, PTL DEF Spec

\* Whatever other imports commit while this one is at work, and in whatever
\* order the names go in: an import that commits has linked the books it
\* stored with every name that it entered in exactly the trimmed spelling it
\* looks up and that the dictionaries hold so, an insertion that gave way to
\* another transaction's included (digital-library-system.sql:273-318,
\* import_books.sql:82-137).  It says nothing of names in another case than
\* the stored one (digital-library-system.sql:309), nor of those the staging
\* import stores untrimmed (import_books.sql:107): their links are lost.
THEOREM EnteredNamesAreLinked == Spec => LinksComplete
<1>1. ASSUME ImportInv, [Next]_vars
      PROVE  [\A i \in Importers : Commit(i) =>
                \A n \in Kept(i), k \in Kinds : \A e \in batch[i][n].says[k] :
                  LET trimmed == [d \in Dictionaries[k] |-> Trim[e[d]]] IN
                    /\ Book(batch[i][n]) \in books' \ books
                    /\ \A d \in Dictionaries[k] :
                         Entered(i, d, e[d]) = trimmed[d]
                    /\ Uses(trimmed) \subseteq names'
                    => <<Book(batch[i][n]), trimmed>> \in links']_vars
  <2> SUFFICES ASSUME NEW i \in Importers, Commit(i),
                      NEW n \in Kept(i), NEW k \in Kinds,
                      NEW e \in batch[i][n].says[k],
                      Book(batch[i][n]) \in books' \ books,
                      \A d \in Dictionaries[k] :
                        Entered(i, d, e[d]) = Trim[e[d]],
                      Uses(Trimmed(k, e)) \subseteq names'
               PROVE  <<Book(batch[i][n]), Trimmed(k, e)>> \in links'
    BY DEF Trimmed
  <2>1. /\ step[i] = "commit"
        /\ books' = books \cup newBooks[i]
        /\ names' = names \cup newNames[i]
        /\ links' = links \cup newLinks[i]
    BY DEF Commit
  <2>2. Due(i, n, k, e)
    BY <2>1 DEF Due, Seen
  <2>3. Passed(i, k)
    <3>1. k \in Running /\ "commit" \in Running /\ k # "commit"
      BY TableSets DEF Running
    <3>2. /\ Rank(i)[k] \in 1..9 /\ Rank(i)["commit"] \in 1..9
          /\ Rank(i)[k] <= Rank(i)["commit"]
          /\ Rank(i)[k] # Rank(i)["commit"]
      BY <3>1, Ranks
    <3> QED
      BY <2>1, <3>1, <3>2 DEF Passed
  <2> QED
    BY <1>1, <2>1, <2>2, <2>3 DEF ImportInv, Progress, LinksIn
<1> QED
  BY <1>1, ImportInvHolds, PTL DEF Spec, LinksComplete

\* Whatever was imported in between: a file imported again, along the same
\* path, by any session and even at the same time as the first one, adds no
\* book, no name and no link (import_books.sql:28-30, and the ON CONFLICT DO
\* NOTHING of either path).
THEOREM RerunsAddNothing == Spec => RerunAddsNothing
<1>1. ASSUME ImportInv, OpenApart, [Next]_vars
      PROVE  [\A i \in Importers :
                <<PathOf[i], batch[i]>> \in committed /\ Commit(i) =>
                  UNCHANGED stored]_vars
  <2> SUFFICES ASSUME NEW i \in Importers,
                      <<PathOf[i], batch[i]>> \in committed,
                      Commit(i)
               PROVE  UNCHANGED stored
    OBVIOUS
  <2>1. /\ books' = books \cup newBooks[i]
        /\ names' = names \cup newNames[i]
        /\ links' = links \cup newLinks[i]
    BY DEF Commit
  <2>2. /\ \A n \in Kept(i) : \E b \in books : Clashes(b, Book(batch[i][n]))
        /\ \A d \in Names : \A s \in ToInsert(i, d) : Stands(<<d, s>>, names)
    <3>1. /\ KeptOf(PathOf[i], batch[i]) = Kept(i)
          /\ \A d : NamesOf(PathOf[i], batch[i], d) = ToInsert(i, d)
      BY DEF KeptOf, NamesOf, Kept, ToInsert, Entered
    <3>2. FileIn(<<PathOf[i], batch[i]>>)
      BY <1>1 DEF ImportInv, CommittedIn
    <3> QED
      BY <3>1, <3>2 DEF FileIn
  <2>3. newBooks[i] = {}
    BY <1>1, <2>2 DEF OpenApart, Apart, ImportInv, Progress, OfTheFile
  <2>4. newNames[i] = {}
    <3> SUFFICES ASSUME NEW x \in newNames[i] PROVE FALSE
      OBVIOUS
    <3>1. x = <<x[1], x[2]>>
      BY <1>1 DEF ImportInv, TypeInv, OpenTyped, Items
    <3>2. Stands(x, names)
      BY <1>1, <2>2, <3>1 DEF ImportInv, Progress, OfTheFile
    <3> QED
      BY <1>1, <3>2 DEF ImportInv, NamesApart
  <2>5. newLinks[i] = {}
    BY <1>1, <2>3 DEF ImportInv, TypeInv, OpenTyped
  <2> QED
    BY <2>1, <2>3, <2>4, <2>5 DEF stored
<1>2. Spec => []OpenApart
  BY OpenApartInit, OpenApartNext, PTL DEF Spec
<1> QED
  BY <1>1, <1>2, ImportInvHolds, PTL DEF Spec, RerunAddsNothing
=============================================================================
