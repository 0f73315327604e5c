--------------------------- MODULE CatalogImport ----------------------------
(***************************************************************************)
(* The two ways a CSV file becomes catalogue rows: ingest_catalog.py with  *)
(* bulk_insert_books (path "json"), and import_staging_books (path         *)
(* "staging").  Either is one READ COMMITTED transaction: it inserts the   *)
(* books, then the names of their authors, roles, genres and media types,  *)
(* and links books with names.  Several sessions import at a time.         *)
(*                                                                         *)
(* The database is external: an insertion into a unique index waits for    *)
(* an open transaction that holds the same key, and a cycle of waits ends  *)
(* with one of its transactions aborted.  The columns that identify        *)
(* nothing are left out; an author is one name, and a credit without a     *)
(* role stands as one with the role "Author" that both paths give it.      *)
(***************************************************************************)
EXTENDS Integers, FiniteSets, Sequences

CONSTANTS
  Importers,   \* database sessions
  PathOf,      \* [Importers -> the way the session imports]
  Batches,     \* the files: sequences of rows
  Isbns, InternalCodes, Titles,
  None,        \* a blank field
  Kinds,       \* the tables of links the model keeps
  Spellings,   \* names as files spell them
  Trim,        \* [Spellings -> the spelling without surrounding blanks]
  Fold,        \* [Spellings -> its lower case, what CITEXT compares]
  MaxImports,  \* bound of the model: imports that start
  MaxFaults    \* bound of the model: statements or connections that fail

Paths == {"json", "staging"}

\* A link joins a book with a name of each of these dictionaries: book_author
\* with an author and a role.
Dictionaries ==
  [book_author     |-> {"author_info", "creator_role_type"},
   book_genre      |-> {"genre"},
   book_media_type |-> {"media_type"}]

\* The order in which each path inserts into the tables.
StatementOrder ==
  [json    |-> [book_info |-> 1, author_info |-> 2, genre |-> 3,
                media_type |-> 4, creator_role_type |-> 5, book_author |-> 6,
                book_genre |-> 7, book_media_type |-> 8, commit |-> 9],
   staging |-> [book_info |-> 1, author_info |-> 2, creator_role_type |-> 3,
                book_author |-> 4, genre |-> 5, book_genre |-> 6,
                media_type |-> 7, book_media_type |-> 8, commit |-> 9]]

\* What a row says of a kind, and what a link of it says: a name for each
\* dictionary.
Entries(k) == [Dictionaries[k] -> Spellings]

Rows == [isbn  : Isbns \cup {None},
         code  : InternalCodes \cup {None},
         title : Titles \cup {None},
         says  : [Kinds -> SUBSET UNION {Entries(k) : k \in Kinds}]]

Books == [isbn : Isbns \cup {None}, code : InternalCodes \cup {None},
          title : Titles \cup {None}]

Names == UNION {Dictionaries[k] : k \in Kinds}  \* the dictionaries it keeps
Items == Names \X Spellings
Links == Books \X UNION {Entries(k) : k \in Kinds}

ASSUME ImportAssumption ==
  /\ IsFiniteSet(Importers)
  /\ PathOf \in [Importers -> Paths]
  /\ Batches \subseteq Seq(Rows)
  /\ \A rows \in Batches : \A n \in DOMAIN rows, k \in Kinds :
       rows[n].says[k] \subseteq Entries(k) /\ IsFiniteSet(rows[n].says[k])
  /\ Kinds \subseteq DOMAIN Dictionaries
  /\ Trim \in [Spellings -> Spellings]
  /\ Fold \in [Spellings -> Spellings]
  /\ MaxImports \in Nat
  /\ MaxFaults \in Nat

VARIABLES
  books, names, links,  \* committed: sets of Books, Items and Links
  step,       \* [Importers -> the table the transaction inserts into]
  batch,      \* [Importers -> the rows it imports]
  left,       \* [Importers -> what the statement has still to insert, in order]
  newBooks,   \* [Importers -> the books the transaction has inserted]
  newNames,   \* [Importers -> the names it has inserted]
  newLinks,   \* [Importers -> the links it has inserted]
  committed,  \* history: path and batch of the imports that committed
  imports, faults

stored == <<books, names, links>>
opened == <<newBooks, newNames, newLinks>>
vars   == <<stored, step, batch, left, opened, committed, imports, faults>>

Running == {"book_info", "commit"} \cup Names \cup Kinds

\* The stored names a link refers to.
Uses(e) == {<<d, e[d]>> : d \in DOMAIN e}

TypeOK ==
  /\ books \subseteq Books
  /\ names \subseteq Items
  /\ links \subseteq Links
  /\ \A l \in links : l[1] \in books /\ Uses(l[2]) \subseteq names
  /\ step \in [Importers -> Running \cup {"idle"}]
  /\ batch \in [Importers -> Batches \cup {<<>>}]
  /\ \A i \in Importers :
       /\ left[i] \in (IF step[i] = "book_info" THEN Seq(DOMAIN batch[i])
                       ELSE Seq(Spellings))
       /\ newBooks[i] \subseteq Books
       /\ newNames[i] \subseteq Items
       /\ newLinks[i] \subseteq Links
       /\ \A l \in newLinks[i] :
            l[1] \in newBooks[i] /\ Uses(l[2]) \subseteq names \cup newNames[i]
       /\ step[i] \notin Names \cup {"book_info"} => left[i] = <<>>
       /\ step[i] = "idle" => newBooks[i] = {} /\ newNames[i] = {}
       /\ \A j \in Importers \ {i} : newNames[i] \cap newNames[j] = {}
  /\ committed \subseteq Paths \X Batches
  /\ imports \in 0..MaxImports
  /\ faults \in 0..MaxFaults

Init ==
  /\ books = {}
  /\ names = {}
  /\ links = {}
  /\ step = [i \in Importers |-> "idle"]
  /\ batch = [i \in Importers |-> <<>>]
  /\ left = [i \in Importers |-> <<>>]
  /\ newBooks = [i \in Importers |-> {}]
  /\ newNames = [i \in Importers |-> {}]
  /\ newLinks = [i \in Importers |-> {}]
  /\ committed = {}
  /\ imports = 0
  /\ faults = 0

-----------------------------------------------------------------------------
(* What is imported of a batch                                             *)

Book(r) == [isbn |-> r.isbn, code |-> r.code, title |-> r.title]

\* The script leaves out rows without an identifier, the function rows
\* without a title.
Kept(i) ==
  {n \in DOMAIN batch[i] :
     IF PathOf[i] = "json" THEN batch[i][n].isbn # None \/ batch[i][n].code # None
     ELSE batch[i][n].title # None}

\* How a name of a file reaches its dictionary: the script trims all of
\* them, the function only those of book_author.
Entered(i, d, s) ==
  IF PathOf[i] = "json" \/ d \in Dictionaries.book_author THEN Trim[s] ELSE s

ToInsert(i, d) ==
  UNION {{Entered(i, d, e[d]) : e \in batch[i][n].says[k]}
           : n \in Kept(i), k \in {k \in Kinds : d \in Dictionaries[k]}}

\* The stored spelling m a link statement finds for the name s: it compares
\* as text, but for the roles of the function.
Finds(i, d, m, s) ==
  IF PathOf[i] = "staging" /\ d = "creator_role_type" THEN Fold[m] = Fold[Trim[s]]
  ELSE m = Trim[s]

-----------------------------------------------------------------------------
(* Statements, and the unique indexes they wait for                        *)

\* The table that the session's path fills after the one it is at.
Follows(i, t) ==
  LET rank == StatementOrder[PathOf[i]] IN
    /\ rank[step[i]] < rank[t]
    /\ \A u \in Running : rank[step[i]] < rank[u] => rank[t] <= rank[u]

ClashesByBoth(a, b) == a.isbn = b.isbn /\ a.code = b.code
Clashes(a, b) ==
  \/ a.isbn # None /\ a.isbn = b.isbn
  \/ a.code # None /\ a.code = b.code

\* What a dictionary keeps apart: CITEXT, but VARCHAR for authors.
Key(x) == IF x[1] = "author_info" THEN x[2] ELSE Fold[x[2]]
SameName(x, y) == x[1] = y[1] /\ Key(x) = Key(y)

NextBook(i) == Book(batch[i][Head(left[i])])
NextName(i) == <<step[i], Head(left[i])>>

\* The transaction of j holds the key that i inserts next.
Blocks(j, i) ==
  /\ j # i
  /\ left[i] # <<>>
  /\ \/ step[i] = "book_info" /\ \E b \in newBooks[j] : Clashes(b, NextBook(i))
     \/ step[i] \in Names /\ \E x \in newNames[j] : SameName(x, NextName(i))

Free(i) == \A j \in Importers : ~Blocks(j, i)

-----------------------------------------------------------------------------
Goto(i, s) == step' = [step EXCEPT ![i] = s]

\* Every way to go through S.
Orders(S) ==
  {s \in [1..Cardinality(S) -> S] : \A x \in S : \E n \in DOMAIN s : s[n] = x}

\* Go on to the next statement, which goes through its SELECT DISTINCT in any
\* order.
GoOn(i) ==
  \E t \in Running :
    /\ Follows(i, t)
    /\ Goto(i, t)
    /\ \E order \in Orders(IF t \in Names THEN ToInsert(i, t) ELSE {}) :
         left' = [left EXCEPT ![i] = order]

\* bulk_insert_books goes through the books in the order of the file.
Start(i) ==
  /\ step[i] = "idle"
  /\ imports < MaxImports
  /\ imports' = imports + 1
  /\ \E rows \in Batches : batch' = [batch EXCEPT ![i] = rows]
  /\ \E order \in Orders(Kept(i)') :
       /\ PathOf[i] = "json" =>
            \A m, n \in DOMAIN order : m < n => order[m] < order[n]
       /\ left' = [left EXCEPT ![i] = order]
  /\ Goto(i, "book_info")
  /\ UNCHANGED <<stored, opened, committed, faults>>

\* The transaction is over, and what it held is free.
End(i) ==
  /\ Goto(i, "idle")
  /\ left' = [left EXCEPT ![i] = <<>>]
  /\ batch' = [batch EXCEPT ![i] = <<>>]
  /\ newBooks' = [newBooks EXCEPT ![i] = {}]
  /\ newNames' = [newNames EXCEPT ![i] = {}]
  /\ newLinks' = [newLinks EXCEPT ![i] = {}]

\* The connection goes away with the process that fails.
FailHolding(i) ==
  /\ Goto(i, "idle")
  /\ left' = [left EXCEPT ![i] = <<>>]
  /\ batch' = [batch EXCEPT ![i] = <<>>]
  /\ UNCHANGED <<stored, opened, committed>>
Fail(i) == End(i) /\ UNCHANGED <<stored, committed>>

\* ON CONFLICT DO NOTHING skips a book that clashes; the table's CHECK fails
\* the whole import for one that has no identifier.
InsertBook(i) ==
  /\ step[i] = "book_info"
  /\ left[i] # <<>>
  /\ Free(i)
  /\ LET b == NextBook(i) IN
     IF b.isbn = None /\ b.code = None THEN Fail(i)
     ELSE /\ newBooks' = [newBooks EXCEPT ![i] =
                IF \E c \in books \cup @ : Clashes(c, b) THEN @ ELSE @ \cup {b}]
          /\ left' = [left EXCEPT ![i] = Tail(@)]
          /\ UNCHANGED <<stored, step, batch, newNames, newLinks, committed>>
  /\ UNCHANGED <<imports, faults>>

InsertName(i) ==
  /\ step[i] \in Names
  /\ left[i] # <<>>
  /\ Free(i)
  /\ LET x == NextName(i) IN
     newNames' = [newNames EXCEPT ![i] =
        IF \E y \in names \cup @ : SameName(y, x) THEN @ ELSE @ \cup {x}]
  /\ left' = [left EXCEPT ![i] = Tail(@)]
  /\ UNCHANGED <<stored, step, batch, newBooks, newLinks, committed, imports,
                 faults>>

\* The books, or the names of a dictionary, are in.  Names of rows whose book
\* was skipped go in too.
StatementDone(i) ==
  /\ step[i] \in Names \cup {"book_info"}
  /\ left[i] = <<>>
  /\ GoOn(i)
  /\ UNCHANGED <<stored, batch, opened, committed, imports, faults>>

-----------------------------------------------------------------------------
(* The links                                                               *)

\* _new_books: the inserted books, each joined with its rows.
JoinedByTitle(i, n, b) == b \in newBooks[i] /\ b.title = batch[i][n].title
JoinedToStored(i, n, b) == b = Book(batch[i][n])
Joined(i, n, b) == b \in newBooks[i] /\ b = Book(batch[i][n])

\* A link of row n: the names found for one of its entries.
Picked(i, n, k, m) ==
  \E e \in batch[i][n].says[k] :
    \A d \in Dictionaries[k] : Finds(i, d, m[d], e[d])

\* Link statements see what is committed and what their transaction inserted.
SeenOwnOnly(i) == newNames[i]
Seen(i) == names \cup newNames[i]

InsertLinks(i, k) ==
  /\ step[i] = k
  /\ newLinks' = [newLinks EXCEPT ![i] = @ \cup
       {l \in (books \cup newBooks[i]) \X Entries(k) :
          /\ Uses(l[2]) \subseteq Seen(i)
          /\ \E n \in Kept(i) :
               /\ Joined(i, n, l[1])
               /\ Picked(i, n, k, l[2])}]
  /\ GoOn(i)
  /\ UNCHANGED <<stored, batch, newBooks, newNames, committed, imports, faults>>

Commit(i) ==
  /\ step[i] = "commit"
  /\ books' = books \cup newBooks[i]
  /\ names' = names \cup newNames[i]
  /\ links' = links \cup newLinks[i]
  /\ committed' = committed \cup {<<PathOf[i], batch[i]>>}
  /\ End(i)
  /\ UNCHANGED <<imports, faults>>

\* A statement or the connection fails, or the session dies.
Error(i) ==
  /\ step[i] \in Running
  /\ faults < MaxFaults
  /\ faults' = faults + 1
  /\ Fail(i)
  /\ UNCHANGED imports

\* The database aborts one of the transactions that wait for each other.
Deadlocked(i) ==
  \E S \in SUBSET Importers :
    /\ i \in S
    /\ \A x \in S : \E y \in S : Blocks(y, x)

Victim(i) ==
  /\ Deadlocked(i)
  /\ Fail(i)
  /\ UNCHANGED <<imports, faults>>

Statement(i) ==
  \/ InsertBook(i)
  \/ StatementDone(i)
  \/ InsertName(i)
  \/ \E k \in Kinds : InsertLinks(i, k)
  \/ Commit(i)

Next == \E i \in Importers : Start(i) \/ Statement(i) \/ Victim(i) \/ Error(i)

Spec == Init /\ [][Next]_vars

\* The database runs its statements and looks for deadlocks.
FairSpec ==
  Spec /\ \A i \in Importers : WF_vars(Statement(i)) /\ WF_vars(Victim(i))

-----------------------------------------------------------------------------
(* Properties                                                              *)

\* No two books share an ISBN or an internal code, and no row is there twice,
\* whatever is imported at once: digital-library-system.sql:57-58 with
\* ON CONFLICT.
UniqueBooks ==
  /\ \A a, b \in books :
       a # b => /\ a.isbn = b.isbn => a.isbn = None
                /\ a.code = b.code => a.code = None
  /\ \A i, j \in Importers :
       /\ books \cap newBooks[i] = {}
       /\ i # j => newBooks[i] \cap newBooks[j] = {}

\* An import that commits has linked its books with all the names it gave
\* the dictionaries and they hold in that spelling, whichever import put
\* them there: an insertion that gives way to another transaction's, even
\* one that commits late, does not lose the link.
LinksComplete ==
  [][\A i \in Importers : Commit(i) =>
       \A n \in Kept(i), k \in Kinds : \A e \in batch[i][n].says[k] :
         LET trimmed == [d \in Dictionaries[k] |-> Trim[e[d]]] IN
           /\ Book(batch[i][n]) \in books' \ books
           /\ \A d \in Dictionaries[k] : Entered(i, d, e[d]) = trimmed[d]
           /\ Uses(trimmed) \subseteq names'
           => <<Book(batch[i][n]), trimmed>> \in links']_vars

\* Row n says, of its own book and as one entry, what the link l says.
SaidBy(i, n, k, l) ==
  /\ Book(batch[i][n]) = l[1]
  /\ DOMAIN l[2] = Dictionaries[k]
  /\ \E e \in batch[i][n].says[k] : \A d \in Dictionaries[k] :
       SameName(<<d, Trim[e[d]]>>, <<d, l[2][d]>>)

\* A book is linked with nothing but what rows with its own identity say of
\* it, and an author of several in the role of his own credit
\* (import_books.sql:39-40, "line up with the correct imported book").
LinksLineUp ==
  [][\A i \in Importers : Commit(i) =>
       \A l \in links' \ links :
         \E n \in Kept(i), k \in Kinds : SaidBy(i, n, k, l)]_vars

\* import_books.sql:28-30: an import run again adds nothing, even if other
\* imports have changed the dictionaries in between.
RerunAddsNothing ==
  [][\A i \in Importers :
       <<PathOf[i], batch[i]>> \in committed /\ Commit(i) => UNCHANGED stored]_vars

\* Every import commits or fails: transactions that wait for each other do
\* not wait for ever, and a failed one leaves nobody waiting.
EveryImportEnds == \A i \in Importers : step[i] \in Running ~> step[i] = "idle"
=============================================================================
