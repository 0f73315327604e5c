--------------------------- MODULE NativeRegister ---------------------------
(***************************************************************************)
(* POST /auth/register of main.py on the users table of PostgreSQL.  The   *)
(* handler is an async function that never awaits, so one backend process  *)
(* runs one registration at a time; several processes (a rolling           *)
(* deployment, a development server beside the container) share the        *)
(* database.  One action per statement the handler executes.               *)
(*                                                                         *)
(* The database is external: READ COMMITTED transactions, unique indexes   *)
(* that make an insertion wait for an open one it clashes with, and a      *)
(* CREATE TABLE IF NOT EXISTS that fails if the table appeared meanwhile.  *)
(***************************************************************************)
EXTENDS Integers, FiniteSets

CONSTANTS
  Workers,    \* backend processes
  Usernames,  \* VARCHAR values: comparison is exact
  Emails,
  None,
  MaxFaults   \* bound of the model: errors and crashes in a run

\* What a request gives and a row holds: the password takes no part, and
\* the identity column only numbers the rows.
Rows == [username : Usernames, email : Emails]

Replies == [status : {201, 400, 500}, token : Rows \cup {None}]

ASSUME RegisterAssumption ==
  /\ IsFiniteSet(Workers)
  /\ None \notin Rows \cup Replies
  /\ MaxFaults \in Nat

VARIABLES
  table,    \* the committed users table exists
  users,    \* its committed rows
  step,     \* [Workers -> the next statement of the handler]
  user,     \* [Workers -> the request's body, or None]
  row,      \* [Workers -> the row its transaction inserted, or None]
  reply,    \* [Workers -> status and token of the answer, or None]
  told,     \* history: the users whose 201 was delivered
  faults

vars == <<table, users, step, user, row, reply, told, faults>>

Steps == {"checktable", "createtable", "committable", "select", "insert",
          "commit", "encode"}

TypeOK ==
  /\ table \in BOOLEAN
  /\ users \subseteq Rows
  /\ step \in [Workers -> Steps \cup {"idle", "replied"}]
  /\ user \in [Workers -> Rows \cup {None}]
  /\ row \in [Workers -> Rows \cup {None}]
  /\ reply \in [Workers -> Replies \cup {None}]
  /\ told \subseteq Rows
  /\ faults \in 0..MaxFaults
  /\ \A w \in Workers :
       /\ (step[w] = "idle") = (user[w] = None)
       /\ (step[w] = "replied") = (reply[w] # None)
       /\ step[w] = "commit" => row[w] # None

Init ==
  /\ table = FALSE
  /\ users = {}
  /\ step = [w \in Workers |-> "idle"]
  /\ user = [w \in Workers |-> None]
  /\ row = [w \in Workers |-> None]
  /\ reply = [w \in Workers |-> None]
  /\ told = {}
  /\ faults = 0

-----------------------------------------------------------------------------
Goto(w, s) == step' = [step EXCEPT ![w] = s]

\* The transaction is over: committed, or rolled back.
EndTransaction(w) == row' = [row EXCEPT ![w] = None]

Reply(w, status, token) ==
  /\ Goto(w, "replied")
  /\ reply' = [reply EXCEPT ![w] = [status |-> status, token |-> token]]

\* The except clause: roll back, then answer with the exception's status.
FailKeepingLocks(w, status) ==
  /\ Reply(w, status, None)
  /\ UNCHANGED row
Fail(w, status) ==
  /\ Reply(w, status, None)
  /\ EndTransaction(w)

\* The rows a unique index would not let stand beside each other.
ClashesByBoth(a, b) == a.username = b.username /\ a.email = b.email
Clashes(a, b) == a.username = b.username \/ a.email = b.email

Request(w) ==
  /\ step[w] = "idle"
  /\ \E body \in Rows : user' = [user EXCEPT ![w] = body]
  /\ Goto(w, "checktable")
  /\ UNCHANGED <<table, users, row, reply, told, faults>>

\* CREATE TABLE IF NOT EXISTS looks for the table, and makes it if it is not
\* there: once the other transaction that makes it is over.
CheckTable(w) ==
  /\ step[w] = "checktable"
  /\ Goto(w, IF table THEN "select" ELSE "createtable")
  /\ UNCHANGED <<table, users, user, row, reply, told, faults>>

CreateTable(w) ==
  /\ step[w] = "createtable"
  /\ \A v \in Workers : step[v] # "committable"
  /\ IF table THEN Fail(w, 500)
     ELSE Goto(w, "committable") /\ UNCHANGED <<row, reply>>
  /\ UNCHANGED <<table, users, user, told, faults>>

CommitTable(w) ==
  /\ step[w] = "committable"
  /\ table' = TRUE
  /\ Goto(w, "select")
  /\ UNCHANGED <<users, user, row, reply, told, faults>>

Taken(w) == \E r \in users : Clashes(r, user[w])

Select(w) ==
  /\ step[w] = "select"
  /\ IF Taken(w) THEN Fail(w, 400)
     ELSE Goto(w, "insert") /\ UNCHANGED <<row, reply>>
  /\ UNCHANGED <<table, users, user, told, faults>>

\* A worker's transaction holds a row no other transaction sees.
Open(w) == row[w] # None /\ step[w] # "encode"

\* The insertion waits for open transactions it clashes with, and fails if
\* it clashes with a committed row by then: not the check's 400, but a 500.
InsertAutocommitted(w) ==
  /\ step[w] = "insert"
  /\ IF \E r \in users : Clashes(r, user[w]) THEN Fail(w, 500) /\ UNCHANGED users
     ELSE /\ users' = users \cup {user[w]}
          /\ row' = [row EXCEPT ![w] = user[w]]
          /\ Goto(w, "commit")
          /\ UNCHANGED reply
  /\ UNCHANGED <<table, user, told, faults>>
Insert(w) ==
  /\ step[w] = "insert"
  /\ \A v \in Workers \ {w} : Open(v) => ~Clashes(row[v], user[w])
  /\ IF \E r \in users : Clashes(r, user[w]) THEN Fail(w, 500)
     ELSE /\ row' = [row EXCEPT ![w] = user[w]]
          /\ Goto(w, "commit")
          /\ UNCHANGED reply
  /\ UNCHANGED <<table, users, user, told, faults>>

CommitForgotten(w) ==
  /\ step[w] = "commit"
  /\ Reply(w, 201, row[w])
  /\ EndTransaction(w)
  /\ UNCHANGED <<table, users, user, told, faults>>
Commit(w) ==
  /\ step[w] = "commit"
  /\ users' = users \cup {row[w]}
  /\ Goto(w, "encode")
  /\ UNCHANGED <<table, user, row, reply, told, faults>>

Encode(w) ==
  /\ step[w] = "encode"
  /\ Reply(w, 201, row[w])
  /\ EndTransaction(w)
  /\ UNCHANGED <<table, users, user, told, faults>>

Deliver(w) ==
  /\ step[w] = "replied"
  /\ Goto(w, "idle")
  /\ told' = IF reply[w].status = 201 THEN told \cup {user[w]} ELSE told
  /\ user' = [user EXCEPT ![w] = None]
  /\ reply' = [reply EXCEPT ![w] = None]
  /\ UNCHANGED <<table, users, row, faults>>

\* A statement or the connection fails.  A commit may have taken effect.
Error(w) ==
  /\ step[w] \in Steps
  /\ faults < MaxFaults
  /\ faults' = faults + 1
  /\ Fail(w, 500)
  /\ IF step[w] = "commit" THEN users' \in {users, users \cup {row[w]}}
     ELSE UNCHANGED users
  /\ IF step[w] = "committable" THEN table' \in BOOLEAN ELSE UNCHANGED table
  /\ UNCHANGED <<user, told>>

\* The process dies, its client is not answered, the database rolls back.
Crash(w) ==
  /\ step[w] # "idle"
  /\ faults < MaxFaults
  /\ faults' = faults + 1
  /\ Goto(w, "idle")
  /\ user' = [user EXCEPT ![w] = None]
  /\ reply' = [reply EXCEPT ![w] = None]
  /\ EndTransaction(w)
  /\ UNCHANGED <<table, users, told>>

Statement(w) ==
  \/ CheckTable(w)
  \/ CreateTable(w)
  \/ CommitTable(w)
  \/ Select(w)
  \/ Insert(w)
  \/ Commit(w)
  \/ Encode(w)

Next == \E w \in Workers :
  \/ Request(w)
  \/ Statement(w)
  \/ Deliver(w)
  \/ Error(w)
  \/ Crash(w)

Spec == Init /\ [][Next]_vars

\* Running processes run their handlers; requests and faults just happen.
FairSpec == Spec /\ \A w \in Workers : WF_vars(Statement(w))

-----------------------------------------------------------------------------
(* Properties                                                              *)

\* Two registrations that pass the check of main.py:249 at the same time do
\* not both store their user: the indexes of main.py:218-219 decide.
UniqueUsers ==
  \A a, b \in users : a # b => a.username # b.username /\ a.email # b.email

\* A user answered 201 is stored, and their token names the stored row,
\* whatever other processes did between the check, the insertion and the
\* answer.
CreatedIsStored ==
  \A w \in Workers :
    step[w] = "replied" /\ reply[w].status = 201 =>
      /\ reply[w].token \in users
      /\ reply[w].token = user[w]

\* The inductive invariant behind them: an open row agrees with its request,
\* and clashes neither with a stored row nor with another open one.
RowsHeld ==
  \A w \in Workers :
    /\ row[w] # None => step[w] \in {"commit", "encode"} /\ row[w] = user[w]
    /\ step[w] = "commit" =>
         row[w] # None /\ \A r \in users : ~Clashes(r, row[w])
    /\ step[w] = "encode" => row[w] \in users

OpenApart ==
  \A v, w \in Workers :
    v # w /\ step[v] = "commit" /\ step[w] = "commit"
      => ~Clashes(row[v], row[w])

\* Every statement of every register_user keeps this.
Inv == TypeOK /\ UniqueUsers /\ RowsHeld /\ OpenApart /\ CreatedIsStored

\* The stored users that were not told so, and nobody is about to tell: the
\* commit of main.py:257 took effect, and its answer was lost or a 500.
Telling(w, r) ==
  /\ user[w] = r
  /\ \/ step[w] = "encode"
     \/ step[w] = "replied" /\ reply[w].status = 201

Untold == {r \in users \ told : \A w \in Workers : ~Telling(w, r)}

\* Each of them costs an error or a crash: a request that merely loses the
\* race for its name, at the check, at the index or for the table, leaves
\* nothing behind its 400 or 500 (main.py:261-264), and a fault leaves one
\* row of its own request, not those of the requests that waited for it.
UntoldCostsFault == Cardinality(Untold) <= faults

\* A registration that waits for another's transaction is answered once that
\* one is over, failed or not: no lock outlives its request.
EveryRequestAnswered ==
  \A w \in Workers : step[w] \in Steps ~> step[w] \notin Steps
=============================================================================
