------------------------ MODULE NativeRegisterProofs ------------------------
(***************************************************************************)
(* Proofs about NativeRegister for every set of backend processes, names   *)
(* and addresses, and any number of errors and crashes.                    *)
(***************************************************************************)
EXTENDS NativeRegister, FiniteSetTheorems, TLAPS

LEMMA InvInit == Init => Inv
<1> SUFFICES ASSUME Init PROVE Inv
  OBVIOUS
<1> USE RegisterAssumption DEF Init
<1>1. TypeOK
  <2>1. /\ table \in BOOLEAN
        /\ users \subseteq Rows
        /\ step \in [Workers -> Steps \cup {"idle", "replied"}]
        /\ user \in [Workers -> Rows \cup {None}]
        /\ row \in [Workers -> Rows \cup {None}]
        /\ reply \in [Workers -> Replies \cup {None}]
        /\ told \subseteq Rows
    OBVIOUS
  <2>2. faults \in 0..MaxFaults
    OBVIOUS
  <2>3. ASSUME NEW w \in Workers
        PROVE  step[w] = "idle" /\ user[w] = None /\ reply[w] = None
    OBVIOUS
  <2> QED
    BY <2>1, <2>2, <2>3 DEF TypeOK
<1>2. UniqueUsers /\ OpenApart
  BY DEF UniqueUsers, OpenApart
<1>3. RowsHeld /\ CreatedIsStored
  BY DEF RowsHeld, CreatedIsStored
<1> QED
  BY <1>1, <1>2, <1>3 DEF Inv

LEMMA InvNext == Inv /\ [Next]_vars => Inv'
<1> SUFFICES ASSUME Inv, [Next]_vars PROVE Inv'
  OBVIOUS
<1> USE RegisterAssumption
<1> USE DEF Inv, TypeOK, UniqueUsers, RowsHeld, OpenApart, CreatedIsStored,
            Steps, Goto, Reply, EndTransaction
<1>0. \A s \in {201, 400, 500}, r \in Rows \cup {None} :
        [status |-> s, token |-> r] \in Replies
  BY DEF Replies
<1>1. ASSUME NEW w \in Workers, Request(w) PROVE Inv'
  BY <1>1 DEF Request
<1>2. ASSUME NEW w \in Workers, CheckTable(w) PROVE Inv'
  BY <1>2 DEF CheckTable
<1>3. ASSUME NEW w \in Workers, CreateTable(w) PROVE Inv'
  BY <1>0, <1>3 DEF CreateTable, Fail
<1>4. ASSUME NEW w \in Workers, CommitTable(w) PROVE Inv'
  BY <1>4 DEF CommitTable
<1>5. ASSUME NEW w \in Workers, Select(w) PROVE Inv'
  BY <1>0, <1>5 DEF Select, Fail
<1>6. ASSUME NEW w \in Workers, Insert(w) PROVE Inv'
  <2>1. CASE \E r \in users : Clashes(r, user[w])
    BY <1>0, <1>6, <2>1 DEF Insert, Fail
  <2>2. CASE ~ \E r \in users : Clashes(r, user[w])
    \* The new row was compared with the stored rows and the open ones.
    <3>1. /\ row' = [row EXCEPT ![w] = user[w]]
          /\ step' = [step EXCEPT ![w] = "commit"]
          /\ UNCHANGED <<table, users, user, reply, told, faults>>
      BY <1>6, <2>2 DEF Insert
    <3>2. \A v \in Workers \ {w} : step[v] = "commit" =>
            ~Clashes(row[v], user[w]) /\ ~Clashes(user[w], row[v])
      BY <1>6 DEF Insert, Open, Clashes
    <3>3. user[w] # None
      BY <1>6 DEF Insert
    <3>4. TypeOK'
      BY <3>1, <3>3, <1>6 DEF Insert
    <3>5. RowsHeld'
      BY <2>2, <3>1, <3>3
    <3>6. OpenApart'
      BY <3>1, <3>2
    <3>7. UniqueUsers' /\ CreatedIsStored'
      BY <3>1
    <3> QED
      BY <3>4, <3>5, <3>6, <3>7
  <2> QED
    BY <2>1, <2>2
<1>7. ASSUME NEW w \in Workers, users' = users \cup {row[w]}, step[w] = "commit"
      PROVE  /\ UniqueUsers'
             /\ \A v \in Workers \ {w} : step[v] = "commit" =>
                  \A r \in users' : ~Clashes(r, row[v])
  BY <1>7 DEF Clashes
<1>8. ASSUME NEW w \in Workers, Commit(w) PROVE Inv'
  <2>1. UniqueUsers'
    BY <1>7, <1>8 DEF Commit
  <2>2. RowsHeld'
    BY <1>7, <1>8 DEF Commit
  <2> QED
    BY <1>8, <2>1, <2>2 DEF Commit
<1>9. ASSUME NEW w \in Workers, Encode(w) PROVE Inv'
  BY <1>0, <1>9 DEF Encode
<1>10. ASSUME NEW w \in Workers, Deliver(w) PROVE Inv'
  BY <1>10 DEF Deliver
<1>11. ASSUME NEW w \in Workers, Error(w) PROVE Inv'
  <2>1. CASE users' = users
    BY <1>0, <1>11, <2>1 DEF Error, Fail
  <2>2. CASE step[w] = "commit" /\ users' = users \cup {row[w]}
    <3>1. UniqueUsers'
      BY <1>7, <2>2
    <3>2. RowsHeld'
      BY <1>7, <1>11, <2>2 DEF Error, Fail
    <3> QED
      BY <1>0, <1>11, <2>2, <3>1, <3>2 DEF Error, Fail
  <2> QED
    BY <1>11, <2>1, <2>2 DEF Error
<1>12. ASSUME NEW w \in Workers, Crash(w) PROVE Inv'
  BY <1>12 DEF Crash
<1>13. CASE UNCHANGED vars
  BY <1>13 DEF vars
<1> QED
  BY <1>1, <1>2, <1>3, <1>4, <1>5, <1>6, <1>8, <1>9, <1>10, <1>11, <1>12, <1>13
  DEF Next, Statement

LEMMA Invariance == Spec => []Inv
BY InvInit, InvNext, PTL DEF Spec

\* No two stored users share a username or an address, however many
\* processes register at once and wherever they fail (main.py:243-267).
THEOREM UsersAreUnique == Spec => []UniqueUsers
<1>1. Inv => UniqueUsers
  BY DEF Inv
<1> QED
  BY <1>1, Invariance, PTL

\* A user who was answered 201 is stored, as they asked (main.py:252-260).
THEOREM CreatedIsAlwaysStored == Spec => []CreatedIsStored
<1>1. Inv => CreatedIsStored
  BY DEF Inv
<1> QED
  BY <1>1, Invariance, PTL

\* The state of every process keeps its type; in particular one that is
\* about to commit holds the row it inserted (main.py:252-257).
THEOREM RegisterTypeCorrect == Spec => []TypeOK
<1>1. Inv => TypeOK
  BY DEF Inv
<1> QED
  BY <1>1, Invariance, PTL

-----------------------------------------------------------------------------
(* What a lost answer costs                                                *)

\* A statement or an answer adds nobody to the stored users who are not told.
LEMMA UntoldByStep ==
  ASSUME Inv, NEW w \in Workers, Request(w) \/ Statement(w) \/ Deliver(w)
  PROVE  Untold' \subseteq Untold /\ faults' = faults
<1> USE DEF Inv, TypeOK, Goto, Reply, EndTransaction
<1>1. CASE Request(w)
  BY <1>1 DEF Request, Untold, Telling
<1>2. CASE CheckTable(w) \/ CreateTable(w) \/ CommitTable(w) \/ Select(w)
           \/ Insert(w)
  BY <1>2 DEF CheckTable, CreateTable, CommitTable, Select, Insert, Fail,
     Untold, Telling
<1>3. CASE Commit(w)
  \* The one row that is new is the request's own, which is told next.
  <2>1. row[w] = user[w] /\ step[w] = "commit"
    BY <1>3 DEF Commit, RowsHeld
  <2>2. /\ Telling(w, row[w])'
        /\ \A v \in Workers : \A r : Telling(v, r) => Telling(v, r)'
    BY <1>3, <2>1 DEF Commit, Telling
  <2> QED
    BY <1>3, <2>1, <2>2 DEF Commit, Untold
<1>4. CASE Encode(w)
  <2>1. \A v \in Workers : \A r : Telling(v, r) => Telling(v, r)'
    BY <1>4 DEF Encode, Telling
  <2> QED
    BY <1>4, <2>1 DEF Encode, Untold
<1>5. CASE Deliver(w)
  <2>1. \A v \in Workers : \A r :
          Telling(v, r) => Telling(v, r)' \/ r \in told'
    BY <1>5 DEF Deliver, Telling
  <2>2. told \subseteq told'
    BY <1>5 DEF Deliver
  <2> QED
    BY <1>5, <2>1, <2>2 DEF Deliver, Untold
<1> QED
  BY <1>1, <1>2, <1>3, <1>4, <1>5 DEF Statement

\* An error or a crash adds at most the user of the request it hits.
LEMMA UntoldByFault ==
  ASSUME Inv, NEW w \in Workers, Error(w) \/ Crash(w)
  PROVE  Untold' \subseteq Untold \cup {user[w]} /\ faults' = faults + 1
<1> USE DEF Inv, TypeOK, Goto, Reply, EndTransaction
<1>1. faults' = faults + 1 /\ told' = told
  BY DEF Error, Crash
<1>2. users' \subseteq users \cup {user[w]}
  BY DEF Error, Crash, RowsHeld
<1>3. ASSUME NEW v \in Workers, NEW r, r # user[w], Telling(v, r)
      PROVE  Telling(v, r)'
  <2>1. v # w
    BY <1>3 DEF Telling
  <2> QED
    BY <1>3, <2>1 DEF Error, Crash, Fail, Telling
<1> QED
  BY <1>1, <1>2, <1>3 DEF Untold

\* A stored user who is not told so, and will not be, costs an error or a
\* crash each, however many requests race for a name (main.py:257-264).
THEOREM UntoldUsersCostFaults == Spec => []UntoldCostsFault
<1> DEFINE Paid == IsFiniteSet(Untold) /\ UntoldCostsFault
<1>1. Init => Paid
  BY FS_EmptySet, RegisterAssumption DEF Init, Untold, UntoldCostsFault
<1>2. ASSUME Inv, Paid, [Next]_vars PROVE Paid'
  <2> USE <1>2 DEF UntoldCostsFault
  <2>0. faults \in Nat /\ Cardinality(Untold) \in Nat
    BY FS_CardinalityType, RegisterAssumption DEF Inv, TypeOK
  <2>1. ASSUME NEW w \in Workers, Request(w) \/ Statement(w) \/ Deliver(w)
        PROVE  Paid'
    <3>1. Untold' \subseteq Untold /\ faults' = faults
      BY <2>1, UntoldByStep
    <3>2. /\ IsFiniteSet(Untold') /\ Cardinality(Untold') \in Nat
          /\ Cardinality(Untold') <= Cardinality(Untold)
      BY <3>1, FS_Subset, FS_CardinalityType
    <3> QED
      BY <2>0, <3>1, <3>2
  <2>2. ASSUME NEW w \in Workers, Error(w) \/ Crash(w) PROVE Paid'
    <3>1. Untold' \subseteq Untold \cup {user[w]} /\ faults' = faults + 1
      BY <2>2, UntoldByFault
    <3>2. /\ IsFiniteSet(Untold \cup {user[w]})
          /\ Cardinality(Untold \cup {user[w]}) \in Nat
          /\ Cardinality(Untold \cup {user[w]}) <= Cardinality(Untold) + 1
      <4> DEFINE S == Untold
      <4>1. IsFiniteSet(S) /\ Cardinality(S) \in Nat
        BY <2>0
      <4> HIDE DEF S
      <4>2. IsFiniteSet(S \cup {user[w]})
        BY <4>1, FS_AddElement
      <4>3. \/ Cardinality(S \cup {user[w]}) = Cardinality(S)
            \/ Cardinality(S \cup {user[w]}) = Cardinality(S) + 1
        BY <4>1, FS_AddElement
      <4> QED
        BY <4>1, <4>2, <4>3 DEF S
    <3>3. /\ IsFiniteSet(Untold') /\ Cardinality(Untold') \in Nat
          /\ Cardinality(Untold') <= Cardinality(Untold \cup {user[w]})
      BY <3>1, <3>2, FS_Subset, FS_CardinalityType
    <3> QED
      BY <2>0, <3>1, <3>2, <3>3
  <2>3. CASE UNCHANGED vars
    BY <2>3 DEF vars, Untold, Telling
  <2> QED
    BY <2>1, <2>2, <2>3 DEF Next
<1>3. Paid => UntoldCostsFault
  OBVIOUS
<1> QED
  BY <1>1, <1>2, <1>3, Invariance, PTL DEF Spec
=============================================================================
