-------------------------- MODULE LocalCodesProofs --------------------------
(***************************************************************************)
(* Proofs about LocalCodes for every set of threads, addresses, codes and  *)
(* entries, and every limit.                                               *)
(***************************************************************************)
EXTENDS LocalCodes, FiniteSetTheorems, TLAPS

\* A set of threads is finite and no larger than the set of all threads.
LEMMA ThreadSets ==
  ASSUME NEW S \in SUBSET Threads
  PROVE  /\ IsFiniteSet(S)
         /\ Cardinality(S) \in Nat
         /\ Cardinality(Threads) \in Nat
         /\ Cardinality(Threads) >= 1
         /\ Cardinality(S) <= Cardinality(Threads)
<1>1. IsFiniteSet(S) /\ Cardinality(S) <= Cardinality(Threads)
  BY FS_Subset, ThreadsAssumption
<1>2. Cardinality(Threads) # 0
  BY FS_EmptySet, ThreadsAssumption
<1> QED
  BY <1>1, <1>2, FS_CardinalityType, ThreadsAssumption

\* A thread that leaves a set of threads lowers its size by one.
LEMMA OneLess ==
  ASSUME NEW S \in SUBSET Threads, NEW t \in S
  PROVE  Cardinality(S \ {t}) = Cardinality(S) - 1
BY ThreadSets, FS_RemoveElement

-----------------------------------------------------------------------------
(* Type correctness                                                        *)

\* What issue_local_code does, without the choice of the new object.
LEMMA IssueMakesEntry ==
  ASSUME NEW t \in Threads, NEW email \in Emails, NEW code \in Codes,
         Issue(t, email, code)
  PROVE  \E e \in Entries :
           /\ entry[e] = None
           /\ entry' = [entry EXCEPT ![e] = NewEntry(Lower[email], code)]
           /\ store' = [store EXCEPT ![Lower[email]] = e]
           /\ latest' = [latest EXCEPT ![Lower[email]] = e]
<1> DEFINE e == CHOOSE f \in Unmade : TRUE
<1>1. e \in Unmade
  BY DEF Issue
<1> QED
  BY <1>1 DEF Issue, Unmade

LEMMA TypeInit == Init => TypeOK
BY NumbersAssumption DEF Init, TypeOK

LEMMA TypeNext == TypeOK /\ [Next]_vars => TypeOK'
<1> SUFFICES ASSUME TypeOK, [Next]_vars PROVE TypeOK'
  OBVIOUS
<1> USE NumbersAssumption, NoneAssumption, FunctionsAssumption
<1> USE DEF TypeOK, Goto, Pop, Fields, Asked, Steps, Results
<1>1. ASSUME NEW t \in Threads, NEW email \in Emails, NEW code \in Codes,
             Issue(t, email, code)
      PROVE  TypeOK'
  <2> DEFINE k == Lower[email]
  <2>1. k \in Keys
    OBVIOUS
  <2>2. PICK e \in Entries :
          /\ entry[e] = None
          /\ entry' = [entry EXCEPT ![e] = NewEntry(k, code)]
          /\ store' = [store EXCEPT ![k] = e]
          /\ latest' = [latest EXCEPT ![k] = e]
    BY <1>1, IssueMakesEntry
  <2>3. NewEntry(k, code) \in Fields
    BY <2>1 DEF NewEntry
  <2>4. NewEntry(k, code) # None
    BY <2>3
  <2>5. UNCHANGED <<now, pc, call, held, seen, tried, accepted>>
    BY <1>1 DEF Issue
  <2> QED
    BY <2>1, <2>2, <2>3, <2>4, <2>5
<1>2. ASSUME NEW t \in Threads, NEW email \in Emails, NEW text \in Texts,
             Call(t, email, text)
      PROVE  TypeOK'
  BY <1>2 DEF Call
<1>3. ASSUME NEW t \in Threads, Lookup(t) PROVE TypeOK'
  BY <1>3 DEF Lookup
<1>4. ASSUME NEW t \in Threads, Judge(t) PROVE TypeOK'
  BY <1>4 DEF Judge
<1>5. ASSUME NEW t \in Threads, Drop(t) PROVE TypeOK'
  BY <1>5 DEF Drop
<1>6. ASSUME NEW t \in Threads, Count(t) \/ Try(t) PROVE TypeOK'
  <2> DEFINE e == held[t]
  <2>1. e \in Entries /\ entry[e] \in Fields /\ entry[e].attempts \in Nat
    BY <1>6 DEF Count, Try
  <2>2. CASE Count(t)
    BY <2>1, <2>2 DEF Count
  <2>3. CASE Try(t)
    <3>1. [entry[e] EXCEPT !.attempts = seen[t] + 1] \in Fields
      BY <2>1
    <3>2. /\ entry' \in [Entries -> Fields \cup {None}]
          /\ entry'[e] # None /\ \A f \in Entries \ {e} : entry'[f] = entry[f]
      BY <2>1, <2>3, <3>1 DEF Try
    <3>3. /\ pc' = [pc EXCEPT ![t] = Compared(e, call[t].value)]
          /\ Compared(e, call[t].value) \in {"error", "take", "false"}
      BY <2>3 DEF Try, Compared
    <3>4. /\ seen' \in [Threads -> Nat] /\ tried' \in [Entries -> Nat]
          /\ UNCHANGED <<store, now, call, held, accepted, latest>>
      BY <2>1, <2>3 DEF Try
    <3>5. pc' \in [Threads -> {"idle"} \cup Steps \cup Results]
      BY <3>3
    <3>6. \A s \in Threads : pc'[s] # "idle" => call'[s] # None
      BY <2>3, <3>3, <3>4 DEF Try
    <3>7. ASSUME NEW s \in Threads,
                 pc'[s] \in {"judge", "drop", "count", "try", "take"}
          PROVE  held'[s] # None /\ entry'[held'[s]] # None
      <4>1. pc[s] \in {"judge", "drop", "count", "try", "take"}
        BY <2>3, <3>3, <3>7 DEF Try
      <4> QED
        BY <3>2, <3>4, <4>1
    <3>8. \A k \in Keys : store'[k] # None => entry'[store'[k]] # None
      BY <3>2, <3>4
    <3> QED
      BY <3>2, <3>4, <3>5, <3>6, <3>7, <3>8
  <2> QED
    BY <1>6, <2>2, <2>3
<1>7. ASSUME NEW t \in Threads, Take(t) PROVE TypeOK'
  BY <1>7 DEF Take
<1>8. ASSUME NEW t \in Threads, Return(t) PROVE TypeOK'
  BY <1>8 DEF Return
<1>9. CASE Tick
  BY <1>9 DEF Tick
<1>10. CASE Restart
  BY <1>10 DEF Restart
<1>11. CASE UNCHANGED vars
  BY <1>11 DEF vars
<1> QED
  BY <1>1, <1>2, <1>3, <1>4, <1>5, <1>6, <1>7, <1>8, <1>9, <1>10, <1>11
  DEF Next, Check

\* Every variable keeps its type, and a check under way has its arguments
\* and, past the lookup, an entry that was issued.
THEOREM TypeCorrect == Spec => []TypeOK
BY TypeInit, TypeNext, PTL DEF Spec

-----------------------------------------------------------------------------
(* The inductive invariant, one lemma per action that disturbs it          *)

LEMMA InvInit == Init => Inv
<1> SUFFICES ASSUME Init PROVE Inv
  OBVIOUS
<1> USE NumbersAssumption, NoneAssumption DEF Init
<1>1. TypeOK
  BY TypeInit
<1>2. FiledUnderKey
  BY DEF FiledUnderKey
<1>3. AcceptancesReckoned
  <2> SUFFICES ASSUME NEW e \in Entries
               PROVE  Cardinality(Holders(e)) <= Cardinality(Threads)
                      /\ Cardinality(Holders(e)) \in Nat
    BY DEF AcceptancesReckoned
  <2> QED
    BY ThreadSets DEF Holders
<1>4. ConsumedIsGone
  BY DEF ConsumedIsGone
<1> QED
  BY <1>1, <1>2, <1>3, <1>4 DEF Inv

\* A new entry was never looked up, so that no check is about it.
LEMMA InvIssue ==
  ASSUME Inv, TypeOK', NEW t \in Threads, NEW email \in Emails,
         NEW code \in Codes, Issue(t, email, code)
  PROVE  Inv'
<1> USE NumbersAssumption, NoneAssumption, FunctionsAssumption
<1> USE DEF Inv, TypeOK
<1> DEFINE k == Lower[email]
<1>0. k \in Keys
  OBVIOUS
<1>1. PICK e \in Entries :
        /\ entry[e] = None
        /\ entry' = [entry EXCEPT ![e] = NewEntry(k, code)]
        /\ store' = [store EXCEPT ![k] = e]
        /\ latest' = [latest EXCEPT ![k] = e]
  BY IssueMakesEntry
<1>2. UNCHANGED <<now, pc, call, held, accepted>>
  BY DEF Issue
<1>3. \A f \in Entries : Holders(f)' = Holders(f)
  BY <1>2 DEF Holders
<1>5. entry'[e] = NewEntry(k, code) /\ \A f \in Entries \ {e} : entry'[f] = entry[f]
  BY <1>1
<1>6. FiledUnderKey'
  BY <1>0, <1>1, <1>2, <1>5 DEF FiledUnderKey, NewEntry
<1>8. AcceptancesReckoned'
  <2> SUFFICES ASSUME NEW f \in Entries
               PROVE  /\ accepted[f] + Cardinality(Holders(f)) <= Cardinality(Threads)
                      /\ accepted[f] > 0 => entry'[f] # None
    BY <1>2, <1>3 DEF AcceptancesReckoned
  <2>1. accepted[f] > 0 => entry[f] # None
    BY DEF AcceptancesReckoned
  <2>2. accepted[f] > 0 => entry'[f] # None
    BY <1>1, <1>5, <2>1
  <2> QED
    BY <2>2 DEF AcceptancesReckoned
<1>9. ConsumedIsGone'
  <2>1. accepted[e] = 0
    BY <1>1 DEF AcceptancesReckoned
  <2> QED
    BY <1>1, <1>2, <2>1 DEF ConsumedIsGone
<1> QED
  BY <1>6, <1>8, <1>9

\* An entry found in the dictionary was not accepted before.
LEMMA InvLookup ==
  ASSUME Inv, TypeOK', NEW t \in Threads, Lookup(t)
  PROVE  Inv'
<1> USE NoneAssumption DEF Inv, TypeOK, Lookup, Goto
<1> DEFINE e == store[call[t].key]
<1>0. call[t].key \in Keys
  BY DEF Asked
<1>1. FiledUnderKey'
  BY <1>0 DEF FiledUnderKey
<1>3. ASSUME NEW f \in Entries, f # e PROVE Holders(f)' = Holders(f)
  BY <1>3 DEF Holders
<1>4. ASSUME NEW f \in Entries, f = e
      PROVE  accepted[f] + Cardinality(Holders(f)') <= Cardinality(Threads)
  <2>1. accepted[f] = 0
    BY <1>0, <1>4 DEF ConsumedIsGone
  <2>2. Holders(f)' \in SUBSET Threads
    BY DEF Holders
  <2> QED
    BY <2>1, <2>2, ThreadSets
<1>5. AcceptancesReckoned'
  BY <1>3, <1>4 DEF AcceptancesReckoned
<1>6. ConsumedIsGone'
  BY DEF ConsumedIsGone
<1> QED
  BY <1>1, <1>5, <1>6

LEMMA InvJudge ==
  ASSUME Inv, TypeOK', NEW t \in Threads, Judge(t)
  PROVE  Inv'
<1> USE NoneAssumption DEF Inv, TypeOK, Judge, Goto
<1> DEFINE e == held[t]
<1>0. e \in Entries /\ entry[e] \in Fields
  OBVIOUS
<1>1. FiledUnderKey'
  BY DEF FiledUnderKey
<1>5. ASSUME NEW f \in Entries
      PROVE  accepted[f] + Cardinality(Holders(f)') <= Cardinality(Threads)
  <2>1. Holders(f)' \in SUBSET Holders(f) /\ Holders(f) \in SUBSET Threads
    BY DEF Holders
  <2>2. Cardinality(Holders(f)') <= Cardinality(Holders(f))
    BY <2>1, ThreadSets, FS_Subset
  <2> QED
    BY <2>1, <2>2, ThreadSets DEF AcceptancesReckoned
<1>6. AcceptancesReckoned'
  BY <1>5 DEF AcceptancesReckoned
<1>7. ConsumedIsGone'
  BY DEF ConsumedIsGone
<1> QED
  BY <1>1, <1>6, <1>7

LEMMA InvDrop ==
  ASSUME Inv, TypeOK', NEW t \in Threads, Drop(t)
  PROVE  Inv'
<1> USE NoneAssumption DEF Inv, TypeOK, Drop, Goto, Pop
<1>0. call[t].key \in Keys
  BY DEF Asked
<1>1. FiledUnderKey'
  BY <1>0 DEF FiledUnderKey
<1>2. \A f \in Entries : Holders(f)' = Holders(f)
  BY DEF Holders
<1>3. AcceptancesReckoned'
  BY <1>2 DEF AcceptancesReckoned
<1>4. ConsumedIsGone'
  BY <1>0 DEF ConsumedIsGone
<1> QED
  BY <1>1, <1>3, <1>4

LEMMA InvCount ==
  ASSUME Inv, TypeOK', NEW t \in Threads, Count(t)
  PROVE  Inv'
<1> USE NoneAssumption DEF Inv, TypeOK, Count, Goto
<1>1. FiledUnderKey' /\ ConsumedIsGone'
  BY DEF FiledUnderKey, ConsumedIsGone
<1>2. \A f \in Entries : Holders(f)' = Holders(f)
  BY DEF Holders
<1>3. AcceptancesReckoned'
  BY <1>2 DEF AcceptancesReckoned
<1> QED
  BY <1>1, <1>3

\* Whatever number is written, the entry keeps its key.
LEMMA InvTry ==
  ASSUME Inv, TypeOK', NEW t \in Threads, Try(t)
  PROVE  Inv'
<1> USE NoneAssumption DEF Inv, TypeOK, Try, Goto
<1> DEFINE e == held[t]
<1>0. e \in Entries /\ entry[e] \in Fields
  OBVIOUS
<1>1. /\ entry'[e] = [entry[e] EXCEPT !.attempts = seen[t] + 1]
      /\ \A f \in Entries \ {e} : entry'[f] = entry[f]
  BY <1>0
<1>2. entry'[e].key = entry[e].key
  BY <1>0, <1>1 DEF Fields
<1>3. entry'[e] # None /\ entry[e] # None
  <2>1. entry'[e] \in Fields
    BY <1>0, <1>1 DEF Fields
  <2> QED
    BY <1>0, <2>1
<1>4. Compared(e, call[t].value) \in {"error", "take", "false"}
  BY DEF Compared
<1>5. FiledUnderKey'
  <2>1. \A f \in Entries : entry[f] # None => entry'[f].key = entry[f].key
    BY <1>1, <1>2
  <2> QED
    BY <1>4, <2>1 DEF FiledUnderKey
<1>11. AcceptancesReckoned'
  <2> SUFFICES ASSUME NEW f \in Entries
               PROVE  /\ accepted[f] + Cardinality(Holders(f)') <= Cardinality(Threads)
                      /\ accepted[f] > 0 => entry'[f] # None
    BY DEF AcceptancesReckoned
  <2>1. Holders(f)' \in SUBSET Holders(f) /\ Holders(f) \in SUBSET Threads
    BY <1>4 DEF Holders
  <2>2. Cardinality(Holders(f)') <= Cardinality(Holders(f))
    BY <2>1, ThreadSets, FS_Subset
  <2>3. accepted[f] + Cardinality(Holders(f)') <= Cardinality(Threads)
    BY <2>1, <2>2, ThreadSets DEF AcceptancesReckoned
  <2>4. accepted[f] > 0 => entry'[f] # None
    BY <1>1, <1>3 DEF AcceptancesReckoned
  <2> QED
    BY <2>3, <2>4
<1>12. ConsumedIsGone'
  BY DEF ConsumedIsGone
<1> QED
  BY <1>5, <1>11, <1>12

\* The pop removes the accepted entry from the only key it can be under.
LEMMA InvTake ==
  ASSUME Inv, TypeOK', NEW t \in Threads, Take(t)
  PROVE  Inv'
<1> USE NoneAssumption DEF Inv, TypeOK, Take, Goto, Pop
<1> DEFINE e == held[t]
<1>0. e \in Entries /\ entry[e] # None /\ call[t].key \in Keys
  BY DEF Asked
<1>1. FiledUnderKey'
  BY <1>0 DEF FiledUnderKey
<1>3. t \in Holders(e) /\ Holders(e) \in SUBSET Threads
  BY DEF Holders
<1>4. Holders(e)' = Holders(e) \ {t}
  BY DEF Holders
<1>5. Cardinality(Holders(e)') = Cardinality(Holders(e)) - 1
  BY <1>3, <1>4, OneLess
<1>6. AcceptancesReckoned'
  <2> SUFFICES ASSUME NEW f \in Entries
               PROVE  /\ accepted'[f] + Cardinality(Holders(f)') <= Cardinality(Threads)
                      /\ accepted'[f] > 0 => entry'[f] # None
    BY DEF AcceptancesReckoned
  <2>1. CASE f = e
    <3>1. accepted'[f] = accepted[e] + 1 /\ entry'[f] # None
      BY <1>0, <2>1
    <3>2. accepted[e] + Cardinality(Holders(e)) <= Cardinality(Threads)
      BY <1>0 DEF AcceptancesReckoned
    <3> QED
      BY <1>0, <1>3, <1>5, <2>1, <3>1, <3>2, ThreadSets
  <2>2. CASE f # e
    <3>1. Holders(f)' = Holders(f)
      BY <2>2 DEF Holders
    <3> QED
      BY <2>2, <3>1 DEF AcceptancesReckoned
  <2> QED
    BY <2>1, <2>2
<1>7. ConsumedIsGone'
  <2> SUFFICES ASSUME NEW f \in Entries, accepted'[f] > 0, NEW k \in Keys
               PROVE  store'[k] # f
    BY DEF ConsumedIsGone
  <2>1. CASE f = e
    <3>1. entry[e].key = call[t].key
      BY DEF FiledUnderKey
    <3>2. CASE k = call[t].key
      BY <1>0, <3>2
    <3>3. CASE k # call[t].key
      BY <1>0, <2>1, <3>1, <3>3 DEF FiledUnderKey
    <3> QED
      BY <3>2, <3>3
  <2>2. CASE f # e
    BY <1>0, <2>2 DEF ConsumedIsGone
  <2> QED
    BY <2>1, <2>2
<1> QED
  BY <1>1, <1>6, <1>7

LEMMA InvReturn ==
  ASSUME Inv, TypeOK', NEW t \in Threads, Return(t)
  PROVE  Inv'
<1> USE NoneAssumption DEF Inv, TypeOK, Return, Goto, Results
<1>1. FiledUnderKey'
  BY DEF FiledUnderKey
<1>2. \A f \in Entries : Holders(f)' = Holders(f)
  BY DEF Holders
<1> QED
  BY <1>1, <1>2 DEF AcceptancesReckoned, ConsumedIsGone

LEMMA InvCall ==
  ASSUME Inv, TypeOK', NEW t \in Threads, NEW email \in Emails,
         NEW text \in Texts, Call(t, email, text)
  PROVE  Inv'
<1> USE NoneAssumption DEF Inv, TypeOK, Call, Goto
<1>1. FiledUnderKey'
  BY DEF FiledUnderKey
<1>2. \A f \in Entries : Holders(f)' = Holders(f)
  BY DEF Holders
<1> QED
  BY <1>1, <1>2 DEF AcceptancesReckoned, ConsumedIsGone

LEMMA InvRestart ==
  ASSUME Inv, TypeOK', Restart
  PROVE  Inv'
<1> USE NoneAssumption DEF Inv, TypeOK, Restart
<1>1. FiledUnderKey' /\ ConsumedIsGone'
  BY DEF FiledUnderKey, ConsumedIsGone
<1>2. ASSUME NEW f \in Entries
      PROVE  /\ Cardinality(Holders(f)') <= Cardinality(Holders(f))
             /\ Cardinality(Holders(f)) \in Nat /\ Cardinality(Holders(f)') \in Nat
  <2>1. Holders(f)' = {} /\ Holders(f) \in SUBSET Threads
    BY DEF Holders
  <2> QED
    BY <2>1, ThreadSets, FS_EmptySet
<1>4. AcceptancesReckoned'
  <2> SUFFICES ASSUME NEW f \in Entries
               PROVE  accepted[f] + Cardinality(Holders(f)') <= Cardinality(Threads)
    BY DEF AcceptancesReckoned
  <2>1. accepted[f] + Cardinality(Holders(f)) <= Cardinality(Threads)
    BY DEF AcceptancesReckoned
  <2>2. Cardinality(Threads) \in Nat
    BY ThreadSets
  <2> QED
    BY <1>2, <2>1, <2>2
<1> QED
  BY <1>1, <1>4

LEMMA InvStutter ==
  ASSUME Inv, TypeOK', UNCHANGED <<entry, store, pc, call, held, accepted>>
  PROVE  Inv'
<1>1. \A f \in Entries : Holders(f)' = Holders(f)
  BY DEF Holders
<1> QED
  BY <1>1 DEF Inv, FiledUnderKey, AcceptancesReckoned, ConsumedIsGone

LEMMA InvNext == Inv /\ [Next]_vars => Inv'
<1> SUFFICES ASSUME Inv, [Next]_vars PROVE Inv'
  OBVIOUS
<1>1. TypeOK'
  BY TypeNext DEF Inv
<1>2. ASSUME NEW t \in Threads, NEW email \in Emails, NEW code \in Codes,
             Issue(t, email, code)
      PROVE  Inv'
  BY <1>1, <1>2, InvIssue
<1>3. ASSUME NEW t \in Threads, NEW email \in Emails, NEW text \in Texts,
             Call(t, email, text)
      PROVE  Inv'
  BY <1>1, <1>3, InvCall
<1>4. ASSUME NEW t \in Threads, Check(t) PROVE Inv'
  BY <1>1, <1>4, InvLookup, InvJudge, InvDrop, InvCount, InvTry, InvTake,
     InvReturn DEF Check
<1>5. CASE Tick
  BY <1>1, <1>5, InvStutter DEF Tick
<1>6. CASE Restart
  BY <1>1, <1>6, InvRestart
<1>7. CASE UNCHANGED vars
  BY <1>1, <1>7, InvStutter DEF vars
<1> QED
  BY <1>2, <1>3, <1>4, <1>5, <1>6, <1>7 DEF Next

-----------------------------------------------------------------------------
(* The theorems                                                            *)

LEMMA Invariance == Spec => []Inv
BY InvInit, InvNext, PTL DEF Spec

\* An accepted code is under no key of _LOCAL_CODES ever again (main.py:186).
THEOREM ConsumedStaysGone == Spec => []ConsumedIsGone
<1>1. Inv => ConsumedIsGone
  BY DEF Inv
<1> QED
  BY <1>1, Invariance, PTL

\* One code is accepted at most once per thread of the server: only checks
\* that found it before it was taken out can accept it (main.py:178-187).
THEOREM AcceptancesAreBounded == Spec => []AcceptancesBounded
<1>1. Inv => AcceptancesBounded
  <2> SUFFICES ASSUME Inv, NEW e \in Entries
               PROVE  accepted[e] <= Cardinality(Threads)
    BY DEF AcceptancesBounded
  <2>1. Holders(e) \in SUBSET Threads /\ accepted[e] \in Nat
    BY DEF Inv, TypeOK, Holders
  <2> QED
    BY <2>1, ThreadSets DEF Inv, AcceptancesReckoned
<1> QED
  BY <1>1, Invariance, PTL

-----------------------------------------------------------------------------
(* Requests for one address take turns                                     *)

\* What in turn adds to Inv: of the checks under way no two are about one
\* key, so that each works on the entry its key holds.
Judged == {"judge", "drop", "count", "try", "take"}

OneAtATime ==
  \A s, t \in Threads :
    s # t /\ pc[s] # "idle" /\ pc[t] # "idle" => call[s].key # call[t].key

HeldIsStored ==
  \A t \in Threads : pc[t] \in Judged => store[call[t].key] = held[t]

\* Time and attempts only go up: an entry that was refused stays so.
DroppedIsRefused ==
  \A t \in Threads : pc[t] = "drop" => Refused(held[t])

\* No increment is lost: attempts counts the texts that were compared, and a
\* check that read it and is about to write it back finds what it read.
EveryTryCounted ==
  /\ \A e \in Entries : entry[e] = None => tried[e] = 0
  /\ \A e \in Entries : entry[e] # None => tried[e] = entry[e].attempts
  /\ \A t \in Threads : pc[t] \in {"count", "try"} =>
       entry[held[t]].attempts < MaxAttempts
  /\ \A t \in Threads : pc[t] = "try" => seen[t] = entry[held[t]].attempts

LatestMade == \A k \in Keys : latest[k] # None => entry[latest[k]] # None

InTurnInv ==
  /\ Inv
  /\ OneAtATime
  /\ HeldIsStored
  /\ DroppedIsRefused
  /\ EveryTryCounted
  /\ AttemptsBounded
  /\ LatestMade
  /\ LiveCodeKept
  /\ AcceptedOnce

\* Only the check of its own key is about an entry of the dictionary.
LEMMA OwnKey ==
  ASSUME InTurnInv, NEW t \in Threads, pc[t] \in Judged, NEW s \in Threads,
         pc[s] \in Judged, held[s] = held[t]
  PROVE  s = t
<1>1. call[s].key = call[t].key
  BY DEF InTurnInv, Inv, FiledUnderKey, Judged
<1> QED
  BY <1>1 DEF InTurnInv, OneAtATime, Judged

LEMMA InTurnInit == Init => InTurnInv
<1> SUFFICES ASSUME Init PROVE InTurnInv
  OBVIOUS
<1>1. Inv
  BY InvInit
<1> QED
  BY <1>1, NumbersAssumption
  DEF Init, InTurnInv, OneAtATime, HeldIsStored, DroppedIsRefused,
      EveryTryCounted, AttemptsBounded, LatestMade, LiveCodeKept, AcceptedOnce,
      Judged

LEMMA InTurnIsNext == NextInTurn => Next
BY DEF NextInTurn, Next

LEMMA InTurnIssue ==
  ASSUME InTurnInv, Inv', NEW t \in Threads, NEW email \in Emails,
         NEW code \in Codes, Quiet(Lower[email]), Issue(t, email, code)
  PROVE  InTurnInv'
<1> USE NumbersAssumption, NoneAssumption, FunctionsAssumption
<1> USE DEF InTurnInv, Inv, TypeOK
<1> DEFINE k == Lower[email]
<1>0. k \in Keys
  OBVIOUS
<1>1. PICK e \in Entries :
        /\ entry[e] = None
        /\ entry' = [entry EXCEPT ![e] = NewEntry(k, code)]
        /\ store' = [store EXCEPT ![k] = e]
        /\ latest' = [latest EXCEPT ![k] = e]
  BY IssueMakesEntry
<1>2. UNCHANGED <<now, pc, call, held, seen, tried, accepted>>
  BY DEF Issue
<1>3. entry'[e] # None /\ \A f \in Entries \ {e} : entry'[f] = entry[f]
  <2>1. NewEntry(k, code) \in Fields
    BY <1>0 DEF NewEntry, Fields
  <2> QED
    BY <1>1, <2>1
<1>4. OneAtATime' /\ AcceptedOnce'
  BY <1>2 DEF OneAtATime, AcceptedOnce
<1>5. HeldIsStored'
  BY <1>0, <1>1, <1>2 DEF HeldIsStored, Quiet, Judged
<1>6. DroppedIsRefused'
  BY <1>1, <1>2, <1>3 DEF DroppedIsRefused, Refused
<1>7. LatestMade'
  BY <1>0, <1>1, <1>3 DEF LatestMade
<1>8. LiveCodeKept'
  <2> SUFFICES ASSUME NEW j \in Keys, latest'[j] # None,
                      accepted'[latest'[j]] = 0,
                      now' <= entry'[latest'[j]].expires,
                      entry'[latest'[j]].attempts < MaxAttempts
               PROVE  store'[j] = latest'[j]
    BY DEF LiveCodeKept
  <2>1. CASE j = k
    BY <1>0, <1>1, <2>1
  <2>2. CASE j # k
    <3>1. latest'[j] = latest[j] /\ latest[j] # e /\ latest[j] \in Entries
      BY <1>0, <1>1, <2>2 DEF LatestMade
    <3> QED
      BY <1>0, <1>1, <1>2, <1>3, <2>2, <3>1 DEF LiveCodeKept
  <2> QED
    BY <2>1, <2>2
<1>9. EveryTryCounted' /\ AttemptsBounded'
  <2>1. entry'[e].attempts = 0
    BY <1>1 DEF NewEntry
  <2>2. \A s \in Threads : pc[s] \in {"count", "try"} => held[s] # e
    BY <1>1
  <2> QED
    BY <1>1, <1>2, <1>3, <2>1, <2>2 DEF EveryTryCounted, AttemptsBounded
<1> QED
  BY <1>4, <1>5, <1>6, <1>7, <1>8, <1>9

LEMMA InTurnCall ==
  ASSUME InTurnInv, Inv', NEW t \in Threads, NEW email \in Emails,
         NEW text \in Texts, Quiet(Lower[email]), Call(t, email, text)
  PROVE  InTurnInv'
<1> USE DEF InTurnInv, Inv, TypeOK, Call, Goto
<1>1. OneAtATime'
  BY DEF OneAtATime, Quiet
<1>2. HeldIsStored' /\ DroppedIsRefused'
  BY DEF HeldIsStored, DroppedIsRefused, Refused, Judged
<1>3. LatestMade' /\ LiveCodeKept' /\ AcceptedOnce'
  BY DEF LatestMade, LiveCodeKept, AcceptedOnce
<1>4. EveryTryCounted' /\ AttemptsBounded'
  BY DEF EveryTryCounted, AttemptsBounded
<1> QED
  BY <1>1, <1>2, <1>3, <1>4

LEMMA InTurnLookup ==
  ASSUME InTurnInv, Inv', NEW t \in Threads, Lookup(t)
  PROVE  InTurnInv'
<1> USE DEF InTurnInv, Inv, TypeOK, Lookup, Goto
<1>1. OneAtATime'
  BY DEF OneAtATime
<1>2. HeldIsStored' /\ DroppedIsRefused'
  BY DEF HeldIsStored, DroppedIsRefused, Refused, Judged
<1>3. LatestMade' /\ LiveCodeKept' /\ AcceptedOnce'
  BY DEF LatestMade, LiveCodeKept, AcceptedOnce
<1>4. EveryTryCounted' /\ AttemptsBounded'
  BY DEF EveryTryCounted, AttemptsBounded
<1> QED
  BY <1>1, <1>2, <1>3, <1>4

LEMMA InTurnJudge ==
  ASSUME InTurnInv, Inv', NEW t \in Threads, Judge(t)
  PROVE  InTurnInv'
<1> USE DEF InTurnInv, Inv, TypeOK, Judge, Goto
<1>1. OneAtATime'
  BY DEF OneAtATime
<1>2. HeldIsStored' /\ DroppedIsRefused'
  BY DEF HeldIsStored, DroppedIsRefused, Refused, Judged
<1>3. LatestMade' /\ LiveCodeKept' /\ AcceptedOnce'
  BY DEF LatestMade, LiveCodeKept, AcceptedOnce
<1>4. EveryTryCounted' /\ AttemptsBounded'
  <2>1. held[t] \in Entries /\ entry[held[t]].attempts \in Nat
    BY DEF Fields
  <2>2. pc'[t] = "count" => entry[held[t]].attempts < MaxAttempts
    BY <2>1, NumbersAssumption DEF Refused
  <2> QED
    BY <2>2 DEF EveryTryCounted, AttemptsBounded
<1> QED
  BY <1>1, <1>2, <1>3, <1>4

\* The entry popped is the refused one.
LEMMA InTurnDrop ==
  ASSUME InTurnInv, Inv', NEW t \in Threads, Drop(t)
  PROVE  InTurnInv'
<1> USE DEF InTurnInv, Inv, TypeOK, Drop, Goto, Pop
<1>0. call[t].key \in Keys /\ store[call[t].key] = held[t] /\ Refused(held[t])
  BY DEF Asked, HeldIsStored, DroppedIsRefused, Judged
<1>1. OneAtATime'
  BY DEF OneAtATime
<1>2. HeldIsStored' /\ DroppedIsRefused'
  BY <1>0 DEF HeldIsStored, DroppedIsRefused, Refused, Judged, OneAtATime
<1>3. LatestMade' /\ AcceptedOnce'
  BY DEF LatestMade, AcceptedOnce
<1>4. LiveCodeKept'
  <2> SUFFICES ASSUME NEW k \in Keys, latest[k] # None,
                      accepted[latest[k]] = 0,
                      now <= entry[latest[k]].expires,
                      entry[latest[k]].attempts < MaxAttempts
               PROVE  store'[k] = latest[k]
    BY DEF LiveCodeKept
  <2>1. store[k] = latest[k] /\ entry[latest[k]] \in Fields
    BY DEF LiveCodeKept, LatestMade
  <2>2. ~Refused(latest[k])
    BY <2>1, NumbersAssumption DEF Refused, Fields
  <2>3. k # call[t].key
    BY <1>0, <2>1, <2>2
  <2> QED
    BY <2>1, <2>3
<1>5. EveryTryCounted' /\ AttemptsBounded'
  BY DEF EveryTryCounted, AttemptsBounded
<1> QED
  BY <1>1, <1>2, <1>3, <1>4, <1>5

LEMMA InTurnCount ==
  ASSUME InTurnInv, Inv', NEW t \in Threads, Count(t)
  PROVE  InTurnInv'
<1> USE DEF InTurnInv, Inv, TypeOK, Count, Goto
<1>1. OneAtATime'
  BY DEF OneAtATime
<1>2. HeldIsStored' /\ DroppedIsRefused'
  BY DEF HeldIsStored, DroppedIsRefused, Refused, Judged
<1>3. LatestMade' /\ LiveCodeKept' /\ AcceptedOnce'
  BY DEF LatestMade, LiveCodeKept, AcceptedOnce
<1>4. EveryTryCounted' /\ AttemptsBounded'
  BY DEF EveryTryCounted, AttemptsBounded
<1> QED
  BY <1>1, <1>2, <1>3, <1>4

\* The thread writes the next number after the one that is there: no other
\* check is about the entry.
LEMMA InTurnTry ==
  ASSUME InTurnInv, Inv', NEW t \in Threads, Try(t)
  PROVE  InTurnInv'
<1> USE NoneAssumption DEF InTurnInv, Inv, TypeOK, Try, Goto
<1> DEFINE e == held[t]
<1>0. e \in Entries /\ entry[e] \in Fields
  OBVIOUS
<1>1. /\ \A f \in Entries \ {e} : entry'[f] = entry[f]
      /\ entry'[e].expires = entry[e].expires
      /\ entry'[e].attempts = entry[e].attempts + 1
      /\ entry[e].attempts \in Nat /\ entry[e].expires \in Int
      /\ entry[e].attempts < MaxAttempts
      /\ entry'[e] # None
  BY <1>0 DEF Fields, EveryTryCounted
<1>2. Compared(e, call[t].value) \in {"error", "take", "false"}
  BY DEF Compared
<1>3. OneAtATime'
  BY DEF OneAtATime
<1>4. HeldIsStored'
  BY <1>2 DEF HeldIsStored, Judged
<1>5. DroppedIsRefused'
  <2> SUFFICES ASSUME NEW s \in Threads, pc'[s] = "drop" PROVE Refused(held[s])'
    BY DEF DroppedIsRefused
  <2>1. pc[s] = "drop" /\ held[s] \in Entries /\ s # t
    BY <1>2
  <2>2. Refused(held[s])
    BY <2>1 DEF DroppedIsRefused
  <2> QED
    BY <1>1, <2>1, <2>2, NumbersAssumption DEF Refused
<1>6. LatestMade' /\ AcceptedOnce'
  BY <1>1 DEF LatestMade, AcceptedOnce
<1>7. LiveCodeKept'
  BY <1>1, NumbersAssumption DEF LiveCodeKept
<1>8. \A s \in Threads \ {t} : pc[s] \in Judged => held[s] # e
  BY OwnKey DEF Judged
<1>9. EveryTryCounted'
  <2>1. /\ \A f \in Entries \ {e} : tried'[f] = tried[f]
        /\ tried'[e] = tried[e] + 1 /\ tried[e] = entry[e].attempts
    BY <1>0 DEF EveryTryCounted
  <2>2. \A s \in Threads : pc'[s] \in {"count", "try"} =>
          s # t /\ pc[s] = pc'[s] /\ held[s] \in Entries \ {e}
    BY <1>2, <1>8 DEF Judged
  <2>3. \A s \in Threads \ {t} : seen'[s] = seen[s]
    OBVIOUS
  <2> QED
    BY <1>0, <1>1, <2>1, <2>2, <2>3 DEF EveryTryCounted
<1>10. AttemptsBounded'
  <2>1. tried[e] = entry[e].attempts /\ tried'[e] = tried[e] + 1
    BY <1>0 DEF EveryTryCounted
  <2> QED
    BY <1>1, <2>1, NumbersAssumption DEF AttemptsBounded
<1> QED
  BY <1>3, <1>4, <1>5, <1>6, <1>7, <1>9, <1>10

\* The entry popped is the accepted one, which was in the dictionary.
LEMMA InTurnTake ==
  ASSUME InTurnInv, Inv', NEW t \in Threads, Take(t)
  PROVE  InTurnInv'
<1> USE NoneAssumption DEF InTurnInv, Inv, TypeOK, Take, Goto, Pop
<1>0. call[t].key \in Keys /\ store[call[t].key] = held[t] /\ held[t] \in Entries
  BY DEF Asked, HeldIsStored, Judged
<1>1. accepted[held[t]] = 0
  BY <1>0 DEF ConsumedIsGone
<1>2. OneAtATime'
  BY DEF OneAtATime
<1>3. HeldIsStored' /\ DroppedIsRefused'
  BY <1>0 DEF HeldIsStored, DroppedIsRefused, Refused, Judged, OneAtATime
<1>4. LatestMade' /\ AcceptedOnce'
  BY <1>0, <1>1 DEF LatestMade, AcceptedOnce
<1>5. LiveCodeKept'
  BY <1>0, <1>1 DEF LiveCodeKept
<1>6. EveryTryCounted' /\ AttemptsBounded'
  BY DEF EveryTryCounted, AttemptsBounded
<1> QED
  BY <1>2, <1>3, <1>4, <1>5, <1>6

LEMMA InTurnReturn ==
  ASSUME InTurnInv, Inv', NEW t \in Threads, Return(t)
  PROVE  InTurnInv'
<1> USE DEF InTurnInv, Inv, TypeOK, Return, Goto, Results
<1>1. OneAtATime'
  BY DEF OneAtATime
<1>2. HeldIsStored' /\ DroppedIsRefused'
  BY DEF HeldIsStored, DroppedIsRefused, Refused, Judged
<1>3. LatestMade' /\ LiveCodeKept' /\ AcceptedOnce'
  BY DEF LatestMade, LiveCodeKept, AcceptedOnce
<1>4. EveryTryCounted' /\ AttemptsBounded'
  BY DEF EveryTryCounted, AttemptsBounded
<1> QED
  BY <1>1, <1>2, <1>3, <1>4

LEMMA InTurnTick ==
  ASSUME InTurnInv, Inv', Tick
  PROVE  InTurnInv'
<1> USE NumbersAssumption, NoneAssumption DEF InTurnInv, Inv, TypeOK, Tick
<1>1. /\ OneAtATime' /\ HeldIsStored' /\ LatestMade' /\ AcceptedOnce'
      /\ EveryTryCounted' /\ AttemptsBounded'
  BY DEF OneAtATime, HeldIsStored, LatestMade, AcceptedOnce, EveryTryCounted,
         AttemptsBounded
<1>2. \A f \in Entries : entry[f] # None => entry[f].expires \in Int
  BY DEF Fields
<1>3. DroppedIsRefused'
  BY <1>2 DEF DroppedIsRefused, Refused
<1>4. LiveCodeKept'
  BY <1>2 DEF LiveCodeKept, LatestMade
<1> QED
  BY <1>1, <1>3, <1>4

LEMMA InTurnNext == InTurnInv /\ [NextInTurn]_vars => InTurnInv'
<1> SUFFICES ASSUME InTurnInv, [NextInTurn]_vars PROVE InTurnInv'
  OBVIOUS
<1>1. Inv'
  BY InvNext, InTurnIsNext DEF InTurnInv
<1>2. ASSUME NEW t \in Threads, NEW email \in Emails, NEW code \in Codes,
             Quiet(Lower[email]), Issue(t, email, code)
      PROVE  InTurnInv'
  BY <1>1, <1>2, InTurnIssue
<1>3. ASSUME NEW t \in Threads, NEW email \in Emails, NEW text \in Texts,
             Quiet(Lower[email]), Call(t, email, text)
      PROVE  InTurnInv'
  BY <1>1, <1>3, InTurnCall
<1>4. ASSUME NEW t \in Threads, Check(t) PROVE InTurnInv'
  BY <1>1, <1>4, InTurnLookup, InTurnJudge, InTurnDrop, InTurnCount, InTurnTry,
     InTurnTake, InTurnReturn DEF Check
<1>5. CASE Tick
  BY <1>1, <1>5, InTurnTick
<1>6. CASE Restart
  BY <1>1, <1>6 DEF Restart, InTurnInv, OneAtATime, HeldIsStored,
     DroppedIsRefused, EveryTryCounted, AttemptsBounded, LatestMade,
     LiveCodeKept, AcceptedOnce, Judged
<1>7. CASE UNCHANGED vars
  BY <1>1, <1>7 DEF vars, InTurnInv, OneAtATime, HeldIsStored,
     DroppedIsRefused, Refused, EveryTryCounted, AttemptsBounded, LatestMade,
     LiveCodeKept, AcceptedOnce, Judged
<1> QED
  BY <1>2, <1>3, <1>4, <1>5, <1>6, <1>7 DEF NextInTurn

LEMMA InTurnInvariance == SpecInTurn => []InTurnInv
BY InTurnInit, InTurnNext, PTL DEF SpecInTurn

-----------------------------------------------------------------------------
(* The refinement of AtomicCodes                                           *)

\* The checks under way of key k that have decided to take its entry out.
Gone(k) ==
  \E t \in Threads :
    /\ held[t] = store[k]
    /\ pc[t] \in {"drop", "count", "try", "take"}
    /\ pc[t] = "drop" \/ Decided(t) = "true"

LEMMA SettledIs ==
  ASSUME NEW k \in Keys
  PROVE  /\ store[k] = None \/ Gone(k) => Settled(k) = None
         /\ store[k] # None /\ ~Gone(k) =>
              Settled(k) = [code |-> entry[store[k]].code,
                            expires |-> entry[store[k]].expires,
                            attempts |-> entry[store[k]].attempts
                                           + Cardinality(Trying(store[k]))]
BY DEF Settled, Gone

\* A thread that does not move decides what it decided, as an entry keeps
\* its code.
LEMMA DecidedSame ==
  ASSUME Inv, NEW t \in Threads,
         pc'[t] = pc[t], held'[t] = held[t], call'[t] = call[t],
         pc[t] \in {"count", "try"} =>
           entry'[held[t]].code = entry[held[t]].code
  PROVE  Decided(t)' = Decided(t)
BY DEF Decided, Compared

\* A step of thread t leaves the other keys as they are settled.
LEMMA OtherKeysSettled ==
  ASSUME InTurnInv, NEW t \in Threads, pc[t] # "idle",
         \A f \in Entries \ {held[t]} : entry'[f] = entry[f],
         pc[t] \notin Judged => entry' = entry,
         \A s \in Threads \ {t} :
           pc'[s] = pc[s] /\ held'[s] = held[s] /\ call'[s] = call[s],
         pc'[t] \in {"drop", "count", "try", "take"} => held'[t] = held[t] /\ pc[t] \in Judged,
         NEW k \in Keys, k # call[t].key, store'[k] = store[k]
  PROVE  Settled(k)' = Settled(k)
<1> USE NoneAssumption DEF InTurnInv, Inv, TypeOK
<1> DEFINE e == store[k]
<1>1. CASE e = None
  BY <1>1, SettledIs DEF Settled
<1>2. CASE e # None
  <2>1. e \in Entries /\ entry[e].key = k
    BY <1>2 DEF FiledUnderKey
  <2>2. pc[t] \in Judged => entry[held[t]].key = call[t].key
    BY DEF FiledUnderKey, Judged
  <2>3. entry'[e] = entry[e]
    BY <2>1, <2>2
  <2>4. /\ ~(held[t] = e /\ pc[t] \in {"drop", "count", "try", "take"})
        /\ ~(held'[t] = e /\ pc'[t] \in {"drop", "count", "try", "take"})
    BY <2>1, <2>2 DEF Judged
  <2>5. Trying(e)' = Trying(e)
    BY <2>4 DEF Trying
  <2>6. ASSUME NEW s \in Threads \ {t}, held[s] = e
        PROVE  Decided(s)' = Decided(s)
    BY <2>3, <2>6, DecidedSame
  <2>7. Gone(k)' <=> Gone(k)
    BY <2>4, <2>6 DEF Gone
  <2> QED
    BY <1>2, <2>3, <2>5, <2>7 DEF Settled, Gone
<1> QED
  BY <1>1, <1>2

\* Until its check has decided, an entry that is being checked is settled as
\* it is.
LEMMA SettledUndecided ==
  ASSUME InTurnInv, NEW t \in Threads, pc[t] = "judge"
  PROVE  LET e == held[t] IN
         /\ e \in Entries
         /\ entry[e] \in Fields
         /\ call[t].key \in Keys
         /\ store[call[t].key] = e
         /\ \A s \in Threads \ {t} : ~(held[s] = e /\ pc[s] \in Judged)
         /\ Settled(call[t].key) = [code |-> entry[e].code,
                                    expires |-> entry[e].expires,
                                    attempts |-> entry[e].attempts]
<1> USE NoneAssumption DEF InTurnInv, Inv, TypeOK
<1> DEFINE e == held[t]
           k == call[t].key
<1>1. e \in Entries /\ entry[e] \in Fields /\ k \in Keys /\ store[k] = e /\ e # None
  BY DEF Asked, HeldIsStored, Judged
<1>2. \A s \in Threads \ {t} : ~(held[s] = e /\ pc[s] \in Judged)
  BY OwnKey DEF Judged
<1>3. Trying(e) = {}
  BY <1>2 DEF Trying, Judged
<1>4. ~Gone(k)
  BY <1>1, <1>2 DEF Gone, Judged
<1>5. entry[e].attempts + Cardinality(Trying(e)) = entry[e].attempts
  BY <1>1, <1>3, FS_EmptySet DEF Fields
<1> QED
  BY <1>1, <1>2, <1>4, <1>5, SettledIs

Live  == [k \in Keys |-> Settled(k)]
Phase == [t \in Threads |-> Decided(t)]

LEMMA AtomicStutter ==
  ASSUME \A k \in Keys : Settled(k)' = Settled(k),
         \A t \in Threads : Decided(t)' = Decided(t),
         UNCHANGED <<now, call>>
  PROVE  UNCHANGED Atomic!vars
BY DEF Atomic!vars

LEMMA IssueOffers ==
  ASSUME InTurnInv, NEW t \in Threads, NEW email \in Emails,
         NEW code \in Codes, Quiet(Lower[email]), Issue(t, email, code)
  PROVE  Atomic!Next
<1> USE NumbersAssumption, NoneAssumption, FunctionsAssumption
<1> USE DEF InTurnInv, Inv, TypeOK
<1> DEFINE k == Lower[email]
<1>0. k \in Keys
  OBVIOUS
<1>1. PICK e \in Entries :
        /\ entry[e] = None
        /\ entry' = [entry EXCEPT ![e] = NewEntry(k, code)]
        /\ store' = [store EXCEPT ![k] = e]
        /\ latest' = [latest EXCEPT ![k] = e]
  BY IssueMakesEntry
<1>2. UNCHANGED <<now, pc, call, held, accepted>>
  BY DEF Issue
<1>3. entry'[e] = NewEntry(k, code) /\ \A f \in Entries \ {e} : entry'[f] = entry[f]
  BY <1>1
<1>4. \A s \in Threads : pc[s] \in Judged => held[s] # e
  BY <1>1 DEF Judged
<1>5. \A s \in Threads : Decided(s)' = Decided(s)
  BY <1>2, <1>3, <1>4, DecidedSame DEF Judged
<1>6. \A f : Trying(f)' = Trying(f)
  BY <1>2 DEF Trying
<1>7. ASSUME NEW j \in Keys, j # k PROVE Settled(j)' = Settled(j)
  <2>1. store'[j] = store[j] /\ store[j] # e
    BY <1>0, <1>1, <1>7
  <2>2. Gone(j)' <=> Gone(j)
    BY <1>2, <1>5, <2>1 DEF Gone
  <2>3. store[j] # None => entry'[store[j]] = entry[store[j]]
    BY <1>3, <2>1
  <2> QED
    BY <1>6, <2>1, <2>2, <2>3 DEF Settled, Gone
<1>8. Settled(k)' = [code |-> code, expires |-> now + TTL, attempts |-> 0]
  <2>1. store'[k] = e /\ e # None
    BY <1>0, <1>1
  <2>2. ~Gone(k)'
    BY <1>2, <1>4, <2>1 DEF Gone, Judged
  <2>3. Trying(e) = {}
    BY <1>4 DEF Trying, Judged
  <2>4. Cardinality(Trying(e)') = 0
    BY <1>6, <2>3, FS_EmptySet
  <2>5. /\ entry'[e].code = code
        /\ entry'[e].expires = now + TTL
        /\ entry'[e].attempts = 0
    BY <1>3 DEF NewEntry
  <2>6. entry'[e].attempts + Cardinality(Trying(e)') = 0
    BY <2>4, <2>5
  <2>7. Settled(k)' = [code |-> entry'[e].code, expires |-> entry'[e].expires,
          attempts |-> entry'[e].attempts + Cardinality(Trying(e)')]
    BY <2>1, <2>2 DEF Settled, Gone
  <2> QED
    BY <2>5, <2>6, <2>7
<1>9. Live' = [Live EXCEPT ![k] =
                 [code |-> code, expires |-> now + TTL, attempts |-> 0]]
  BY <1>0, <1>7, <1>8 DEF Live
<1>10. Phase' = Phase
  BY <1>5 DEF Phase
<1>11. Atomic!Offer(k, code)
  BY <1>2, <1>9, <1>10 DEF Atomic!Offer, Live, Phase
<1> QED
  BY <1>0, <1>11 DEF Atomic!Next

LEMMA CallAsks ==
  ASSUME InTurnInv, NEW t \in Threads, NEW email \in Emails,
         NEW text \in Texts, Call(t, email, text)
  PROVE  Atomic!Next
<1> USE DEF InTurnInv, Inv, TypeOK, Call, Goto
<1>1. ASSUME NEW s \in Threads \ {t} PROVE Decided(s)' = Decided(s)
  BY DecidedSame
<1>2. Decided(t) = "idle" /\ Decided(t)' = "asked"
  BY DEF Decided
<1>3. \A f : Trying(f)' = Trying(f)
  BY DEF Trying
<1>4. ASSUME NEW k \in Keys PROVE Settled(k)' = Settled(k)
  <2>1. Gone(k)' <=> Gone(k)
    BY <1>1 DEF Gone
  <2> QED
    BY <1>3, <2>1 DEF Settled, Gone
<1>5. Live' = Live
  BY <1>4 DEF Live
<1>6. Phase[t] = "idle" /\ Phase' = [Phase EXCEPT ![t] = "asked"]
  BY <1>1, <1>2 DEF Phase
<1>7. Atomic!Ask(t, Lower[email], Strip[text])
  BY <1>5, <1>6 DEF Atomic!Ask, Live, Phase
<1>8. Lower[email] \in Keys /\ Strip[text] \in Values
  BY DEF Keys, Values
<1> QED
  BY <1>7, <1>8 DEF Atomic!Next

\* What a step has to show that settles the check of thread t.
LEMMA Settles ==
  ASSUME NEW t \in Threads, call[t].key \in Keys, NEW remains, NEW verdict,
         Decided(t) = "asked", Decided(t)' = verdict,
         Settled(call[t].key)' = remains,
         \A k \in Keys \ {call[t].key} : Settled(k)' = Settled(k),
         \A s \in Threads \ {t} : Decided(s)' = Decided(s),
         UNCHANGED <<now, call>>
  PROVE  Atomic!Settle(t, remains, verdict) /\ Phase[t] = "asked"
<1>1. Live' = [Live EXCEPT ![call[t].key] = remains]
  BY DEF Live
<1>2. Phase[t] = "asked" /\ Phase' = [Phase EXCEPT ![t] = verdict]
  BY DEF Phase
<1> QED
  BY <1>1, <1>2 DEF Atomic!Settle, Live, Phase

\* A check that finds no entry is refused.
LEMMA LookupRefuses ==
  ASSUME InTurnInv, NEW t \in Threads, Lookup(t)
  PROVE  Atomic!Next \/ UNCHANGED Atomic!vars
<1> USE NoneAssumption DEF InTurnInv, Inv, TypeOK, Lookup, Goto
<1> DEFINE k == call[t].key
<1>0. k \in Keys
  BY DEF Asked
<1>1. ASSUME NEW s \in Threads \ {t} PROVE Decided(s)' = Decided(s)
  BY DecidedSame
<1>2. ASSUME NEW j \in Keys, j # k PROVE Settled(j)' = Settled(j)
  BY <1>2, OtherKeysSettled DEF Judged
<1>3. CASE store[k] = None
  <2>1. Settled(k) = None /\ Settled(k)' = None
    BY <1>0, <1>3 DEF Settled
  <2>2. Decided(t) = "asked" /\ Decided(t)' = "false"
    BY <1>3 DEF Decided
  <2>3. Atomic!Settle(t, None, "false") /\ Phase[t] = "asked"
    BY <1>0, <1>1, <1>2, <2>1, <2>2, Settles
  <2>4. Live[k] = None
    BY <1>0, <2>1 DEF Live
  <2>5. Atomic!Refuse(t)
    BY <2>3, <2>4 DEF Atomic!Refuse, Live, Phase
  <2> QED
    BY <2>5 DEF Atomic!Next
<1>4. CASE store[k] # None
  <2>1. Decided(t) = "asked" /\ Decided(t)' = "asked"
    BY <1>4 DEF Decided
  <2>2. \A f : Trying(f)' = Trying(f)
    BY <1>4 DEF Trying
  <2>3. Gone(k)' <=> Gone(k)
    BY <1>1, <1>4 DEF Gone
  <2>4. Settled(k)' = Settled(k)
    BY <2>2, <2>3 DEF Settled, Gone
  <2> QED
    BY <1>1, <1>2, <2>1, <2>4, AtomicStutter
<1> QED
  BY <1>3, <1>4

\* The verdict on an entry, which the rest of the check only carries out: the
\* old or used-up code is refused, the right one accepted, any other text
\* costs an attempt.
LEMMA JudgeDecides ==
  ASSUME InTurnInv, NEW t \in Threads, Judge(t)
  PROVE  Atomic!Next
<1> USE NoneAssumption, NumbersAssumption
<1> USE DEF InTurnInv, Inv, TypeOK, Judge, Goto
<1> DEFINE k == call[t].key
           v == call[t].value
           e == held[t]
           c == [code |-> entry[e].code, expires |-> entry[e].expires,
                 attempts |-> entry[e].attempts]
<1>1. /\ e \in Entries /\ entry[e] \in Fields /\ k \in Keys /\ store[k] = e
      /\ \A s \in Threads \ {t} : ~(held[s] = e /\ pc[s] \in Judged)
      /\ Settled(k) = c
  BY SettledUndecided
<1>2. Phase[t] = "asked" /\ Live[k] = c /\ c # None /\ e # None
      /\ Decided(t) = "asked"
  <2>1. c \in Shown
    BY <1>1 DEF Fields, Shown
  <2> QED
    BY <1>1, <2>1 DEF Decided, Phase, Live
<1>3. ASSUME NEW s \in Threads \ {t} PROVE Decided(s)' = Decided(s)
  BY DecidedSame
<1>4. ASSUME NEW j \in Keys, j # k PROVE Settled(j)' = Settled(j)
  BY <1>4, OtherKeysSettled DEF Judged
<1>5. Atomic!Dead(c) <=> Refused(e)
  BY DEF Atomic!Dead, Refused
<1>6. CASE Refused(e)
  <2>1. pc' = [pc EXCEPT ![t] = "drop"]
    BY <1>6
  <2>2. Decided(t)' = "false"
    BY <2>1 DEF Decided
  <2>3. Settled(k)' = None
    BY <1>1, <2>1 DEF Settled
  <2>4. Atomic!Settle(t, None, "false")
    BY <1>1, <1>2, <1>3, <1>4, <2>2, <2>3, Settles
  <2>5. Atomic!Refuse(t)
    BY <1>2, <1>5, <1>6, <2>4 DEF Atomic!Refuse, Live, Phase
  <2> QED
    BY <2>5 DEF Atomic!Next
<1>7. CASE ~Refused(e)
  <2>1. pc' = [pc EXCEPT ![t] = "count"]
    BY <1>7
  <2>2. CASE Compared(e, v) = "take"
    <3>1. Decided(t)' = "true"
      BY <2>1, <2>2 DEF Decided, Compared
    <3>2. Settled(k)' = None
      BY <1>1, <2>1, <3>1 DEF Settled
    <3>3. Atomic!Settle(t, None, "true")
      BY <1>1, <1>2, <1>3, <1>4, <3>1, <3>2, Settles
    <3>4. v = c.code
      BY <2>2 DEF Compared
    <3>5. Atomic!Accept(t)
      BY <1>2, <1>5, <1>7, <3>3, <3>4 DEF Atomic!Accept, Live, Phase
    <3> QED
      BY <3>5 DEF Atomic!Next
  <2>3. CASE Compared(e, v) # "take"
    <3> DEFINE verdict == IF v \in NonAscii THEN "error" ELSE "false"
               remains == [c EXCEPT !.attempts = @ + 1]
    <3>1. v # c.code
      BY <1>1, <2>3, FunctionsAssumption DEF Compared, Fields
    <3>2. Decided(t)' = verdict
      BY <2>1, <2>3 DEF Decided, Compared
    <3>3. ~Gone(k)'
      BY <1>1, <2>1, <3>2 DEF Gone, Judged
    <3>4. Trying(e)' = {t}
      BY <1>1, <2>1 DEF Trying, Judged
    <3>5. Cardinality(Trying(e)') = 1
      BY <3>4, FS_Singleton
    <3>6. entry[e].attempts + Cardinality(Trying(e)') = c.attempts + 1
      BY <3>5
    <3>7. Settled(k)' = [code |-> entry[e].code, expires |-> entry[e].expires,
             attempts |-> entry[e].attempts + Cardinality(Trying(e)')]
      BY <1>1, <1>2, <3>3 DEF Settled, Gone
    <3>8. Settled(k)' = remains
      BY <3>6, <3>7
    <3>9. Atomic!Settle(t, remains, verdict)
      BY <1>1, <1>2, <1>3, <1>4, <3>2, <3>8, Settles
    <3>10. Atomic!Miss(t)
      BY <1>2, <1>5, <1>7, <3>1, <3>9 DEF Atomic!Miss, Live, Phase
    <3> QED
      BY <3>10 DEF Atomic!Next
  <2> QED
    BY <2>2, <2>3
<1> QED
  BY <1>6, <1>7

\* Carrying out the refusal takes out what counted as gone.
LEMMA DropStutters ==
  ASSUME InTurnInv, NEW t \in Threads, Drop(t)
  PROVE  UNCHANGED Atomic!vars
<1> USE NoneAssumption DEF InTurnInv, Inv, TypeOK, Drop, Goto, Pop
<1> DEFINE k == call[t].key
<1>0. k \in Keys /\ store[k] = held[t]
  BY DEF Asked, HeldIsStored, Judged
<1>1. ASSUME NEW s \in Threads \ {t} PROVE Decided(s)' = Decided(s)
  BY DecidedSame
<1>2. ASSUME NEW j \in Keys, j # k PROVE Settled(j)' = Settled(j)
  BY <1>2, OtherKeysSettled DEF Judged
<1>3. Decided(t) = "false" /\ Decided(t)' = "false"
  BY DEF Decided
<1>4. Settled(k) = None /\ Settled(k)' = None
  BY <1>0 DEF Settled
<1> QED
  BY <1>1, <1>2, <1>3, <1>4, AtomicStutter

LEMMA TakeStutters ==
  ASSUME InTurnInv, NEW t \in Threads, Take(t)
  PROVE  UNCHANGED Atomic!vars
<1> USE NoneAssumption DEF InTurnInv, Inv, TypeOK, Take, Goto, Pop
<1> DEFINE k == call[t].key
<1>0. k \in Keys /\ store[k] = held[t]
  BY DEF Asked, HeldIsStored, Judged
<1>1. ASSUME NEW s \in Threads \ {t} PROVE Decided(s)' = Decided(s)
  BY DecidedSame
<1>2. ASSUME NEW j \in Keys, j # k PROVE Settled(j)' = Settled(j)
  BY <1>2, OtherKeysSettled DEF Judged
<1>3. Decided(t) = "true" /\ Decided(t)' = "true"
  BY DEF Decided
<1>4. Settled(k) = None /\ Settled(k)' = None
  BY <1>0, <1>3 DEF Settled
<1> QED
  BY <1>1, <1>2, <1>3, <1>4, AtomicStutter

LEMMA CountStutters ==
  ASSUME InTurnInv, NEW t \in Threads, Count(t)
  PROVE  UNCHANGED Atomic!vars
<1> USE NoneAssumption DEF InTurnInv, Inv, TypeOK, Count, Goto
<1>1. ASSUME NEW s \in Threads PROVE Decided(s)' = Decided(s)
  BY DEF Decided, Compared
<1>2. \A f : Trying(f)' = Trying(f)
  BY DEF Trying
<1>3. ASSUME NEW k \in Keys PROVE Settled(k)' = Settled(k)
  <2>1. Gone(k)' <=> Gone(k)
    BY <1>1 DEF Gone
  <2> QED
    BY <1>2, <2>1 DEF Settled, Gone
<1> QED
  BY <1>1, <1>3, AtomicStutter

\* The attempt that is counted was reckoned in.
LEMMA TryStutters ==
  ASSUME InTurnInv, NEW t \in Threads, Try(t)
  PROVE  UNCHANGED Atomic!vars
<1> USE NoneAssumption DEF InTurnInv, Inv, TypeOK, Try, Goto
<1> DEFINE k == call[t].key
           e == held[t]
<1>0. /\ k \in Keys /\ store[k] = e /\ e \in Entries /\ e # None
      /\ entry[e] \in Fields
  BY DEF Asked, HeldIsStored, Judged
<1>1. /\ \A f \in Entries \ {e} : entry'[f] = entry[f]
      /\ entry'[e].code = entry[e].code
      /\ entry'[e].expires = entry[e].expires
      /\ entry'[e].attempts = entry[e].attempts + 1
      /\ entry[e].attempts \in Nat
  BY <1>0 DEF Fields, EveryTryCounted
<1>2. \A s \in Threads \ {t} : ~(held[s] = e /\ pc[s] \in Judged)
  BY OwnKey DEF Judged
<1>3. ASSUME NEW s \in Threads \ {t} PROVE Decided(s)' = Decided(s)
  BY <1>1, <1>2, DecidedSame DEF Judged
<1>4. Decided(t)' = Decided(t)
  BY DEF Decided, Compared
<1>5. ASSUME NEW j \in Keys, j # k PROVE Settled(j)' = Settled(j)
  BY <1>1, <1>5, OtherKeysSettled DEF Judged
<1>6. Trying(e) = {t} /\ Trying(e)' = {}
  BY <1>2 DEF Trying, Judged, Compared
<1>7. Cardinality(Trying(e)) = 1 /\ Cardinality(Trying(e)') = 0
  BY <1>6, FS_EmptySet, FS_Singleton
<1>8. entry'[e].attempts + Cardinality(Trying(e)')
        = entry[e].attempts + Cardinality(Trying(e))
  BY <1>1, <1>7
<1>9. Gone(k)' <=> Gone(k)
  <2>1. Gone(k) <=> Decided(t) = "true"
    BY <1>0, <1>2 DEF Gone, Judged
  <2>2. Gone(k)' <=> Decided(t)' = "true"
    BY <1>0, <1>2 DEF Gone, Judged, Decided, Compared
  <2> QED
    BY <1>4, <2>1, <2>2
<1>10. Settled(k)' = Settled(k)
  BY <1>0, <1>1, <1>8, <1>9 DEF Settled, Gone
<1> QED
  BY <1>3, <1>4, <1>5, <1>10, AtomicStutter

LEMMA ReturnAnswers ==
  ASSUME InTurnInv, NEW t \in Threads, Return(t)
  PROVE  Atomic!Next
<1> USE NoneAssumption DEF InTurnInv, Inv, TypeOK, Return, Goto, Results
<1>1. ASSUME NEW s \in Threads \ {t} PROVE Decided(s)' = Decided(s)
  BY DecidedSame
<1>2. Decided(t) = pc[t] /\ Decided(t)' = "idle"
  BY DEF Decided
<1>3. \A f : Trying(f)' = Trying(f)
  BY DEF Trying
<1>4. ASSUME NEW k \in Keys PROVE Settled(k)' = Settled(k)
  <2>1. Gone(k)' <=> Gone(k)
    BY <1>1 DEF Gone
  <2> QED
    BY <1>3, <2>1 DEF Settled, Gone
<1>5. Live' = Live
  BY <1>4 DEF Live
<1>6. Phase[t] = pc[t] /\ Phase' = [Phase EXCEPT ![t] = "idle"]
  BY <1>1, <1>2 DEF Phase
<1>7. Atomic!Answer(t)
  BY <1>5, <1>6 DEF Atomic!Answer, Atomic!Answers, Live, Phase
<1> QED
  BY <1>7 DEF Atomic!Next

LEMMA TickElapses ==
  ASSUME InTurnInv, Tick
  PROVE  Atomic!Next
<1> USE DEF InTurnInv, Inv, TypeOK, Tick
<1>1. Live' = Live
  BY DEF Live, Settled, Trying, Decided, Compared
<1>2. Phase' = Phase
  BY DEF Phase, Decided, Compared
<1> QED
  BY <1>1, <1>2 DEF Atomic!Next, Atomic!Elapse, Live, Phase

LEMMA RestartForgets ==
  ASSUME InTurnInv, Restart
  PROVE  Atomic!Next
<1> USE DEF Restart
<1>1. Live' = [k \in Keys |-> None]
  BY DEF Live, Settled
<1>2. Phase' = [t \in Threads |-> "idle"]
  BY DEF Phase, Decided
<1> QED
  BY <1>1, <1>2 DEF Atomic!Next, Atomic!Forget, Live, Phase

LEMMA AtomicInit == Init => Atomic!Init
<1> SUFFICES ASSUME Init PROVE Atomic!Init
  OBVIOUS
<1>1. [k \in Keys |-> Settled(k)] = [k \in Keys |-> None]
  BY DEF Init, Settled
<1>2. [t \in Threads |-> Decided(t)] = [t \in Threads |-> "idle"]
  BY DEF Init, Decided
<1> QED
  BY <1>1, <1>2 DEF Init, Atomic!Init

LEMMA AtomicNext == InTurnInv /\ [NextInTurn]_vars => [Atomic!Next]_(Atomic!vars)
<1> SUFFICES ASSUME InTurnInv, [NextInTurn]_vars
             PROVE  Atomic!Next \/ UNCHANGED Atomic!vars
  OBVIOUS
<1>1. ASSUME NEW t \in Threads, NEW email \in Emails, NEW code \in Codes,
             Quiet(Lower[email]), Issue(t, email, code)
      PROVE  Atomic!Next
  BY <1>1, IssueOffers
<1>2. ASSUME NEW t \in Threads, NEW email \in Emails, NEW text \in Texts,
             Quiet(Lower[email]), Call(t, email, text)
      PROVE  Atomic!Next
  BY <1>2, CallAsks
<1>3. ASSUME NEW t \in Threads, Check(t)
      PROVE  Atomic!Next \/ UNCHANGED Atomic!vars
  BY <1>3, LookupRefuses, JudgeDecides, DropStutters, CountStutters, TryStutters,
     TakeStutters, ReturnAnswers DEF Check
<1>4. CASE Tick
  BY <1>4, TickElapses
<1>5. CASE Restart
  BY <1>5, RestartForgets
<1>6. CASE UNCHANGED vars
  <2>1. \A k \in Keys : Settled(k)' = Settled(k)
    BY <1>6 DEF vars, Settled, Trying, Decided, Compared
  <2>2. \A t \in Threads : Decided(t)' = Decided(t)
    BY <1>6 DEF vars, Decided, Compared
  <2> QED
    BY <1>6, <2>1, <2>2, AtomicStutter DEF vars
<1> QED
  BY <1>1, <1>2, <1>3, <1>4, <1>5, <1>6 DEF NextInTurn

\* Taken in turn per address, the newest code of an address stays in the
\* dictionary until it expires, is accepted or used up, as main.py:284-285
\* promises, whatever requests for other addresses do meanwhile.
THEOREM LiveCodesAreKept == SpecInTurn => []LiveCodeKept
BY InTurnInvariance, PTL DEF InTurnInv

\* Taken in turn per address, no increment of main.py:184 is lost, and a code
\* is compared with no more than LOCAL_CODE_MAX_ATTEMPTS texts.
THEOREM AttemptsAreBounded == SpecInTurn => []AttemptsBounded
BY InTurnInvariance, PTL DEF InTurnInv

\* Taken in turn per address, no code is accepted twice (main.py:186).
THEOREM AcceptedAtMostOnce == SpecInTurn => []AcceptedOnce
BY InTurnInvariance, PTL DEF InTurnInv

\* Taken in turn per address, a check is one step although it reads, counts
\* and pops separately (main.py:173-187): every step of a check settles it
\* or changes nothing the callers could tell.
THEOREM ImplementsTable == SpecInTurn => ImplementsAtomicCodes
BY InTurnInvariance, AtomicInit, AtomicNext, PTL
   DEF SpecInTurn, ImplementsAtomicCodes, Atomic!Spec
=============================================================================
