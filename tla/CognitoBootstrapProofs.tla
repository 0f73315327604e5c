----------------------- MODULE CognitoBootstrapProofs -----------------------
(***************************************************************************)
(* Proofs about CognitoBootstrap for any number of containers that run the *)
(* script, any sizes of the two pages and any faults.                      *)
(***************************************************************************)
EXTENDS CognitoBootstrap, FiniteSetTheorems, WellFoundedInduction,
        TLAPS

\* The pools of other names leave room for one more on the script's page.
OthersFew == Cardinality(others) <= MaxOthers

\* A run about to create a pool saw none; it adds one to the count below.
Creating == {r \in Runs : step[r] = "createpool"}

PoolsReckoned ==
  Cardinality(pools) + Cardinality(Creating) <= Cardinality(Runs) + resent

KnewStays == \A r \in Runs : knew[r] \subseteq pools

\* Nothing else runs beside a run that is alone, and it has come so far.
AloneWorks ==
  \A r \in Runs : alone[r] =>
    /\ Active \subseteq {r}
    /\ step[r] = "createpool" => pools = {}
    /\ step[r] \in {"clients", "createclient"} =>
         pools # {} /\ found[r] = First(pools)
    /\ step[r] = "done" => pools # {} /\ First(pools) \in served

Inv ==
  /\ TypeOK
  /\ OthersFew
  /\ PoolsReckoned
  /\ KnewStays
  /\ NoNeedlessPool
  /\ AloneWorks

-----------------------------------------------------------------------------
(* What is on a page                                                       *)

LEMMA IdNumbers == \A i \in Ids : i \in Int
BY BootstrapAssumption DEF Ids

LEMMA IdSets ==
  ASSUME NEW S \in SUBSET Ids
  PROVE  IsFiniteSet(S) /\ Cardinality(S) \in Nat
<1>1. IsFiniteSet(Ids)
  BY FS_Interval, BootstrapAssumption DEF Ids
<1> QED
  BY <1>1, FS_Subset, FS_CardinalityType

\* A set of IDs has a first one: the one with the fewest before it.
LEMMA FirstIs ==
  ASSUME NEW S \in SUBSET Ids, S # {}
  PROVE  First(S) \in S /\ \A j \in S : First(S) <= j
<1> DEFINE Before(i) == {j \in S : j < i}
           Befores == {Before(i) : i \in S}
<1>1. \A j \in S : j \in Int
  BY IdNumbers
<1>2. IsWellFoundedOn(StrictSubsetOrdering(S), FiniteSubsetsOf(S))
  BY FS_StrictSubsetOrderingWellFounded
<1>3. Befores \subseteq FiniteSubsetsOf(S)
  BY IdSets DEF FiniteSubsetsOf
<1>4. Befores # {}
  OBVIOUS
<1>5. \E X \in Befores : \A Y \in Befores :
         ~(<<Y, X>> \in StrictSubsetOrdering(S))
  BY <1>2, <1>3, <1>4, WFMin
<1>6. PICK i \in S : \A j \in S :
         ~(<<Before(j), Before(i)>> \in StrictSubsetOrdering(S))
  BY <1>5
<1>7. ASSUME NEW j \in S, j < i PROVE FALSE
  <2>1. Before(j) \subseteq Before(i)
    <3>1. \A k \in S : k < j => k < i
      BY <1>1, <1>7
    <3> QED
      BY <3>1
  <2>2. j \in Before(i) /\ j \notin Before(j)
    BY <1>1, <1>7
  <2>3. Before(j) \in SUBSET S /\ Before(i) \in SUBSET S
    OBVIOUS
  <2>4. <<Before(j), Before(i)>> \in StrictSubsetOrdering(S)
    <3> HIDE DEF Before
    <3> QED
      BY <2>1, <2>2, <2>3 DEF StrictSubsetOrdering
  <2> QED
    BY <1>6, <2>4
<1>8. \A j \in S : i <= j
  BY <1>1, <1>7
<1> QED
  BY <1>8 DEF First

LEMMA FirstUnique ==
  ASSUME NEW S \in SUBSET Ids, NEW i \in S, \A j \in S : i <= j
  PROVE  First(S) = i
<1>1. First(S) \in S /\ First(S) <= i
  BY FirstIs
<1>2. i <= First(S)
  BY <1>1
<1>3. i \in Int /\ First(S) \in Int
  BY <1>1, IdNumbers
<1> QED
  BY <1>1, <1>2, <1>3

\* Only pools of other names come before the first one called
\* LocalLibraryPool: it is on every page that is longer than they are.
LEMMA FirstIsListed ==
  ASSUME TypeOK, OthersFew, pools # {}, NEW n \in Nat, MaxOthers < n
  PROVE  ByName(n) = First(pools)
<1> DEFINE i == First(pools)
           before == {j \in pools \cup others : j < i}
<1>1. pools \in SUBSET Ids /\ others \in SUBSET Ids
  BY DEF TypeOK
<1>2. i \in pools /\ \A j \in pools : i <= j
  BY <1>1, FirstIs
<1>3. before \subseteq others
  <2>1. \A j \in pools : j \in Int /\ i \in Int
    BY <1>1, <1>2, IdNumbers
  <2> QED
    BY <1>2, <2>1
<1>4. Cardinality(before) <= Cardinality(others)
  BY <1>1, <1>3, IdSets, FS_Subset
<1>5. Cardinality(before) < n
  <2>1. Cardinality(before) \in Nat /\ Cardinality(others) \in Nat
    BY <1>1, <1>3, IdSets
  <2> QED
    BY <1>4, <2>1, BootstrapAssumption DEF OthersFew
<1>6. i \in pools \cap Page(n)
  BY <1>2, <1>5 DEF Page
<1>7. First(pools \cap Page(n)) = i
  BY <1>1, <1>2, <1>6, FirstUnique
<1> QED
  BY <1>6, <1>7 DEF ByName

\* The script and main.py find the same pool, or neither finds one.
LEMMA BothFind ==
  ASSUME TypeOK, OthersFew
  PROVE  /\ ByName(InitPage) = Current
         /\ pools = {} => Current = None
         /\ pools # {} => Current \in pools /\ Current = First(pools)
<1>1. MaxOthers < InitPage /\ MaxOthers < BackendPage
  BY BootstrapAssumption, PagesAssumption
<1>2. CASE pools = {}
  BY <1>2 DEF ByName, Current
<1>3. CASE pools # {}
  <2>1. ByName(InitPage) = First(pools) /\ ByName(BackendPage) = First(pools)
    BY <1>1, <1>3, FirstIsListed, BootstrapAssumption
  <2>2. First(pools) \in pools
    BY <1>3, FirstIs DEF TypeOK
  <2> QED
    BY <1>3, <2>1, <2>2 DEF Current
<1> QED
  BY <1>2, <1>3

-----------------------------------------------------------------------------
(* Type correctness                                                        *)

LEMMA RunSets ==
  ASSUME NEW S \in SUBSET Runs
  PROVE  /\ IsFiniteSet(S)
         /\ Cardinality(S) \in Nat
         /\ Cardinality(Runs) \in Nat
         /\ Cardinality(S) <= Cardinality(Runs)
BY FS_Subset, FS_CardinalityType, BootstrapAssumption

\* No run that nothing came between, and none that knew of a pool.
LEMMA Nothing ==
  /\ [r \in Runs |-> FALSE] \in [Runs -> BOOLEAN]
  /\ [r \in Runs |-> {}] \in [Runs -> SUBSET Ids]
OBVIOUS

LEMMA FaultTypes ==
  ASSUME TypeOK, Fault
  PROVE  faults' \in 0..MaxFaults /\ alone' \in [Runs -> BOOLEAN]
<1>1. alone' \in [Runs -> BOOLEAN]
  BY Nothing DEF Fault
<1>2. faults \in 0..MaxFaults /\ faults < MaxFaults /\ faults' = faults + 1
  BY DEF TypeOK, Fault
<1> QED
  BY <1>1, <1>2, BootstrapAssumption

LEMMA TypeInit == Init => TypeOK
<1> SUFFICES ASSUME Init PROVE TypeOK
  OBVIOUS
<1>1. alone \in [Runs -> BOOLEAN] /\ knew \in [Runs -> SUBSET Ids]
  BY Nothing DEF Init
<1>2. tries \in [Runs -> 0..(MaxTries - 1)]
  BY BootstrapAssumption DEF Init
<1>3. faults \in 0..MaxFaults /\ resent \in Nat
  BY BootstrapAssumption DEF Init
<1>4. step \in [Runs -> Calls \cup {"off", "ping", "done", "failed"}]
      /\ found \in [Runs -> Ids \cup {None}]
      /\ \A r \in Runs : step[r] = "off"
  BY DEF Init
<1>5. up \in BOOLEAN /\ served \subseteq pools /\ pools \subseteq Ids
      /\ others \subseteq Ids \ pools
  BY DEF Init
<1> QED
  BY <1>1, <1>2, <1>3, <1>4, <1>5 DEF Init, TypeOK

LEMMA StartTypes ==
  ASSUME TypeOK, NEW r \in Runs, Start(r), asker' \in {asker, "waiting"},
         asked' = asked
  PROVE  TypeOK'
BY DEF TypeOK, Start, Goto, emulator

\* A pool that is found is one of the emulator's.
LEMMA FoundIsPool ==
  ASSUME TypeOK, NEW n, ByName(n) # None
  PROVE  ByName(n) \in pools
<1>1. pools \cap Page(n) \in SUBSET Ids /\ pools \cap Page(n) # {}
  BY DEF TypeOK, ByName
<1> QED
  BY <1>1, FirstIs DEF ByName

LEMMA TypeNext == TypeOK /\ [Next]_vars => TypeOK'
<1> SUFFICES ASSUME TypeOK, [Next]_vars PROVE TypeOK'
  OBVIOUS
<1> USE BootstrapAssumption
<1> USE DEF TypeOK, Calls, Goto, emulator, run, request, history
<1>1. ASSUME NEW r \in Runs, Ping(r) PROVE TypeOK'
  <2>1. CASE tries[r] + 1 < MaxTries /\ tries' = [tries EXCEPT ![r] = @ + 1]
             /\ UNCHANGED <<step, found, knew>>
    <3>1. tries' \in [Runs -> 0..(MaxTries - 1)]
      BY <2>1
    <3> QED
      BY <1>1, <2>1, <3>1 DEF Ping
  <2>2. CASE Goto(r, "list") /\ UNCHANGED <<tries, found, knew>>
    BY <1>1, <2>2 DEF Ping
  <2>3. CASE Exit(r, "failed")
    BY <1>1, <2>3 DEF Ping, Exit
  <2> QED
    BY <1>1, <2>1, <2>2, <2>3 DEF Ping
<1>2. ASSUME NEW r \in Runs, ListPools(r) PROVE TypeOK'
  <2>1. ByName(InitPage) \in Ids \cup {None}
    BY FoundIsPool
  <2> QED
    BY <1>2, <2>1 DEF ListPools
<1>3. ASSUME NEW r \in Runs, CreatePool(r) PROVE TypeOK'
  <2>1. faults' \in 0..MaxFaults /\ resent' \in Nat
        /\ alone' \in [Runs -> BOOLEAN]
    <3>1. alone' = alone \/ alone' = [q \in Runs |-> FALSE]
      BY <1>3 DEF CreatePool
    <3>2. \/ faults' = faults /\ resent' = resent
          \/ faults' = faults + 1 /\ faults < MaxFaults /\ resent' = resent + 1
      BY <1>3 DEF CreatePool
    <3>3. alone' \in [Runs -> BOOLEAN]
      BY <3>1, Nothing
    <3>4. faults \in Nat /\ MaxFaults \in Nat /\ faults <= MaxFaults
          /\ resent \in Nat
      OBVIOUS
    <3>5. faults' \in 0..MaxFaults /\ resent' \in Nat
      BY <3>2, <3>4
    <3> QED
      BY <3>3, <3>5
  <2>2. /\ step' \in [Runs -> Calls \cup {"off", "ping", "done", "failed"}]
        /\ found' \in [Runs -> Ids \cup {None}]
        /\ \A q \in Runs :
             step'[q] \in {"clients", "createclient"} => found'[q] \in Ids
    BY <1>3 DEF CreatePool
  <2>3. pools' \subseteq Ids /\ others \subseteq Ids \ pools'
        /\ served \subseteq pools'
    BY <1>3 DEF CreatePool
  <2> QED
    BY <1>3, <2>1, <2>2, <2>3 DEF CreatePool
<1>4. ASSUME NEW r \in Runs, ListClients(r) PROVE TypeOK'
  BY <1>4 DEF ListClients, AfterListClients, Exit
<1>5. ASSUME NEW r \in Runs, CreateClient(r) PROVE TypeOK'
  BY <1>5 DEF CreateClient, Exit
<1>6. ASSUME NEW r \in Runs, Unreachable(r) PROVE TypeOK'
  BY <1>6 DEF Unreachable, Exit
<1>7. CASE Run
  BY <1>7, StartTypes DEF Run
<1>8. CASE Ask
  BY <1>8 DEF Ask
<1>9. CASE Discover
  <2>1. CASE DiscoverPool
    <3>1. Current # None => Current \in Ids
      BY FoundIsPool DEF Current
    <3> QED
      BY <2>1, <3>1 DEF DiscoverPool
  <2>2. CASE DiscoverClient
    BY <2>2 DEF DiscoverClient
  <2>3. CASE DiscoverNothing
    BY <2>3 DEF DiscoverNothing
  <2> QED
    BY <1>9, <2>1, <2>2, <2>3 DEF Discover
<1>10. CASE StartOther
  BY <1>10, StartTypes DEF StartOther
<1>11. CASE OtherPool
  BY <1>11 DEF OtherPool
<1>12. CASE Up
  BY <1>12 DEF Up
<1>13. CASE Down
  BY <1>13, FaultTypes DEF Down
<1>14. CASE Kill
  BY <1>14, FaultTypes DEF Kill, Exit, Active
<1>15. CASE Recreate
  <2>1. knew' \in [Runs -> SUBSET Ids]
    BY <1>15, Nothing DEF Recreate
  <2> QED
    BY <1>15, <2>1, FaultTypes DEF Recreate
<1>16. CASE UNCHANGED vars
  BY <1>16 DEF vars
<1> QED
  BY <1>1, <1>2, <1>3, <1>4, <1>5, <1>6, <1>7, <1>8, <1>9, <1>10, <1>11,
     <1>12, <1>13, <1>14, <1>15, <1>16
  DEF Next, Step

-----------------------------------------------------------------------------
(* The steps, by what they do to the pools and to the runs                 *)

\* Pools are made by CreatePool and lost by Recreate; any other step leaves
\* them, and the runs that are about to create one, or fewer.
LEMMA OthersNext ==
  ASSUME TypeOK, OthersFew, [Next]_vars
  PROVE  OthersFew'
<1>1. CASE OtherPool
  <2>1. others \in SUBSET Ids
    BY DEF TypeOK
  <2>2. PICK i \in Ids \ (pools \cup others) : others' = others \cup {i}
    BY <1>1 DEF OtherPool
  <2>3. Cardinality(others') = Cardinality(others) + 1
    BY <2>1, <2>2, IdSets, FS_AddElement
  <2> QED
    BY <1>1, <2>1, <2>3, IdSets, BootstrapAssumption DEF OtherPool, OthersFew
<1>2. CASE Recreate
  BY <1>2, FS_EmptySet, BootstrapAssumption DEF Recreate, OthersFew
<1>3. CASE ~OtherPool /\ ~Recreate
  <2>1. others' = others
    BY <1>3 DEF Next, vars, emulator, Step, Ping, ListPools, CreatePool,
       ListClients, CreateClient, Unreachable, Run, Start, Ask, Discover,
       DiscoverPool, DiscoverClient, DiscoverNothing, StartOther, Up, Down, Kill
  <2> QED
    BY <2>1 DEF OthersFew
<1> QED
  BY <1>1, <1>2, <1>3

LEMMA PoolsStay ==
  ASSUME TypeOK, [Next]_vars, ~Recreate, \A r \in Runs : ~CreatePool(r)
  PROVE  pools' = pools /\ resent' = resent
BY DEF Next, vars, emulator, history, Step, Ping, ListPools, ListClients,
   CreateClient, Unreachable, Run, Start, Ask, Discover, DiscoverPool,
   DiscoverClient, DiscoverNothing, StartOther, OtherPool, Up, Down, Kill

LEMMA CreatingIsFor ==
  ASSUME TypeOK, [Next]_vars, NEW r \in Runs,
         step'[r] = "createpool", step[r] # "createpool"
  PROVE  ListPools(r)
BY DEF TypeOK, Next, vars, run, Step, Goto, Exit, Ping, ListPools, CreatePool,
   ListClients, AfterListClients, CreateClient, Unreachable, Run, Start, Ask,
   Discover, DiscoverPool, DiscoverClient, DiscoverNothing, StartOther,
   OtherPool, Up, Down, Kill, Recreate

-----------------------------------------------------------------------------
(* How many pools there are                                                *)

LEMMA ReckonedNext ==
  ASSUME TypeOK, OthersFew, PoolsReckoned, [Next]_vars
  PROVE  PoolsReckoned'
<1> USE DEF PoolsReckoned
<1>0. /\ pools \in SUBSET Ids /\ resent \in Nat
      /\ Creating \in SUBSET Runs
      /\ TypeOK'
  BY TypeNext DEF TypeOK, Creating
<1>1. Creating' \in SUBSET Runs /\ resent' \in Nat
  BY <1>0 DEF TypeOK, Creating
<1>2. ASSUME NEW r \in Runs, CreatePool(r) PROVE PoolsReckoned'
  <2>1. PICK i \in Ids \ (pools \cup others) : pools' = pools \cup {i}
    BY <1>2 DEF CreatePool
  <2>2. Cardinality(pools') = Cardinality(pools) + 1
    BY <1>0, <2>1, IdSets, FS_AddElement
  <2>3. r \in Creating
    BY <1>2 DEF CreatePool, Creating
  <2>4. CASE step' = [step EXCEPT ![r] = "clients"] /\ resent' = resent
    <3>1. Creating' = Creating \ {r}
      BY <2>4 DEF Creating, TypeOK
    <3>2. Cardinality(Creating') = Cardinality(Creating) - 1
      BY <1>0, <2>3, <3>1, RunSets, FS_RemoveElement
    <3> QED
      BY <1>0, <1>1, <2>2, <2>4, <3>2, RunSets, IdSets
  <2>5. CASE step' = step /\ resent' = resent + 1
    <3>1. Creating' = Creating
      BY <2>5 DEF Creating
    <3> QED
      BY <1>0, <1>1, <2>2, <2>5, <3>1, RunSets, IdSets
  <2> QED
    BY <1>2, <2>4, <2>5 DEF CreatePool, Goto
<1>3. CASE Recreate
  <2>1. pools' = {} /\ Cardinality(pools') = 0
    BY <1>3, FS_EmptySet DEF Recreate
  <2> QED
    BY <1>1, <2>1, RunSets
<1>4. CASE ~Recreate /\ \A r \in Runs : ~CreatePool(r)
  <2>1. pools' = pools /\ resent' = resent
    BY <1>4, PoolsStay
  <2>2. CASE pools = {}
    <3>1. Cardinality(pools') = 0
      BY <2>1, <2>2, FS_EmptySet
    <3> QED
      BY <1>1, <3>1, RunSets
  <2>3. CASE pools # {}
    <3>1. \A r \in Runs : step'[r] = "createpool" => step[r] = "createpool"
      <4>1. ASSUME NEW r \in Runs, ListPools(r) PROVE step'[r] # "createpool"
        <5>1. ByName(InitPage) # None
          BY <2>3, BothFind, BootstrapAssumption DEF TypeOK
        <5> QED
          BY <4>1, <5>1 DEF ListPools, Goto, TypeOK
      <4> QED
        BY <4>1, CreatingIsFor
    <3>2. Creating' \subseteq Creating
      BY <3>1 DEF Creating
    <3>3. Cardinality(Creating') <= Cardinality(Creating)
      BY <1>0, <3>2, RunSets, FS_Subset
    <3> QED
      BY <1>0, <1>1, <2>1, <3>3, RunSets, IdSets
  <2> QED
    BY <2>2, <2>3
<1> QED
  BY <1>2, <1>3, <1>4

-----------------------------------------------------------------------------
(* What a run knew as it began                                             *)

LEMMA KnewNext ==
  ASSUME TypeOK, OthersFew, KnewStays, NoNeedlessPool, [Next]_vars
  PROVE  KnewStays' /\ NoNeedlessPool'
<1> USE DEF KnewStays, NoNeedlessPool
<1>1. ASSUME NEW r \in Runs
      PROVE  \/ knew'[r] = knew[r] \/ knew'[r] = {}
             \/ knew'[r] = pools /\ step'[r] = "ping"
  BY DEF TypeOK, Next, vars, history, Step, Goto, Exit, Ping, ListPools,
     CreatePool, ListClients, AfterListClients, CreateClient, Unreachable, Run,
     Start, Ask, Discover, DiscoverPool, DiscoverClient, DiscoverNothing,
     StartOther, OtherPool, Up, Down, Kill, Recreate
<1>2. CASE Recreate
  BY <1>2 DEF Recreate
<1>3. CASE ~Recreate
  <2>1. pools \subseteq pools'
    <3>1. CASE \A r \in Runs : ~CreatePool(r)
      BY <1>3, <3>1, PoolsStay
    <3>2. ASSUME NEW r \in Runs, CreatePool(r) PROVE pools \subseteq pools'
      BY <3>2 DEF CreatePool
    <3> QED
      BY <3>1, <3>2
  <2>2. KnewStays'
    BY <1>1, <2>1
  <2>3. ASSUME NEW r \in Runs, step'[r] = "createpool"
        PROVE  knew'[r] \cap pools' = {}
    <3>1. CASE step[r] = "createpool"
      BY <1>1, <2>2, <2>3, <3>1
    <3>2. CASE step[r] # "createpool"
      <4>1. ListPools(r)
        BY <2>3, <3>2, CreatingIsFor
      <4>2. pools' = pools /\ knew' = knew
        BY <4>1 DEF ListPools, emulator, history
      <4>3. ByName(InitPage) = None
        BY <2>3, <4>1 DEF ListPools, Goto, TypeOK
      <4>4. pools = {}
        BY <4>3, BothFind, BootstrapAssumption DEF TypeOK
      <4> QED
        BY <4>2, <4>4
    <3> QED
      BY <3>1, <3>2
  <2> QED
    BY <2>2, <2>3
<1> QED
  BY <1>2, <1>3

-----------------------------------------------------------------------------
(* A run that is alone                                                     *)

\* A run that is active beside another is not alone.
LEMMA AloneNext ==
  ASSUME TypeOK, OthersFew, AloneWorks, [Next]_vars
  PROVE  AloneWorks'
<1> USE DEF AloneWorks
<1>0. TypeOK'
  BY TypeNext
<1>1. ASSUME NEW r \in Runs, Step(r), NEW q \in Runs, alone'[q]
      PROVE  alone[q] /\ q = r
  <2>1. alone[q]
    BY <1>1, Nothing DEF TypeOK, Step, Ping, ListPools, CreatePool, ListClients,
       CreateClient, Unreachable, history
  <2>2. r \in Active
    BY <1>1 DEF Step, Ping, ListPools, CreatePool, ListClients, CreateClient,
       Unreachable, Active, Calls
  <2> QED
    BY <2>1, <2>2
<1>2. ASSUME NEW r \in Runs, Step(r), alone'[r]
      PROVE  Active' \subseteq {r}
  <2>1. \A q \in Runs \ {r} : step'[q] = step[q]
    BY <1>2 DEF TypeOK, Step, Ping, ListPools, CreatePool, ListClients,
       AfterListClients, CreateClient, Unreachable, Goto, Exit, run
  <2>2. Active \subseteq {r}
    BY <1>1, <1>2
  <2> QED
    BY <2>1, <2>2 DEF Active
<1>3. ASSUME NEW r \in Runs, Step(r), alone[r], alone'[r]
      PROVE  /\ step'[r] = "createpool" => pools' = {}
             /\ step'[r] \in {"clients", "createclient"} =>
                  pools' # {} /\ found'[r] = First(pools')
             /\ step'[r] = "done" => pools' # {} /\ First(pools') \in served'
  <2> USE DEF TypeOK, Goto, Exit, Calls
  <2>1. CASE Ping(r)
    BY <1>3, <2>1 DEF Ping
  <2>2. CASE ListPools(r)
    <3>1. /\ pools = {} => ByName(InitPage) = None
          /\ pools # {} => ByName(InitPage) = First(pools)
                           /\ ByName(InitPage) # None
      BY BothFind, BootstrapAssumption
    <3> QED
      BY <2>2, <3>1 DEF ListPools, emulator
  <2>3. CASE CreatePool(r)
    <3>1. PICK i \in Ids : pools' = pools \cup {i}
                           /\ found' = [found EXCEPT ![r] = i]
                           /\ step' = [step EXCEPT ![r] = "clients"]
      BY <1>3, <2>3, Nothing DEF CreatePool
    <3>2. pools' = {i}
      BY <1>3, <2>3, <3>1 DEF CreatePool
    <3>3. First({i}) = i
      BY FirstUnique, IdNumbers
    <3> QED
      BY <3>1, <3>2, <3>3
  <2>4. CASE ListClients(r)
    BY <1>3, <2>4 DEF ListClients, AfterListClients, emulator
  <2>5. CASE CreateClient(r)
    BY <1>3, <2>5 DEF CreateClient
  <2>6. CASE Unreachable(r)
    BY <1>3, <2>6 DEF Unreachable
  <2> QED
    BY <1>3, <2>1, <2>2, <2>3, <2>4, <2>5, <2>6 DEF Step
<1>4. ASSUME NEW r \in Runs, Step(r) PROVE AloneWorks'
  BY <1>1, <1>2, <1>3, <1>4
<1>5. ASSUME NEW r \in Runs, Start(r) PROVE AloneWorks'
  <2>1. \A q \in Runs : alone'[q] => q = r /\ Active = {}
    BY <1>5 DEF Start
  <2>2. Active' = Active \cup {r} /\ step'[r] = "ping"
    BY <1>5 DEF Start, Goto, Active, TypeOK
  <2> QED
    BY <2>1, <2>2
<1>6. ASSUME \A q \in Runs : ~alone'[q] PROVE AloneWorks'
  BY <1>6
<1>7. ASSUME UNCHANGED <<pools, served, step, found, alone>>
      PROVE  AloneWorks'
  BY <1>7 DEF Active
<1>8. ASSUME Fault PROVE AloneWorks'
  BY <1>6, <1>8 DEF Fault
<1>9. CASE Run \/ StartOther
  BY <1>5, <1>9, BootstrapAssumption DEF Run, StartOther
<1>10. CASE Ask \/ Discover \/ OtherPool \/ Up
  BY <1>7, <1>10 DEF Ask, Discover, DiscoverPool, DiscoverClient,
     DiscoverNothing, OtherPool, Up, emulator, run, history
<1>11. CASE Down \/ Kill \/ Recreate
  BY <1>8, <1>11 DEF Down, Kill, Recreate
<1>12. CASE UNCHANGED vars
  BY <1>7, <1>12 DEF vars, emulator, run, history
<1> QED
  BY <1>4, <1>9, <1>10, <1>11, <1>12 DEF Next

-----------------------------------------------------------------------------
(* The invariant, and the theorems                                         *)

LEMMA InvInit == Init => Inv
<1> SUFFICES ASSUME Init PROVE Inv
  OBVIOUS
<1>1. TypeOK
  BY TypeInit
<1>2. Creating = {} /\ pools = {} /\ others = {} /\ resent = 0
  BY DEF Init, Creating
<1>3. OthersFew /\ PoolsReckoned
  BY <1>2, FS_EmptySet, RunSets, BootstrapAssumption
  DEF OthersFew, PoolsReckoned
<1>4. KnewStays /\ NoNeedlessPool /\ AloneWorks
  BY DEF Init, KnewStays, NoNeedlessPool, AloneWorks
<1> QED
  BY <1>1, <1>3, <1>4 DEF Inv

LEMMA InvNext == Inv /\ [Next]_vars => Inv'
BY TypeNext, OthersNext, ReckonedNext, KnewNext, AloneNext DEF Inv

LEMMA SpecInv == Spec => []Inv
BY InvInit, InvNext, PTL DEF Spec

\* The state of the runs, the emulator and the developer keeps its type: a
\* run never goes on to a pool it has not found (init_cognito.py:34-55).
THEOREM BootstrapTypeCorrect == Spec => []TypeOK
<1>1. Inv => TypeOK
  BY DEF Inv
<1> QED
  BY <1>1, SpecInv, PTL

\* Runs that overlap make at most one pool each, and one for each creation
\* that is sent twice (init_cognito.py:34-40), for any number of runs.
THEOREM PoolsAreBounded == Spec => []PoolsBounded
<1>1. Inv => PoolsBounded
  <2> SUFFICES ASSUME Inv PROVE PoolsBounded
    OBVIOUS
  <2>1. pools \in SUBSET Ids /\ Creating \in SUBSET Runs /\ resent \in Nat
    BY DEF Inv, TypeOK, Creating
  <2> QED
    BY <2>1, IdSets, RunSets DEF Inv, PoolsReckoned, PoolsBounded
<1> QED
  BY <1>1, SpecInv, PTL

\* No run makes a pool when one that was there as it began still is
\* (init_cognito.py:34-37, 57).
THEOREM NoPoolIsNeedless == Spec => []NoNeedlessPool
<1>1. Inv => NoNeedlessPool
  BY DEF Inv
<1> QED
  BY <1>1, SpecInv, PTL

\* After a run that nothing came between, main.py finds the pool and its
\* client (main.py:79-94), whatever earlier runs left behind.
THEOREM ARerunHeals == Spec => []RerunHeals
<1>1. Inv => RerunHeals
  BY BothFind, BootstrapAssumption
  DEF Inv, AloneWorks, RerunHeals, Ready, TypeOK
<1> QED
  BY <1>1, SpecInv, PTL
=============================================================================
