-------------------------- MODULE CognitoBootstrap --------------------------
(***************************************************************************)
(* init_cognito.py finds or creates the user pool and the app client of    *)
(* the local emulator; discover_local_cognito of main.py finds them by     *)
(* name on every request, and answers 503 with the advice to run the       *)
(* script when it cannot.  Several runs of the script may overlap: the one *)
(* of docker compose up, and those of whoever follows the advice.          *)
(*                                                                         *)
(* The emulator is external.  It lists pools in the order of their IDs,    *)
(* which it draws at random, and so many of them as it is asked for.  Its  *)
(* container has no restart policy: one that stops is started again when   *)
(* compose starts a container that depends on it.                          *)
(***************************************************************************)
EXTENDS Integers, FiniteSets

CONSTANTS
  Runs,         \* containers that run the script, each time and again
  Mine,         \* the one of the developer who waits for the service
  MaxIds,       \* bound of the model: pool IDs
  InitPage,     \* pools the script looks at (10)
  BackendPage,  \* pools main.py looks at (60)
  MaxTries,     \* connections the script tries (15)
  MaxOthers,    \* bound of the model: pools of other names
  MaxFaults,    \* bound of the model: outages, kills and recreated data
  None

Ids == 1..MaxIds

ASSUME BootstrapAssumption ==
  /\ IsFiniteSet(Runs)
  /\ Mine \in Runs
  /\ MaxIds \in Nat
  /\ InitPage \in Nat
  /\ BackendPage \in Nat
  /\ MaxTries \in Nat \ {0}
  /\ MaxOthers \in Nat
  /\ MaxFaults \in Nat
  /\ None \notin Ids

\* Pools of other projects fit on the page the script reads, and main.py
\* reads no shorter one.
ASSUME PagesAssumption == MaxOthers < InitPage /\ InitPage <= BackendPage

VARIABLES
  started,   \* the emulator's container runs
  up,        \* the emulator answers
  pools,     \* IDs of the pools called LocalLibraryPool
  others,    \* IDs of the other pools
  served,    \* the pools of the first kind that have an app client
  step,      \* [Runs -> the call a run makes next, or how it ended]
  tries,     \* [Runs -> connections tried]
  found,     \* [Runs -> user_pool_id, or None]
  asker,     \* where the developer's request is, or what they do about it
  asked,     \* the pool that request found, or None
  knew,      \* history: [Runs -> pools there were when the run began]
  alone,     \* history: [Runs -> nothing came between since it began]
  resent,    \* history: creations made twice since the data was recreated
  faults

emulator == <<started, up, pools, others, served>>
run      == <<step, tries, found>>
request  == <<asker, asked>>
history  == <<knew, alone, resent>>
vars     == <<emulator, run, request, history, faults>>

Calls  == {"list", "createpool", "clients", "createclient"}
Active == {r \in Runs : step[r] \in Calls \cup {"ping"}}

TypeOK ==
  /\ started \in BOOLEAN
  /\ up \in BOOLEAN
  /\ up => started
  /\ pools \subseteq Ids
  /\ others \subseteq Ids \ pools
  /\ served \subseteq pools
  /\ step \in [Runs -> Calls \cup {"off", "ping", "done", "failed"}]
  /\ tries \in [Runs -> 0..(MaxTries - 1)]
  /\ found \in [Runs -> Ids \cup {None}]
  /\ \A r \in Runs :
       step[r] \in {"clients", "createclient"} => found[r] \in Ids
  /\ asker \in {"advised", "waiting", "pools", "clients", "served", "refused"}
  /\ asked \in Ids \cup {None}
  /\ asker = "clients" => asked \in Ids
  /\ knew \in [Runs -> SUBSET Ids]
  /\ alone \in [Runs -> BOOLEAN]
  /\ resent \in Nat
  /\ faults \in 0..MaxFaults

\* The developer is to start the system, whose containers are all down.
Init ==
  /\ started = FALSE /\ up = FALSE
  /\ pools = {} /\ others = {} /\ served = {}
  /\ step = [r \in Runs |-> "off"]
  /\ tries = [r \in Runs |-> 0]
  /\ found = [r \in Runs |-> None]
  /\ asker = "advised" /\ asked = None
  /\ knew = [r \in Runs |-> {}]
  /\ alone = [r \in Runs |-> FALSE]
  /\ resent = 0 /\ faults = 0

-----------------------------------------------------------------------------
(* The emulator's list of pools                                            *)

\* The first n pools of the list.
Page(n) ==
  {i \in pools \cup others :
     Cardinality({j \in pools \cup others : j < i}) < n}

First(S) == CHOOSE i \in S : \A j \in S : i <= j

\* next((p for p in ... if p["Name"] == "LocalLibraryPool"), None)
ByNameFirstOnly(n) ==
  IF pools \cap Page(1) = {} THEN None ELSE First(pools \cap Page(1))
ByName(n) ==
  IF pools \cap Page(n) = {} THEN None ELSE First(pools \cap Page(n))

\* A request of main.py is given this pool's IDs, if it has a client.
Current == ByName(BackendPage)
Ready   == Current # None /\ Current \in served

-----------------------------------------------------------------------------
(* A run of the script                                                     *)

Goto(r, s) == step' = [step EXCEPT ![r] = s]

\* sys.exit, an exception, or the end of the script.
Exit(r, how) ==
  /\ Goto(r, how)
  /\ tries' = [tries EXCEPT ![r] = 0]
  /\ found' = [found EXCEPT ![r] = None]
  /\ knew' = [knew EXCEPT ![r] = {}]

\* Compose starts the emulator too, which the script depends on.
Start(r) ==
  /\ r \notin Active
  /\ Goto(r, "ping")
  /\ started' = TRUE
  /\ knew' = [knew EXCEPT ![r] = pools]
  /\ alone' = [q \in Runs |-> q = r /\ Active = {}]
  /\ UNCHANGED <<up, pools, others, served, tries, found, resent, faults>>

\* The loop that waits for the container, and gives up after MaxTries.
Ping(r) ==
  /\ step[r] = "ping"
  /\ \/ up /\ Goto(r, "list") /\ UNCHANGED <<tries, found, knew>>
     \/ /\ ~up /\ tries[r] + 1 < MaxTries
        /\ tries' = [tries EXCEPT ![r] = @ + 1]
        /\ UNCHANGED <<step, found, knew>>
     \/ ~up /\ tries[r] + 1 = MaxTries /\ Exit(r, "failed")
  /\ UNCHANGED <<emulator, request, alone, resent, faults>>

ListPools(r) ==
  /\ step[r] = "list" /\ up
  /\ found' = [found EXCEPT ![r] = ByName(InitPage)]
  /\ Goto(r, IF ByName(InitPage) = None THEN "createpool" ELSE "clients")
  /\ UNCHANGED <<emulator, tries, request, history, faults>>

\* Its answer may be lost: the library sends the call again, and another
\* pool is made.
CreatePool(r) ==
  /\ step[r] = "createpool" /\ up
  /\ \E i \in Ids \ (pools \cup others) :
       /\ pools' = pools \cup {i}
       /\ \/ /\ found' = [found EXCEPT ![r] = i]
             /\ Goto(r, "clients")
             /\ UNCHANGED <<alone, resent, faults>>
          \/ /\ faults < MaxFaults
             /\ faults' = faults + 1
             /\ resent' = resent + 1
             /\ alone' = [q \in Runs |-> FALSE]
             /\ UNCHANGED <<step, found>>
  /\ UNCHANGED <<started, up, others, served, tries, request, knew>>

AfterListClientsTrusting(r) == Exit(r, "done")
AfterListClientsAnew(r) ==
  IF found[r] \in served THEN Exit(r, "done")
  ELSE Goto(r, "createpool") /\ UNCHANGED <<tries, found, knew>>
AfterListClients(r) ==
  IF found[r] \in served THEN Exit(r, "done")
  ELSE Goto(r, "createclient") /\ UNCHANGED <<tries, found, knew>>

\* A pool that is gone is a ClientError, which nothing catches.
ListClients(r) ==
  /\ step[r] = "clients" /\ up
  /\ IF found[r] \in pools THEN AfterListClients(r) ELSE Exit(r, "failed")
  /\ UNCHANGED <<emulator, request, alone, resent, faults>>

CreateClient(r) ==
  /\ step[r] = "createclient" /\ up
  /\ IF found[r] \in pools
     THEN served' = served \cup {found[r]} /\ Exit(r, "done")
     ELSE Exit(r, "failed") /\ UNCHANGED served
  /\ UNCHANGED <<started, up, pools, others, request, alone, resent, faults>>

\* No answer, after the retries of the library: the script dies.
Unreachable(r) ==
  /\ step[r] \in Calls /\ ~up
  /\ Exit(r, "failed")
  /\ UNCHANGED <<emulator, request, alone, resent, faults>>

Step(r) ==
  \/ Ping(r)
  \/ ListPools(r)
  \/ CreatePool(r)
  \/ ListClients(r)
  \/ CreateClient(r)
  \/ Unreachable(r)

-----------------------------------------------------------------------------
(* The developer, and discover_local_cognito for a request of theirs       *)

\* Docker compose starts the backend when the script has succeeded.
Run ==
  /\ asker = "advised" \/ (asker = "waiting" /\ step[Mine] = "failed")
  /\ Start(Mine)
  /\ asker' = "waiting"
  /\ UNCHANGED asked

Ask ==
  /\ asker \in {"served", "refused"}
       \/ (asker = "waiting" /\ step[Mine] = "done")
  /\ asker' = "pools"
  /\ UNCHANGED <<emulator, run, asked, history, faults>>

DiscoverPoolShort ==
  /\ asker = "pools" /\ up
  /\ asked' = ByName(1)
  /\ asker' = IF ByName(1) = None THEN "advised" ELSE "clients"
  /\ UNCHANGED <<emulator, run, history, faults>>
DiscoverPool ==
  /\ asker = "pools" /\ up
  /\ asked' = Current
  /\ asker' = IF Current = None THEN "advised" ELSE "clients"
  /\ UNCHANGED <<emulator, run, history, faults>>

DiscoverClient ==
  /\ asker = "clients" /\ up
  /\ asker' = IF asked \notin pools THEN "refused"
              ELSE IF asked \in served THEN "served" ELSE "advised"
  /\ asked' = None
  /\ UNCHANGED <<emulator, run, history, faults>>

\* The 503 of an emulator that does not answer has no advice.
DiscoverNothing ==
  /\ asker \in {"pools", "clients"} /\ ~up
  /\ asker' = "refused"
  /\ asked' = None
  /\ UNCHANGED <<emulator, run, history, faults>>

Discover == DiscoverPool \/ DiscoverClient \/ DiscoverNothing

-----------------------------------------------------------------------------
(* The surroundings                                                        *)

\* Somebody else runs the script.
StartOther ==
  \E r \in Runs \ {Mine} : Start(r) /\ UNCHANGED request

OtherPool ==
  /\ up
  /\ Cardinality(others) < MaxOthers
  /\ \E i \in Ids \ (pools \cup others) : others' = others \cup {i}
  /\ UNCHANGED <<started, up, pools, served, run, request, history, faults>>

\* A started emulator answers after a while.
Up ==
  /\ started /\ ~up
  /\ up' = TRUE
  /\ UNCHANGED <<started, pools, others, served, run, request, history, faults>>

Fault ==
  /\ faults < MaxFaults
  /\ faults' = faults + 1
  /\ alone' = [q \in Runs |-> FALSE]

\* The emulator's container stops, and stays so.
Down ==
  /\ started
  /\ started' = FALSE /\ up' = FALSE
  /\ Fault
  /\ UNCHANGED <<pools, others, served, run, request, knew, resent>>

\* A run is killed between two calls.
Kill ==
  /\ \E r \in Active : Exit(r, "failed")
  /\ Fault
  /\ UNCHANGED <<emulator, request, resent>>

\* The emulator's volume is deleted, and the emulator with it.
Recreate ==
  /\ started' = FALSE /\ up' = FALSE
  /\ pools' = {} /\ others' = {} /\ served' = {}
  /\ resent' = 0
  /\ knew' = [r \in Runs |-> {}]
  /\ Fault
  /\ UNCHANGED <<run, request>>

Next ==
  \/ \E r \in Runs : Step(r)
  \/ Run
  \/ Ask
  \/ Discover
  \/ StartOther
  \/ OtherPool
  \/ Up
  \/ Down
  \/ Kill
  \/ Recreate

Spec == Init /\ [][Next]_vars

\* Runs go on, a started emulator comes up, and the developer follows the
\* advice.  Nobody has to start an emulator that stopped.
FairSpec ==
  /\ Spec
  /\ \A r \in Runs : WF_vars(Step(r))
  /\ WF_vars(Run) /\ WF_vars(Ask) /\ WF_vars(Discover)
  /\ WF_vars(Up)

-----------------------------------------------------------------------------
(* Properties                                                              *)

\* Find-or-create is two calls (init_cognito.py:34-40): runs that overlap
\* make a pool each, and one more for each creation sent twice, but no more,
\* however often the script is run.
PoolsBounded == Cardinality(pools) <= Cardinality(Runs) + resent

\* No run makes a pool when one that was there as it began still is: the
\* accounts of the pool main.py uses are not lost to a run that comes later
\* (init_cognito.py:57).
NoNeedlessPool ==
  \A r \in Runs : step[r] = "createpool" => knew[r] \cap pools = {}

\* main.py:84 and 92 advise to run the script.  A run that nothing comes
\* between repairs what any earlier ones left behind: pools without a
\* client, two pools, half of the data.
RerunHeals ==
  \A r \in Runs : step[r] = "done" /\ alone[r] => Ready

\* The emulator stopped, and the 503 for one that does not answer advises
\* nothing (main.py:95-96): the developer asks again and again.
Unadvised == ~started /\ asker \in {"pools", "refused"}

\* Whoever follows the advice of the 503 is served, whatever outages, kills,
\* lost answers, recreated data and other runs come between: unless the
\* emulator stops once more after their run, and nobody starts it.
AdviceServes ==
  \/ asker = "advised" ~> asker = "served"
  \/ <>[]Unadvised
=============================================================================
