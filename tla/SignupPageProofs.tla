-------------------------- MODULE SignupPageProofs --------------------------
(***************************************************************************)
(* Proofs about SignupPage for every set of pages, threads, addresses,     *)
(* codes and passwords, in both modes.  The theorems of the routes are     *)
(* taken over from CognitoServiceProofs: the pages do nothing but send     *)
(* requests and take answers.                                              *)
(***************************************************************************)
EXTENDS SignupPage, TLAPS

Routes == INSTANCE CognitoServiceProofs

-----------------------------------------------------------------------------
(* The routes are those of CognitoService                                  *)

LEMMA RoutesAssumptions ==
  /\ Routes!ModeAssumption
  /\ Routes!PoolAssumption
  /\ Routes!DictAssumption
  /\ Routes!NoneAssumption
<1>1. Routes!ModeAssumption /\ Routes!PoolAssumption /\ Routes!NoneAssumption
  BY ApiAssumption
     DEF Api!ModeAssumption, Routes!ModeAssumption, Api!PoolAssumption,
         Routes!PoolAssumption, Api!NoneAssumption, Routes!NoneAssumption,
         Api!Accounts, Routes!Accounts, Api!Requests, Routes!Requests,
         Api!Profiles, Routes!Profiles, Api!Replies, Routes!Replies
<1>2. Routes!DictAssumption
  BY ApiAssumption
     DEF Api!DictAssumption, Routes!DictAssumption,
         Api!Dict!ThreadsAssumption, Routes!Dict!ThreadsAssumption,
         Api!Dict!NumbersAssumption, Routes!Dict!NumbersAssumption,
         Api!Dict!NoneAssumption, Routes!Dict!NoneAssumption,
         Api!Dict!FunctionsAssumption, Routes!Dict!FunctionsAssumption,
         Api!Dict!IsFiniteSet, Routes!Dict!IsFiniteSet,
         Api!Dict!Keys, Routes!Dict!Keys, Api!Dict!Values, Routes!Dict!Values,
         Api!Dict!Fields, Routes!Dict!Fields, Api!Dict!Shown,
         Routes!Dict!Shown, Api!Dict!Asked, Routes!Dict!Asked
<1> QED
  BY <1>1, <1>2

LEMMA RoutesInit == Api!Init => Routes!Init
BY DEF Api!Init, Routes!Init, Api!Dict!Init, Routes!Dict!Init, Api!Dict!Keys,
   Routes!Dict!Keys, Api!Accounts, Routes!Accounts

LEMMA RoutesRequest ==
  ASSUME NEW t, NEW r
  PROVE  Api!Request(t, r) <=> Routes!Request(t, r)
BY DEF Api!Request, Routes!Request, Api!RoomForCode, Routes!RoomForCode,
   Api!Dict!Unmade, Routes!Dict!Unmade, Api!Goto, Routes!Goto, Api!Cardinality,
   Routes!Cardinality, Api!dictVars, Routes!dictVars, Api!poolVars,
   Routes!poolVars

LEMMA RoutesDeliver ==
  ASSUME NEW t
  PROVE  Api!Deliver(t) <=> Routes!Deliver(t)
BY DEF Api!Deliver, Routes!Deliver, Api!dictVars, Routes!dictVars,
   Api!poolVars, Routes!poolVars

LEMMA RoutesDiscover ==
  ASSUME NEW t
  PROVE  Api!Discover(t) <=> Routes!Discover(t)
BY DEF Api!Discover, Routes!Discover, Api!FirstStep, Routes!FirstStep,
   Api!Dict!Call, Routes!Dict!Call, Api!Dict!Goto, Routes!Dict!Goto,
   Api!OnError, Routes!OnError, Api!Http, Routes!Http, Api!Goto, Routes!Goto,
   Api!Reply, Routes!Reply, Api!dictVars, Routes!dictVars, Api!poolVars,
   Routes!poolVars

LEMMA RoutesCalls ==
  ASSUME NEW t
  PROVE  /\ Api!SignUp(t) <=> Routes!SignUp(t)
         /\ Api!AdminGetUser(t) <=> Routes!AdminGetUser(t)
         /\ Api!ResendConfirmationCode(t) <=> Routes!ResendConfirmationCode(t)
         /\ Api!AdminConfirmSignUp(t) <=> Routes!AdminConfirmSignUp(t)
         /\ Api!ConfirmSignUp(t) <=> Routes!ConfirmSignUp(t)
         /\ Api!InitiateAuth(t) <=> Routes!InitiateAuth(t)
<1> USE DEF Api!CognitoCall, Routes!CognitoCall, Api!OnError, Routes!OnError,
      Api!Http, Routes!Http, Api!Goto, Routes!Goto, Api!Reply, Routes!Reply,
      Api!User, Routes!User, Api!Exists, Routes!Exists, Api!Confirmed,
      Routes!Confirmed, Api!Errors, Routes!Errors, Api!With, Routes!With,
      Api!dictVars, Routes!dictVars
<1>1. Api!SignUp(t) <=> Routes!SignUp(t)
  BY DEF Api!SignUp, Routes!SignUp, Api!SignUpRefusals, Routes!SignUpRefusals,
     Api!NewAccounts, Routes!NewAccounts
<1>2. Api!AdminGetUser(t) <=> Routes!AdminGetUser(t)
  BY DEF Api!AdminGetUser, Routes!AdminGetUser, Api!AfterGetUser,
     Routes!AfterGetUser
<1>3. Api!ResendConfirmationCode(t) <=> Routes!ResendConfirmationCode(t)
  BY DEF Api!ResendConfirmationCode, Routes!ResendConfirmationCode
<1>4. Api!AdminConfirmSignUp(t) <=> Routes!AdminConfirmSignUp(t)
  BY DEF Api!AdminConfirmSignUp, Routes!AdminConfirmSignUp,
     Api!ConfirmRefusals, Routes!ConfirmRefusals
<1>5. Api!ConfirmSignUp(t) <=> Routes!ConfirmSignUp(t)
  BY DEF Api!ConfirmSignUp, Routes!ConfirmSignUp, Api!ConfirmRefusals,
     Routes!ConfirmRefusals
<1>6. Api!InitiateAuth(t) <=> Routes!InitiateAuth(t)
  BY DEF Api!InitiateAuth, Routes!InitiateAuth, Api!LoginRefusals,
     Routes!LoginRefusals
<1> QED
  BY <1>1, <1>2, <1>3, <1>4, <1>5, <1>6

LEMMA RoutesCodes ==
  ASSUME NEW t
  PROVE  /\ Api!IssueLocalCode(t) <=> Routes!IssueLocalCode(t)
         /\ Api!CheckLocalCode(t) <=> Routes!CheckLocalCode(t)
         /\ Api!Checked(t) <=> Routes!Checked(t)
<1> USE DEF Api!Goto, Routes!Goto, Api!Reply, Routes!Reply, Api!poolVars,
      Routes!poolVars, Api!Dict!Goto, Routes!Dict!Goto, Api!Dict!Keys,
      Routes!Dict!Keys, Api!Dict!Results, Routes!Dict!Results
<1>1. Api!IssueLocalCode(t) <=> Routes!IssueLocalCode(t)
  BY DEF Api!IssueLocalCode, Routes!IssueLocalCode, Api!Dict!Issue,
     Routes!Dict!Issue, Api!Dict!Unmade, Routes!Dict!Unmade,
     Api!Dict!NewEntry, Routes!Dict!NewEntry
<1>2. Api!CheckLocalCode(t) <=> Routes!CheckLocalCode(t)
  BY DEF Api!CheckLocalCode, Routes!CheckLocalCode, Api!Dict!Lookup,
     Routes!Dict!Lookup, Api!Dict!Judge, Routes!Dict!Judge, Api!Dict!Drop,
     Routes!Dict!Drop, Api!Dict!Count, Routes!Dict!Count, Api!Dict!Try,
     Routes!Dict!Try, Api!Dict!Take, Routes!Dict!Take, Api!Dict!Refused, Routes!Dict!Refused,
     Api!Dict!Compared, Routes!Dict!Compared, Api!Dict!Pop, Routes!Dict!Pop
<1>3. Api!Checked(t) <=> Routes!Checked(t)
  BY DEF Api!Checked, Routes!Checked, Api!AfterCheck, Routes!AfterCheck,
     Api!Dict!Return, Routes!Dict!Return
<1> QED
  BY <1>1, <1>2, <1>3

LEMMA RoutesWork ==
  ASSUME NEW t
  PROVE  Api!Work(t) <=> Routes!Work(t)
BY RoutesDiscover, RoutesCalls, RoutesCodes DEF Api!Work, Routes!Work

LEMMA RoutesSurroundings ==
  /\ Api!Tick <=> Routes!Tick
  /\ Api!Restart <=> Routes!Restart
  /\ Api!Recreate <=> Routes!Recreate
<1> USE DEF Api!dictVars, Routes!dictVars, Api!poolVars, Routes!poolVars
<1>1. Api!Tick <=> Routes!Tick
  BY DEF Api!Tick, Routes!Tick, Api!Dict!Tick, Routes!Dict!Tick
<1>2. Api!Restart <=> Routes!Restart
  BY DEF Api!Restart, Routes!Restart, Api!Dict!Restart, Routes!Dict!Restart,
     Api!Dict!Keys, Routes!Dict!Keys
<1>3. Api!Recreate <=> Routes!Recreate
  BY DEF Api!Recreate, Routes!Recreate, Api!Accounts, Routes!Accounts
<1> QED
  BY <1>1, <1>2, <1>3

LEMMA RoutesNext == Routes!Next <=> Api!Next
BY RoutesRequest, RoutesDeliver, RoutesWork, RoutesSurroundings
   DEF Routes!Next, Api!Next, Routes!Requests, Api!Requests

LEMMA RoutesType == Routes!TypeOK <=> Api!TypeOK
BY DEF Routes!TypeOK, Api!TypeOK, Routes!Dict!TypeOK, Api!Dict!TypeOK,
   Routes!Dict!Fields, Api!Dict!Fields, Routes!Dict!Asked, Api!Dict!Asked,
   Routes!Dict!Keys, Api!Dict!Keys, Routes!Dict!Values, Api!Dict!Values,
   Routes!Dict!Steps, Api!Dict!Steps, Routes!Dict!Results, Api!Dict!Results,
   Routes!Accounts, Api!Accounts, Routes!Profiles, Api!Profiles,
   Routes!Requests, Api!Requests, Routes!Replies, Api!Replies,
   Routes!Calls, Api!Calls

-----------------------------------------------------------------------------
(* The inductive invariant of the pages and their requests                 *)

Typed ==
  /\ at \in [Pages -> Waiting \cup {"home", "prompt", "signin"}]
  /\ job \in [Pages -> Threads \cup {None}]
  /\ password \in [Pages -> Passwords \cup {None}]
  /\ shown \in [Pages -> Codes \cup {None}]
  /\ attempt \in [Pages -> 0..MaxPrompts]
  /\ advice \in [Pages -> {"signup", "login"}]
  /\ session \in [Pages -> Emails \cup {None}]
  /\ vouched \in [Pages -> BOOLEAN]
  /\ slips \in 0..MaxSlips

\* The request a page waits for is the one it sent.
Serves(p) ==
  LET t == job[p] IN
  /\ at[p] \in Waiting
  /\ step[t] # "idle"
  /\ req[t].email = PageEmail[p]
  /\ at[p] = "registering" =>
       req[t].route = "register" /\ req[t].secret = password[p]
  /\ at[p] = "confirming" => req[t].route = "confirm"
  /\ at[p] \in {"signingin", "loggingin"} =>
       req[t].route = "login" /\ req[t].secret = password[p]

\* A page that signs in has a password its user chose.
Chosen(p) ==
  at[p] # "home" \/ advice[p] = "login" => password[p] \in PagePasswords[p]

PageInv ==
  /\ Routes!ServiceInv
  /\ Typed
  /\ \A p \in Pages : job[p] # None => Serves(p)
  /\ \A p \in Pages : Chosen(p)
  /\ \A p, q \in Pages : p # q /\ job[p] # None => job[p] # job[q]
  /\ \A t \in Threads : step[t] # "idle" => \E p \in Pages : job[p] = t

LEMMA PageInvInit == Init => PageInv
<1> SUFFICES ASSUME Init PROVE PageInv
  OBVIOUS
<1>1. Routes!ServiceInv
  BY RoutesInit, RoutesAssumptions, Routes!ServiceInit DEF Init
<1>2. Typed /\ \A p \in Pages : job[p] = None /\ Chosen(p)
  BY PagesAssumption DEF Init, Typed, Chosen, Waiting
<1>3. \A t \in Threads : step[t] = "idle"
  BY DEF Init, Api!Init
<1> QED
  BY <1>1, <1>2, <1>3 DEF PageInv

-----------------------------------------------------------------------------
(* The pages do to the routes what CognitoService allows                   *)

LEMMA SentRequest ==
  ASSUME PageInv, NEW p \in Pages
  PROVE  /\ at[p] = "home" =>
              \A pw \in PagePasswords[p] :
                [route |-> "register", email |-> PageEmail[p], secret |-> pw]
                  \in Routes!Requests
         /\ \A text \in Texts :
                [route |-> "confirm", email |-> PageEmail[p], secret |-> text]
                  \in Routes!Requests
         /\ at[p] = "signin" \/ advice[p] = "login" =>
                [route |-> "login", email |-> PageEmail[p],
                 secret |-> password[p]] \in Routes!Requests
BY PagesAssumption DEF PageInv, Chosen, Routes!Requests

\* The outcomes of a step, as the routes see them.
LEMMA ApiSteps == PageInv /\ [Next]_vars => [Routes!Next]_(Routes!vars)
<1> SUFFICES ASSUME PageInv, [Next]_vars
             PROVE  Routes!Next \/ UNCHANGED Routes!vars
  OBVIOUS
<1> DEFINE Same == UNCHANGED Routes!vars
<1>1. ASSUME NEW p \in Pages,
             StartSignup(p) \/ SubmitCode(p) \/ SignIn(p) \/ StartLogin(p)
      PROVE  Routes!Next
  <2>1. PICK t \in Threads, r \in Routes!Requests : Api!Request(t, r)
    BY <1>1, SentRequest DEF StartSignup, SubmitCode, SignIn, StartLogin, Post
  <2> QED
    BY <2>1, RoutesRequest DEF Routes!Next
<1>2. ASSUME NEW p \in Pages,
             Registered(p) \/ Confirmed(p) \/ SignedIn(p) \/ LoggedIn(p)
      PROVE  Routes!Next
  <2>1. job[p] \in Threads /\ Api!Deliver(job[p])
    BY <1>2 DEF Registered, Confirmed, SignedIn, LoggedIn, Receive, PageInv,
       Typed
  <2> QED
    BY <2>1, RoutesDeliver DEF Routes!Next
<1>3. ASSUME NEW p \in Pages, ClosePrompt(p) \/ NetworkError(p) PROVE Same
  BY <1>3 DEF ClosePrompt, NetworkError, apiVars, Routes!vars, Routes!dictVars,
     Routes!poolVars
<1>4. CASE Server
  BY <1>4, RoutesWork DEF Server, Routes!Next
<1>5. CASE Api!Tick \/ Api!Recreate \/ Restart
  BY <1>5, RoutesSurroundings DEF Restart, Routes!Next
<1>6. CASE UNCHANGED vars
  BY <1>6 DEF vars, apiVars, Routes!vars, Routes!dictVars, Routes!poolVars
<1> QED
  BY <1>1, <1>2, <1>3, <1>4, <1>5, <1>6 DEF Next, Page

LEMMA ServiceKept == PageInv /\ [Next]_vars => Routes!ServiceInv'
BY ApiSteps, RoutesAssumptions, Routes!ServiceNext DEF PageInv

-----------------------------------------------------------------------------
(* The invariant holds: one lemma per kind of step                         *)

\* A page sends a request to a thread that was free.
LEMMA PostKeeps ==
  ASSUME PageInv, [Next]_vars, Typed',
         NEW p \in Pages, NEW t \in Threads, NEW r,
         NEW place \in Waiting, Api!Request(t, r), r.email = PageEmail[p],
         job' = [job EXCEPT ![p] = t], at[p] \notin Waiting, Goto(p, place),
         place = "registering" =>
           r.route = "register" /\ r.secret = password'[p],
         place = "confirming" => r.route = "confirm",
         place \in {"signingin", "loggingin"} =>
           r.route = "login" /\ r.secret = password'[p],
         password'[p] \in PagePasswords[p],
         \A q \in Pages \ {p} :
           password'[q] = password[q] /\ advice'[q] = advice[q]
  PROVE  PageInv'
<1> USE DEF PageInv
<1>1. /\ step[t] = "idle" /\ step'[t] = "discover" /\ req'[t] = r
      /\ \A s \in Threads \ {t} : step'[s] = step[s] /\ req'[s] = req[s]
  BY RoutesRequest
     DEF Routes!ServiceInv, Routes!TypeOK, Routes!Request, Routes!Goto
<1>2. /\ at'[p] = place /\ job'[p] = t /\ job[p] = None
      /\ \A q \in Pages \ {p} : at'[q] = at[q] /\ job'[q] = job[q]
  BY DEF Typed, Goto, Serves
<1>3. \A q \in Pages \ {p} : job[q] # None => job[q] \in Threads \ {t}
  BY <1>1 DEF Typed, Serves
<1>4. Serves(p)' /\ Chosen(p)'
  BY <1>1, <1>2 DEF Serves, Chosen
<1>5. \A q \in Pages \ {p} : (job'[q] # None => Serves(q)') /\ Chosen(q)'
  BY <1>1, <1>2, <1>3 DEF Serves, Chosen
<1>6. \A q1, q2 \in Pages : q1 # q2 /\ job'[q1] # None => job'[q1] # job'[q2]
  BY <1>2, <1>3
<1>7. \A s \in Threads : step'[s] # "idle" => \E q \in Pages : job'[q] = s
  BY <1>1, <1>2, ThreadsAssumption
<1> QED
  BY <1>4, <1>5, <1>6, <1>7, ServiceKept

\* A page takes the answer, which frees the thread.
LEMMA ReceiveKeeps ==
  ASSUME PageInv, [Next]_vars, Typed', NEW p \in Pages, job[p] # None,
         Api!Deliver(job[p]), job' = [job EXCEPT ![p] = None],
         at'[p] \notin Waiting, \A q \in Pages \ {p} : at'[q] = at[q],
         UNCHANGED password, Chosen(p)',
         \A q \in Pages \ {p} : advice'[q] = advice[q]
  PROVE  PageInv'
<1> USE DEF PageInv
<1> DEFINE t == job[p]
<1>1. t \in Threads
  BY DEF Typed
<1>2. /\ step'[t] = "idle"
      /\ \A s \in Threads \ {t} : step'[s] = step[s] /\ req'[s] = req[s]
  BY <1>1, RoutesDeliver DEF Routes!ServiceInv, Routes!TypeOK, Routes!Deliver
<1>3. job'[p] = None /\ \A q \in Pages \ {p} : job'[q] = job[q]
  BY DEF Typed
<1>4. \A q \in Pages \ {p} : job[q] # None => job[q] \in Threads \ {t}
  BY DEF Typed
<1>5. \A q \in Pages \ {p} : (job'[q] # None => Serves(q)') /\ Chosen(q)'
  BY <1>2, <1>3, <1>4 DEF Serves, Chosen
<1>6. \A q1, q2 \in Pages : q1 # q2 /\ job'[q1] # None => job'[q1] # job'[q2]
  BY <1>3
<1>7. \A s \in Threads : step'[s] # "idle" => \E q \in Pages : job'[q] = s
  BY <1>2, <1>3
<1> QED
  BY <1>3, <1>5, <1>6, <1>7, ServiceKept

\* A page goes home while it waits for nothing.
LEMMA LeaveKeeps ==
  ASSUME PageInv, [Next]_vars, Typed', NEW p \in Pages, job[p] = None,
         UNCHANGED <<apiVars, job, password>>, Goto(p, "home"),
         advice' = advice \/ advice' = [advice EXCEPT ![p] = "signup"]
  PROVE  PageInv'
<1> USE DEF PageInv
<1>1. at'[p] = "home" /\ \A q \in Pages \ {p} : at'[q] = at[q]
  BY DEF Typed, Goto
<1>2. /\ advice'[p] = "login" => advice[p] = "login"
      /\ \A q \in Pages \ {p} : advice'[q] = advice[q]
  BY DEF Typed
<1>3. step' = step /\ req' = req
  BY DEF apiVars
<1>4. \A q \in Pages : (job'[q] # None => Serves(q)') /\ Chosen(q)'
  BY <1>1, <1>2, <1>3 DEF Serves, Chosen
<1> QED
  BY <1>3, <1>4, ServiceKept

\* A call to Cognito ends in an answer, or leads on.
LEMMA CallShape ==
  ASSUME NEW t \in Threads,
         \/ Routes!SignUp(t) \/ Routes!AdminGetUser(t)
         \/ Routes!ResendConfirmationCode(t) \/ Routes!AdminConfirmSignUp(t)
         \/ Routes!ConfirmSignUp(t) \/ Routes!InitiateAuth(t)
  PROVE  /\ step[t] \in Routes!Calls \ {"discover"}
         /\ UNCHANGED <<Routes!dictVars, generation, req, began, cfg>>
         /\ \/ \E s : Routes!Goto(t, s)
            \/ \E status, code : Routes!Reply(t, status, code)
<1> USE DEF Routes!CognitoCall, Routes!OnError, Routes!Calls
<1>1. CASE Routes!SignUp(t)
  BY <1>1 DEF Routes!SignUp
<1>2. CASE Routes!AdminGetUser(t)
  BY <1>2 DEF Routes!AdminGetUser, Routes!AfterGetUser
<1>3. CASE Routes!ResendConfirmationCode(t)
  BY <1>3 DEF Routes!ResendConfirmationCode
<1>4. CASE Routes!AdminConfirmSignUp(t)
  BY <1>4 DEF Routes!AdminConfirmSignUp
<1>5. CASE Routes!ConfirmSignUp(t)
  BY <1>5 DEF Routes!ConfirmSignUp
<1>6. CASE Routes!InitiateAuth(t)
  BY <1>6 DEF Routes!InitiateAuth
<1> QED
  BY <1>1, <1>2, <1>3, <1>4, <1>5, <1>6

\* A thread at work serves its request and leaves the others alone.
LEMMA WorkShape ==
  ASSUME Routes!TypeOK, NEW t \in Threads, Routes!Work(t)
  PROVE  /\ step[t] \notin {"idle", "replied"}
         /\ UNCHANGED <<generation, req, began>>
         /\ \A s \in Threads \ {t} :
              /\ step'[s] = step[s] /\ reply'[s] = reply[s] /\ cfg'[s] = cfg[s]
              /\ pc'[s] = pc[s] /\ call'[s] = call[s]
              /\ held'[s] = held[s] /\ seen'[s] = seen[s]
<1> USE DEF Routes!TypeOK, Routes!Dict!TypeOK
<1>1. CASE \/ Routes!SignUp(t) \/ Routes!AdminGetUser(t)
           \/ Routes!ResendConfirmationCode(t) \/ Routes!AdminConfirmSignUp(t)
           \/ Routes!ConfirmSignUp(t) \/ Routes!InitiateAuth(t)
  BY <1>1, CallShape DEF Routes!Goto, Routes!Reply, Routes!dictVars,
     Routes!Calls
<1>2. CASE Routes!Discover(t)
  BY <1>2 DEF Routes!Discover, Routes!Goto, Routes!Reply, Routes!OnError,
     Routes!poolVars, Routes!dictVars, Routes!Dict!Call, Routes!Dict!Goto
<1>3. CASE Routes!IssueLocalCode(t)
  BY <1>3 DEF Routes!IssueLocalCode, Routes!Reply, Routes!poolVars,
     Routes!Dict!Issue
<1>4. CASE Routes!CheckLocalCode(t)
  BY <1>4 DEF Routes!CheckLocalCode, Routes!poolVars, Routes!Dict!Lookup,
     Routes!Dict!Judge, Routes!Dict!Drop, Routes!Dict!Count, Routes!Dict!Try,
     Routes!Dict!Take, Routes!Dict!Goto
<1>5. CASE Routes!Checked(t)
  <2>1. \/ \E s : Routes!Goto(t, s)
        \/ \E status, code : Routes!Reply(t, status, code)
    BY <1>5 DEF Routes!Checked, Routes!AfterCheck, Routes!Dict!Results
  <2>2. \A s \in Threads \ {t} : step'[s] = step[s] /\ reply'[s] = reply[s]
    BY <2>1 DEF Routes!Goto, Routes!Reply
  <2> QED
    BY <1>5, <2>2 DEF Routes!Checked, Routes!poolVars, Routes!Dict!Return,
       Routes!Dict!Goto
<1> QED
  BY <1>1, <1>2, <1>3, <1>4, <1>5 DEF Routes!Work

\* Steps of the routes during which no page does anything.
LEMMA ServerKeeps ==
  ASSUME PageInv, [Next]_vars, UNCHANGED pageVars,
         Server \/ Api!Tick \/ Api!Recreate \/ UNCHANGED apiVars
  PROVE  PageInv'
<1> USE DEF PageInv
<1>1. req' = req /\ \A t \in Threads : step'[t] = "idle" <=> step[t] = "idle"
  <2>1. CASE Server
    <3>1. PICK t \in Threads : Routes!Work(t)
      BY <2>1, RoutesWork DEF Server
    <3>2. /\ step[t] # "idle" /\ req' = req
          /\ \A s \in Threads \ {t} : step'[s] = step[s]
      BY <3>1, WorkShape DEF Routes!ServiceInv
    <3>3. step'[t] # "idle"
      BY <3>2, ServiceKept DEF Routes!ServiceInv, Routes!TypeOK
    <3> QED
      BY <3>2, <3>3
  <2>2. CASE Api!Tick \/ Api!Recreate \/ UNCHANGED apiVars
    BY <2>2 DEF Api!Tick, Api!Recreate, apiVars
  <2> QED
    BY <2>1, <2>2
<1>2. UNCHANGED <<at, job, password, shown, attempt, vouched, advice, session,
                  slips>>
  BY DEF pageVars, formVars
<1>3. Typed'
  BY <1>2 DEF Typed
<1>4. \A p \in Pages : (job'[p] # None => Serves(p)') /\ Chosen(p)'
  BY <1>1, <1>2 DEF Serves, Chosen, Typed
<1> QED
  BY <1>1, <1>2, <1>3, <1>4, ServiceKept

LEMMA RestartKeeps ==
  ASSUME PageInv, [Next]_vars, Restart
  PROVE  PageInv'
<1> USE DEF PageInv, Restart
<1>1. \A t \in Threads : step'[t] = "idle"
  BY DEF Api!Restart
<1>2. \A p \in Pages : job'[p] = None /\ Chosen(p)'
  BY DEF Chosen, formVars
<1>3. Typed'
  BY DEF Typed, formVars
<1> QED
  BY <1>1, <1>2, <1>3, ServiceKept

\* What an answer may hold.
LEMMA Answers ==
  ASSUME PageInv, NEW p \in Pages, job[p] # None, Api!Deliver(job[p])
  PROVE  /\ job[p] \in Threads
         /\ reply[job[p]] \in Routes!Replies
         /\ Serves(p)
BY RoutesDeliver DEF PageInv, Typed, Routes!Deliver, Routes!ServiceInv,
   Routes!TypeOK

LEMMA PageInvNext == PageInv /\ [Next]_vars => PageInv'
<1> SUFFICES ASSUME PageInv, [Next]_vars PROVE PageInv'
  OBVIOUS
<1> USE PagesAssumption DEF formVars
<1>1. ASSUME NEW p \in Pages, StartSignup(p) PROVE PageInv'
  <2>1. /\ at[p] = "home" /\ Goto(p, "registering")
        /\ UNCHANGED <<advice, session, slips>>
    BY <1>1 DEF StartSignup, Post
  <2>2. PICK pw \in PagePasswords[p], t \in Threads :
          /\ Api!Request(t, [route |-> "register", email |-> PageEmail[p],
                             secret |-> pw])
          /\ job' = [job EXCEPT ![p] = t]
          /\ password' = [password EXCEPT ![p] = pw]
    BY <1>1 DEF StartSignup, Post
  <2>3. Typed'
    BY <1>1, <2>1, <2>2 DEF StartSignup, PageInv, Typed, Goto, Waiting
  <2>4. password'[p] = pw /\ \A q \in Pages \ {p} : password'[q] = password[q]
    BY <2>2 DEF PageInv, Typed
  <2> QED
    BY <2>1, <2>2, <2>3, <2>4, PostKeeps DEF Waiting
<1>2. ASSUME NEW p \in Pages, Registered(p) PROVE PageInv'
  <2>1. /\ job[p] # None /\ Api!Deliver(job[p])
        /\ job' = [job EXCEPT ![p] = None]
        /\ at[p] = "registering"
        /\ UNCHANGED <<password, vouched, session, slips>>
    BY <1>2 DEF Registered, Receive
  <2>2. reply[job[p]].code \in Codes \cup {None}
    BY <2>1, Answers DEF Routes!Replies
  <2>3. Typed'
    BY <1>2, <2>1, <2>2 DEF Registered, PageInv, Typed, Goto, Home
  <2>4. /\ at'[p] \in {"prompt", "home"}
        /\ \A q \in Pages \ {p} : at'[q] = at[q] /\ advice'[q] = advice[q]
    BY <1>2 DEF Registered, PageInv, Typed, Goto, Home
  <2>5. Chosen(p)'
    BY <2>1 DEF PageInv, Chosen
  <2> QED
    BY <2>1, <2>3, <2>4, <2>5, ReceiveKeeps DEF Waiting
<1>3. ASSUME NEW p \in Pages, SubmitCode(p) PROVE PageInv'
  <2>1. /\ at[p] = "prompt" /\ Goto(p, "confirming")
        /\ UNCHANGED <<password, shown, attempt, vouched, advice, session>>
    BY <1>3 DEF SubmitCode, Post
  <2>2. PICK text \in Texts, t \in Threads :
          /\ Api!Request(t, [route |-> "confirm", email |-> PageEmail[p],
                             secret |-> text])
          /\ job' = [job EXCEPT ![p] = t]
    BY <1>3 DEF SubmitCode, Post
  <2>3. slips' \in 0..MaxSlips
    BY <1>3 DEF SubmitCode, Slip, PageInv, Typed
  <2>4. Typed'
    BY <2>1, <2>2, <2>3 DEF PageInv, Typed, Goto, Waiting
  <2>5. password[p] \in PagePasswords[p]
    BY <2>1 DEF PageInv, Chosen
  <2> QED
    BY <2>1, <2>2, <2>4, <2>5, PostKeeps DEF Waiting
<1>4. ASSUME NEW p \in Pages, Confirmed(p) PROVE PageInv'
  <2>1. /\ job[p] # None /\ Api!Deliver(job[p])
        /\ job' = [job EXCEPT ![p] = None]
        /\ at[p] = "confirming" /\ UNCHANGED <<password, shown, session, slips>>
    BY <1>4 DEF Confirmed, Receive
  <2>2. attempt' \in [Pages -> 0..MaxPrompts]
    BY <1>4 DEF Confirmed, PageInv, Typed, MayRetry
  <2>3. /\ at' \in [Pages -> Waiting \cup {"home", "prompt", "signin"}]
        /\ advice' \in [Pages -> {"signup", "login"}]
    BY <1>4 DEF Confirmed, PageInv, Typed, Goto, Home
  <2>4. vouched' = vouched \/ vouched' = [vouched EXCEPT ![p] = TRUE]
    BY <1>4 DEF Confirmed
  <2>5. vouched' \in [Pages -> BOOLEAN]
    BY <2>4 DEF PageInv, Typed
  <2>6. Typed'
    BY <2>1, <2>2, <2>3, <2>5 DEF PageInv, Typed
  <2>7. /\ at'[p] \in {"prompt", "signin", "home"}
        /\ \A q \in Pages \ {p} : at'[q] = at[q] /\ advice'[q] = advice[q]
    BY <1>4 DEF Confirmed, PageInv, Typed, Goto, Home
  <2>8. Chosen(p)'
    BY <2>1 DEF PageInv, Chosen
  <2> QED
    BY <2>1, <2>6, <2>7, <2>8, ReceiveKeeps DEF Waiting
<1>5. ASSUME NEW p \in Pages, SignIn(p) \/ StartLogin(p) PROVE PageInv'
  <2>1. PICK place \in {"signingin", "loggingin"}, t \in Threads :
          /\ Api!Request(t, [route |-> "login", email |-> PageEmail[p],
                             secret |-> password[p]])
          /\ job' = [job EXCEPT ![p] = t]
          /\ Goto(p, place)
    BY <1>5 DEF SignIn, StartLogin, Post
  <2>2. /\ at[p] \in {"signin", "home"}
        /\ at[p] = "home" => advice[p] = "login"
        /\ UNCHANGED <<password, shown, attempt, vouched, advice, session,
                       slips>>
    BY <1>5 DEF SignIn, StartLogin
  <2>3. Typed'
    BY <2>1, <2>2 DEF PageInv, Typed, Goto, Waiting
  <2>4. password[p] \in PagePasswords[p]
    BY <2>2 DEF PageInv, Chosen
  <2> QED
    BY <2>1, <2>2, <2>3, <2>4, PostKeeps DEF Waiting
<1>6. ASSUME NEW p \in Pages, SignedIn(p) \/ LoggedIn(p) PROVE PageInv'
  <2>1. /\ job[p] # None /\ Api!Deliver(job[p])
        /\ job' = [job EXCEPT ![p] = None]
        /\ at[p] # "home"
        /\ UNCHANGED <<password, shown, attempt, vouched, slips>>
        /\ \E told \in {"signup", "login"} : Home(p, told)
        /\ session' = session \/ SaveSession(p)
    BY <1>6 DEF SignedIn, LoggedIn, Receive
  <2>2. Typed'
    BY <2>1 DEF PageInv, Typed, Goto, Home, SaveSession
  <2>3. /\ at'[p] = "home"
        /\ \A q \in Pages \ {p} : at'[q] = at[q] /\ advice'[q] = advice[q]
    BY <2>1 DEF PageInv, Typed, Goto, Home
  <2>4. Chosen(p)'
    BY <2>1 DEF PageInv, Chosen
  <2> QED
    BY <2>1, <2>2, <2>3, <2>4, ReceiveKeeps DEF Waiting
<1>7. ASSUME NEW p \in Pages, ClosePrompt(p) \/ NetworkError(p) PROVE PageInv'
  <2>1. job[p] = None
    BY <1>7 DEF ClosePrompt, NetworkError, PageInv, Serves, Waiting
  <2>2. slips' \in 0..MaxSlips
    BY <1>7 DEF ClosePrompt, NetworkError, Slip, PageInv, Typed
  <2>3. /\ UNCHANGED <<apiVars, job, password, shown, attempt, vouched,
                       session>>
        /\ Goto(p, "home")
        /\ advice' = advice \/ advice' = [advice EXCEPT ![p] = "signup"]
    BY <1>7 DEF ClosePrompt, NetworkError, Home
  <2>4. Typed'
    BY <2>2, <2>3 DEF PageInv, Typed, Goto
  <2> QED
    BY <2>1, <2>3, <2>4, LeaveKeeps
<1>8. CASE (Server \/ Api!Tick \/ Api!Recreate) /\ UNCHANGED pageVars
  BY <1>8, ServerKeeps
<1>9. CASE UNCHANGED vars
  BY <1>9, ServerKeeps DEF vars
<1>10. CASE Restart
  BY <1>10, RestartKeeps
<1> QED
  BY <1>1, <1>2, <1>3, <1>4, <1>5, <1>6, <1>7, <1>8, <1>9, <1>10 DEF Next, Page

LEMMA PageInvariance == Spec => []PageInv
BY PageInvInit, PageInvNext, PTL DEF Spec

\* Every variable keeps its type, a page that waits does so for the request
\* it sent, and no two pages wait for one answer (script.js:163-176).
THEOREM SignupTypeCorrect == Spec => []TypeOK
<1>1. PageInv => TypeOK
  <2> SUFFICES ASSUME PageInv PROVE TypeOK
    OBVIOUS
  <2>1. Api!TypeOK
    BY RoutesType DEF PageInv, Routes!ServiceInv
  <2> QED
    BY <2>1 DEF PageInv, Typed, Serves, TypeOK
<1> QED
  BY <1>1, PageInvariance, PTL

\* The pages call the routes only as CognitoService allows (script.js:163-310),
\* so that what is proved of the routes holds of them.
THEOREM PagesUseRoutes == Spec => Api!Spec
<1>1. Init => Api!Init
  BY DEF Init
<1>2. PageInv /\ [Next]_vars => [Api!Next]_(Api!vars)
  BY ApiSteps, RoutesNext DEF Api!vars, Routes!vars, Api!dictVars,
     Routes!dictVars, Api!poolVars, Routes!poolVars
<1> QED
  BY <1>1, <1>2, PageInvariance, PTL DEF Spec, Api!Spec

-----------------------------------------------------------------------------
(* Users with one password, whose accounts ask for no more                 *)

\* An account has the password of its users, is confirmed once a sign-up was
\* told so, and lets in who was told so.
PasswordKept ==
  \A p \in Pages : Routes!Exists(Account(p)) =>
    \A pw \in PagePasswords[p] : account[Account(p)].password = pw

VouchedConfirmed ==
  \A p \in Pages : vouched[p] /\ generation = 0 => Routes!Confirmed(Account(p))

PasswordInv == PasswordKept /\ VouchedConfirmed /\ ConfirmedSignsIn

\* What work does to the accounts of the pool.
LEMMA AccountsOfWork ==
  ASSUME Routes!ServiceInv, NEW t \in Threads, Routes!Work(t),
         NEW u \in Routes!Accounts
  PROVE  /\ Routes!Confirmed(u) => Routes!Confirmed(u)'
         /\ Routes!Exists(u)' =>
              \/ /\ Routes!Exists(u)
                 /\ account'[u].password = account[u].password
              \/ /\ Routes!User(t) = u
                 /\ req[t].route = "register"
                 /\ account'[u].password = req[t].secret
<1> USE DEF Routes!ServiceInv, Routes!Exists
<1>1. CASE account' = account
  BY <1>1 DEF Routes!Confirmed
<1>2. CASE Routes!SignUp(t) /\ account' # account
  <2>1. /\ step[t] = "signup" /\ account' \in Routes!NewAccounts(t)
        /\ Routes!SignUpRefusals(t) = {}
    BY <1>2 DEF Routes!SignUp, Routes!CognitoCall
  <2>2. Routes!User(t) \in Routes!Accounts /\ req[t].route = "register"
    BY <2>1, RoutesAssumptions, Routes!Served
       DEF Routes!ThreadOK, Routes!Routed
  <2>3. PICK code : account' = [account EXCEPT ![Routes!User(t)] =
          [status |-> "UNCONFIRMED", password |-> req[t].secret, code |-> code]]
    BY <2>1 DEF Routes!NewAccounts
  <2>4. account[Routes!User(t)] = None
    BY <2>1 DEF Routes!SignUpRefusals, Routes!Errors
  <2> QED
    BY <2>2, <2>3, <2>4 DEF Routes!TypeOK, Routes!Confirmed
<1>3. ASSUME \/ Routes!ResendConfirmationCode(t)
             \/ Routes!AdminConfirmSignUp(t) \/ Routes!ConfirmSignUp(t),
             account' # account
      PROVE  /\ Routes!Confirmed(u) => Routes!Confirmed(u)'
             /\ Routes!Exists(u)' =>
                  Routes!Exists(u) /\ account'[u].password = account[u].password
  <2> DEFINE v == Routes!User(t)
  <2>1. /\ step[t] \in {"resend", "adminconfirm", "confirmsignup"}
        /\ \/ Routes!Exists(v) /\ \E code \in Codes :
                account' = Routes!With(v, "code", code)
           \/ /\ Routes!Exists(v)
              /\ account' = Routes!With(v, "status", "CONFIRMED")
    <3>1. CASE Routes!ResendConfirmationCode(t)
      BY <1>3, <3>1 DEF Routes!ResendConfirmationCode, Routes!CognitoCall,
         Routes!ThreadOK, Routes!Known
    <3>2. CASE Routes!AdminConfirmSignUp(t)
      BY <1>3, <3>2 DEF Routes!AdminConfirmSignUp, Routes!CognitoCall,
         Routes!ConfirmRefusals, Routes!Errors
    <3>3. CASE Routes!ConfirmSignUp(t)
      BY <1>3, <3>3 DEF Routes!ConfirmSignUp, Routes!CognitoCall,
         Routes!ConfirmRefusals, Routes!Errors
    <3> QED
      BY <1>3, <3>1, <3>2, <3>3
  <2>2. v \in Routes!Accounts /\ account[v] \in Routes!Profiles
    BY <2>1, RoutesAssumptions, Routes!Served DEF Routes!TypeOK
  <2>3. PICK field \in {"code", "status"}, value \in Codes \cup {"CONFIRMED"} :
          /\ account' =
               [account EXCEPT ![v] = [account[v] EXCEPT ![field] = value]]
          /\ field = "status" => value = "CONFIRMED"
          /\ field = "code" => value \in Codes
    BY <2>1, <2>2 DEF Routes!With, Routes!TypeOK
  <2>4. /\ account'[v] = [account[v] EXCEPT ![field] = value]
        /\ \A w \in Routes!Accounts \ {v} : account'[w] = account[w]
    BY <2>2, <2>3 DEF Routes!TypeOK
  <2>5. /\ account'[v].password = account[v].password
        /\ account[v].status = "CONFIRMED" => account'[v].status = "CONFIRMED"
    BY <2>2, <2>3, <2>4 DEF Routes!Profiles
  <2>6. account'[v] # None
    <3>1. account'[v] \in Routes!Profiles
      BY <2>2, <2>3, <2>4 DEF Routes!Profiles
    <3> QED
      BY <3>1, RoutesAssumptions DEF Routes!NoneAssumption
  <2> QED
    BY <2>1, <2>4, <2>5, <2>6 DEF Routes!Confirmed
<1>4. CASE Routes!AdminGetUser(t) \/ Routes!InitiateAuth(t)
  <2>1. account' = account
    BY <1>4 DEF Routes!AdminGetUser, Routes!InitiateAuth, Routes!CognitoCall
  <2> QED
    BY <1>1, <2>1
<1>5. CASE \/ Routes!Discover(t) \/ Routes!IssueLocalCode(t)
           \/ Routes!CheckLocalCode(t) \/ Routes!Checked(t)
  <2>1. account' = account
    BY <1>5 DEF Routes!Discover, Routes!IssueLocalCode, Routes!CheckLocalCode,
       Routes!Checked, Routes!poolVars
  <2> QED
    BY <1>1, <2>1
<1> QED
  BY <1>1, <1>2, <1>3, <1>4, <1>5 DEF Routes!Work

\* A sign-in that reaches the pool is told of its password or its account
\* only if the pool refuses them.
LEMMA RefusedSignIn ==
  ASSUME Routes!ServiceInv, NEW t \in Threads, Routes!Work(t),
         req[t].route = "login", step'[t] = "replied",
         reply'[t].status \in {401, 403}
  PROVE  /\ cfg[t] = generation
         /\ Routes!LoginRefusals(t) # {} \/ Routes!User(t) \in Challenged
<1> USE DEF Routes!ServiceInv
<1>1. CASE Routes!Discover(t)
  <2>1. Routes!Goto(t, "auth") \/ Routes!Reply(t, 503, None)
    BY <1>1 DEF Routes!Discover, Routes!FirstStep, Routes!OnError
  <2> QED
    BY <2>1 DEF Routes!Goto, Routes!Reply, Routes!TypeOK
<1>2. CASE Routes!InitiateAuth(t)
  <2> DEFINE status == IF Routes!User(t) \in Challenged THEN 401 ELSE 200
  <2>1. step[t] = "auth"
    BY <1>2 DEF Routes!InitiateAuth
  <2>2. ~Routes!OnError(t, "ServiceUnavailable")
    <3>1. Routes!OnError(t, "ServiceUnavailable") => Routes!Reply(t, 503, None)
      BY <2>1 DEF Routes!OnError, Routes!Http
    <3> QED
      BY <3>1 DEF Routes!Reply, Routes!TypeOK
  <2>3. ~Routes!OnError(t, "ResourceNotFoundException")
    <3>1. Routes!OnError(t, "ResourceNotFoundException") =>
            Routes!Reply(t, 400, None)
      BY <2>1 DEF Routes!OnError, Routes!Http
    <3> QED
      BY <3>1 DEF Routes!Reply, Routes!TypeOK
  <2>4. /\ cfg[t] = generation
        /\ Routes!LoginRefusals(t) # {} \/ Routes!Reply(t, status, None)
    BY <1>2, <2>2, <2>3 DEF Routes!InitiateAuth, Routes!CognitoCall
  <2>5. Routes!Reply(t, 200, None) => reply'[t].status = 200
    BY DEF Routes!Reply, Routes!TypeOK
  <2> QED
    BY <2>4, <2>5
<1>3. ~\/ Routes!SignUp(t) \/ Routes!AdminGetUser(t)
       \/ Routes!ResendConfirmationCode(t) \/ Routes!IssueLocalCode(t)
       \/ Routes!CheckLocalCode(t) \/ Routes!Checked(t)
       \/ Routes!AdminConfirmSignUp(t) \/ Routes!ConfirmSignUp(t)
  BY DEF Routes!ThreadOK, Routes!Routed, Routes!SignUp, Routes!AdminGetUser,
     Routes!ResendConfirmationCode, Routes!IssueLocalCode,
     Routes!CheckLocalCode, Routes!Checked, Routes!AdminConfirmSignUp,
     Routes!ConfirmSignUp
<1> QED
  BY <1>1, <1>2, <1>3 DEF Routes!Work

\* What a page does to the routes: nothing, or a request, or its answer.
Sends(p) ==
  \E t \in Threads, r \in Routes!Requests :
    /\ at[p] \notin Waiting
    /\ Routes!Request(t, r)
    /\ job' = [job EXCEPT ![p] = t]
    /\ \E place \in Waiting : Goto(p, place)

Takes(p) ==
  /\ job[p] # None
  /\ Routes!Deliver(job[p])
  /\ job' = [job EXCEPT ![p] = None]
  /\ \E place \in {"home", "prompt", "signin"} : Goto(p, place)

Leaves(p) == job[p] = None /\ UNCHANGED <<apiVars, job>> /\ Goto(p, "home")

LEMMA PageShape ==
  ASSUME PageInv, NEW p \in Pages, Page(p) \/ ClosePrompt(p)
  PROVE  /\ Sends(p) \/ Takes(p) \/ Leaves(p)
         /\ \/ vouched' = vouched
            \/ vouched' = [vouched EXCEPT ![p] = FALSE]
            \/ /\ vouched' = [vouched EXCEPT ![p] = TRUE]
               /\ Takes(p)
               /\ at[p] = "confirming"
               /\ reply[job[p]].status = 200
<1>1. CASE StartSignup(p)
  BY <1>1, SentRequest, RoutesRequest DEF StartSignup, Post, Sends, Waiting
<1>2. CASE SubmitCode(p)
  BY <1>2, SentRequest, RoutesRequest DEF SubmitCode, Post, Sends, Waiting,
     formVars
<1>3. CASE SignIn(p) \/ StartLogin(p)
  BY <1>3, SentRequest, RoutesRequest
     DEF SignIn, StartLogin, Post, Sends, Waiting, formVars
<1>4. CASE Registered(p) \/ SignedIn(p) \/ LoggedIn(p)
  BY <1>4, RoutesDeliver
     DEF Registered, SignedIn, LoggedIn, Receive, Home, Takes, formVars
<1>5. CASE Confirmed(p)
  BY <1>5, RoutesDeliver DEF Confirmed, Receive, Status, Home, Takes
<1>6. CASE ClosePrompt(p) \/ NetworkError(p)
  BY <1>6 DEF ClosePrompt, NetworkError, Home, Leaves, formVars, PageInv,
     Serves, Waiting
<1> QED
  BY <1>1, <1>2, <1>3, <1>4, <1>5, <1>6 DEF Page

LEMMA AccountOfPage ==
  ASSUME NEW p \in Pages
  PROVE  Account(p) \in Routes!Accounts
BY RoutesAssumptions, PagesAssumption DEF Account, Routes!PoolAssumption

LEMMA PasswordInvInit == Init => PasswordInv
<1> SUFFICES ASSUME Init PROVE PasswordInv
  OBVIOUS
<1>1. \A p \in Pages : account[Account(p)] = None
  BY AccountOfPage, RoutesInit DEF Init, Routes!Init
<1> QED
  BY <1>1 DEF Init, PasswordInv, PasswordKept, VouchedConfirmed,
     ConfirmedSignsIn, Routes!Exists

\* A page changes no account, and is told of none what is not so.
LEMMA PasswordInvPage ==
  ASSUME PageInv, PageInv', PasswordInv, NEW p \in Pages,
         Page(p) \/ ClosePrompt(p)
  PROVE  PasswordInv'
<1> USE DEF PageInv, Typed
<1>1. account' = account /\ generation' = generation
  BY PageShape DEF Sends, Takes, Leaves, Routes!Request, Routes!Deliver,
     Routes!poolVars, apiVars
<1>2. PasswordKept'
  BY <1>1 DEF PasswordInv, PasswordKept, Routes!Exists, Account
<1>3. VouchedConfirmed'
  <2> SUFFICES ASSUME NEW q \in Pages, vouched'[q], generation = 0
               PROVE  Routes!Confirmed(Account(q))
    BY <1>1 DEF VouchedConfirmed, Routes!Confirmed, Routes!Exists, Account
  <2>1. CASE vouched[q]
    BY <2>1 DEF PasswordInv, VouchedConfirmed
  <2>2. CASE ~vouched[q]
    <3>1. /\ q = p /\ Takes(p) /\ at[p] = "confirming"
          /\ reply[job[p]].status = 200
      BY <2>2, PageShape
    <3>2. /\ job[p] \in Threads /\ job[p] # None
          /\ step[job[p]] = "replied" /\ Serves(p)
      BY <3>1 DEF Takes, Routes!Deliver
    <3>3. Routes!ThreadOK(job[p])
      BY <3>2 DEF Routes!ServiceInv
    <3>4. cfg[job[p]] = generation
      BY <3>2, <3>3
         DEF Routes!ThreadOK, Routes!Dated, Routes!ServiceInv, Routes!TypeOK
    <3>5. Routes!Confirmed(Routes!User(job[p]))
      BY <3>1, <3>2, <3>3, <3>4
         DEF Routes!ThreadOK, Routes!Known, Routes!Answered, Serves
    <3> QED
      BY <3>1, <3>2, <3>5 DEF Routes!User, Account, Serves
  <2> QED
    BY <2>1, <2>2
<1>4. ConfirmedSignsIn'
  <2> SUFFICES ASSUME NEW q \in Pages, vouched'[q], at'[q] = "signingin",
                      job'[q] # None, reply'[job'[q]] # None, generation = 0
               PROVE  reply'[job'[q]].status \notin {401, 403}
    BY <1>1 DEF ConfirmedSignsIn
  <2>1. q # p
    <3>1. ASSUME q = p PROVE Sends(p)
      BY <3>1, PageShape DEF Takes, Leaves, Goto
    <3>2. ~Sends(p) \/ q # p
      <4> SUFFICES ASSUME Sends(p), q = p PROVE FALSE
        OBVIOUS
      <4>1. PICK t \in Threads, r \in Routes!Requests :
              Routes!Request(t, r) /\ job' = [job EXCEPT ![p] = t]
        BY DEF Sends
      <4>2. step[t] = "idle" /\ reply' = reply /\ job'[p] = t
        BY <4>1 DEF Routes!Request, Routes!Goto
      <4> QED
        BY <4>2 DEF Routes!ServiceInv, Routes!TypeOK
    <3> QED
      BY <3>1, <3>2
  <2>2. at'[q] = at[q] /\ job'[q] = job[q]
    <3>1. /\ \E place : Goto(p, place)
          /\ \/ job' = job
             \/ \E t : job' = [job EXCEPT ![p] = t]
      BY PageShape DEF Sends, Takes, Leaves
    <3> QED
      BY <2>1, <3>1 DEF Goto
  <2>3. vouched[q]
    <3>1. \/ vouched' = vouched
          \/ \E b \in BOOLEAN : vouched' = [vouched EXCEPT ![p] = b]
      BY PageShape
    <3> QED
      BY <2>1, <3>1
  <2>4. reply'[job[q]] = reply[job[q]]
    <3>1. CASE Sends(p) \/ Leaves(p)
      BY <3>1 DEF Sends, Leaves, Routes!Request, Routes!Goto, apiVars
    <3>2. CASE Takes(p)
      <4>1. job[q] \in Threads /\ job[q] # job[p]
        BY <2>1, <2>2
      <4> QED
        BY <3>2, <4>1
           DEF Takes, Routes!Deliver, Routes!ServiceInv, Routes!TypeOK
    <3> QED
      BY <3>1, <3>2, PageShape
  <2> QED
    BY <2>2, <2>3, <2>4 DEF PasswordInv, ConfirmedSignsIn
<1> QED
  BY <1>2, <1>3, <1>4 DEF PasswordInv

LEMMA PasswordInvWork ==
  ASSUME OnePassword, Unchallenged, PageInv, PasswordInv, UNCHANGED pageVars,
         NEW t \in Threads, Routes!Work(t)
  PROVE  PasswordInv'
<1> USE DEF PageInv, Typed
<1>1. UNCHANGED <<at, job, password, vouched>>
  BY DEF pageVars, formVars
<1>2. /\ UNCHANGED <<generation, req>> /\ step[t] \notin {"idle", "replied"}
      /\ \A s \in Threads \ {t} : reply'[s] = reply[s]
  BY WorkShape DEF Routes!ServiceInv
<1>3. PICK p \in Pages : job[p] = t
  BY <1>2
<1>4. /\ Serves(p) /\ Chosen(p) /\ Routes!User(t) = Account(p)
      /\ password[p] \in PagePasswords[p]
  BY <1>3, ThreadsAssumption DEF Serves, Chosen, Routes!User, Account, Waiting
<1>5. PasswordKept'
  <2> SUFFICES ASSUME NEW q \in Pages, Routes!Exists(Account(q))',
                      NEW pw \in PagePasswords[q]
               PROVE  account'[Account(q)].password = pw
    BY DEF PasswordKept, Account
  <2>1. \/ /\ Routes!Exists(Account(q))
           /\ account'[Account(q)].password = account[Account(q)].password
        \/ /\ Routes!User(t) = Account(q)
           /\ req[t].route = "register"
           /\ account'[Account(q)].password = req[t].secret
    BY AccountsOfWork, AccountOfPage DEF Account, Routes!Exists
  <2>2. req[t].route = "register" => req[t].secret = password[p]
    BY <1>3, <1>4 DEF Serves, Waiting
  <2> QED
    BY <1>4, <2>1, <2>2 DEF PasswordInv, PasswordKept, OnePassword
<1>6. VouchedConfirmed'
  BY <1>1, <1>2, AccountsOfWork, AccountOfPage
     DEF PasswordInv, VouchedConfirmed, Account, Routes!Confirmed, Routes!Exists
<1>7. ConfirmedSignsIn'
  <2> SUFFICES ASSUME NEW q \in Pages, vouched[q], at[q] = "signingin",
                      job[q] # None, reply'[job[q]] # None, generation = 0,
                      reply'[job[q]].status \in {401, 403}
               PROVE  FALSE
    BY <1>1, <1>2 DEF ConfirmedSignsIn
  <2>1. job[q] = t
    BY <1>2 DEF PasswordInv, ConfirmedSignsIn
  <2>2. /\ req[t].route = "login" /\ req[t].secret = password[q]
        /\ password[q] \in PagePasswords[q] /\ Routes!User(t) = Account(q)
    BY <2>1 DEF Serves, Chosen, Routes!User, Account
  <2>3. step'[t] = "replied"
    <3>1. /\ Routes!TypeOK
          /\ \/ \E s : Routes!Goto(t, s)
             \/ \E status, code : Routes!Reply(t, status, code)
             \/ reply' = reply
      <4>1. CASE \/ Routes!SignUp(t) \/ Routes!AdminGetUser(t)
                 \/ Routes!ResendConfirmationCode(t)
                 \/ Routes!AdminConfirmSignUp(t) \/ Routes!ConfirmSignUp(t)
                 \/ Routes!InitiateAuth(t)
        BY <4>1, CallShape DEF Routes!ServiceInv
      <4>2. CASE \/ Routes!Discover(t) \/ Routes!IssueLocalCode(t)
                 \/ Routes!CheckLocalCode(t)
        BY <4>2 DEF Routes!ServiceInv, Routes!Discover, Routes!OnError,
           Routes!IssueLocalCode, Routes!CheckLocalCode
      <4>3. CASE Routes!Checked(t)
        BY <4>3 DEF Routes!ServiceInv, Routes!Checked, Routes!AfterCheck,
           Routes!Dict!Results
      <4> QED
        BY <4>1, <4>2, <4>3 DEF Routes!Work, Routes!ServiceInv
    <3>2. reply[t] = None
      BY <1>2 DEF Routes!ServiceInv, Routes!TypeOK
    <3> QED
      BY <2>1, <3>1, <3>2 DEF Routes!Goto, Routes!Reply, Routes!TypeOK
  <2>4. /\ cfg[t] = generation
        /\ Routes!LoginRefusals(t) # {} \/ Account(q) \in Challenged
    BY <2>1, <2>2, <2>3, RefusedSignIn
  <2>5. Routes!Confirmed(Account(q))
    BY DEF PasswordInv, VouchedConfirmed
  <2>6. account[Account(q)].password = password[q]
    BY <2>2, <2>5 DEF PasswordInv, PasswordKept, Routes!Confirmed
  <2>7. Routes!LoginRefusals(t) = {}
    BY <2>2, <2>5, <2>6
       DEF Routes!LoginRefusals, Routes!Errors, Routes!Confirmed
  <2> QED
    BY <2>4, <2>7 DEF Unchallenged
<1> QED
  BY <1>5, <1>6, <1>7 DEF PasswordInv

LEMMA PasswordInvNext ==
  ASSUME OnePassword, Unchallenged
  PROVE  PageInv /\ PageInv' /\ PasswordInv /\ [Next]_vars => PasswordInv'
<1> SUFFICES ASSUME PageInv, PageInv', PasswordInv, [Next]_vars
             PROVE  PasswordInv'
  OBVIOUS
<1>1. CASE Server /\ UNCHANGED pageVars
  BY <1>1, PasswordInvWork, RoutesWork DEF Server
<1>2. ASSUME UNCHANGED <<at, job, vouched, account, generation, reply>>
      PROVE  PasswordInv'
  BY <1>2 DEF PasswordInv, PasswordKept, VouchedConfirmed, ConfirmedSignsIn,
     Account, Routes!Confirmed, Routes!Exists
<1>3. CASE Api!Tick /\ UNCHANGED pageVars
  BY <1>2, <1>3 DEF Api!Tick, Api!poolVars, pageVars, formVars
<1>4. CASE UNCHANGED vars
  BY <1>2, <1>4 DEF vars, apiVars, pageVars, formVars
<1>5. CASE Api!Recreate
  <2>1. generation' # 0 /\ \A p \in Pages : account'[Account(p)] = None
    BY <1>5, RoutesSurroundings, AccountOfPage
       DEF Routes!Recreate, PageInv, Routes!ServiceInv, Routes!TypeOK
  <2> QED
    BY <2>1 DEF PasswordInv, PasswordKept, VouchedConfirmed, ConfirmedSignsIn,
       Account, Routes!Exists
<1>6. CASE Restart
  BY <1>6 DEF Restart, Api!Restart, Api!poolVars, formVars, PasswordInv,
     PasswordKept, VouchedConfirmed, ConfirmedSignsIn, Account,
     Routes!Confirmed, Routes!Exists
<1> QED
  BY <1>1, <1>3, <1>4, <1>5, <1>6, PasswordInvPage DEF Next

\* A user who keeps to one password and was told that their address is
\* confirmed is not refused by the sign-in that follows (script.js:251),
\* whatever was lost, retried or restarted and whoever else signs up, unless
\* the emulator's data was recreated.
THEOREM ConfirmedIsLetIn ==
  ASSUME OnePassword, Unchallenged
  PROVE  Spec => []ConfirmedSignsIn
<1>1. PasswordInv => ConfirmedSignsIn
  BY DEF PasswordInv
<1>2. PageInv /\ PageInv' /\ PasswordInv /\ [Next]_vars => PasswordInv'
  BY PasswordInvNext
<1> QED
  BY <1>1, <1>2, PasswordInvInit, PageInvariance, PTL DEF Spec

-----------------------------------------------------------------------------
(* One page per address                                                    *)

\* The code of page p, if it has one, was tried at most n times.
Tried(p, n) ==
  LET e == store[Lower[PageEmail[p]]] IN e # None => entry[e].attempts <= n

\* The code of a sign-up was tried once per prompt, and not yet for a prompt
\* whose code still has to be compared.
Counted(p) ==
  LET t == job[p] IN
  /\ at[p] = "prompt" => Tried(p, attempt[p] - 1)
  /\ t # None /\ at[p] = "registering" /\ step[t] = "replied"
       /\ reply[t].status = 200 => Tried(p, 0)
  /\ t # None /\ at[p] = "confirming" =>
       /\ Tried(p, attempt[p])
       /\ step[t] = "discover" \/ pc[t] \in {"lookup", "judge", "count", "try"} =>
            Tried(p, attempt[p] - 1)
       /\ pc[t] \in {"judge", "count", "try"} =>
            entry[held[t]].attempts <= attempt[p] - 1
       /\ pc[t] = "try" => seen[t] <= attempt[p] - 1

AttemptInv == NeverUsedUp /\ \A p \in Pages : Counted(p)

\* What work does to the codes: nothing, or it issues one, takes one out of
\* the dictionary, or counts an attempt, of the request's own address.
OwnKey(t) == Lower[req[t].email]

Issues(t) ==
  /\ req[t].route = "register"
  /\ \E e \in Entries : \E code :
       /\ entry[e] = None
       /\ entry' = [entry EXCEPT ![e] =
            [key |-> OwnKey(t), code |-> code, expires |-> now + TTL,
             attempts |-> 0]]
       /\ store' = [store EXCEPT ![OwnKey(t)] = e]

Pops(t) ==
  /\ step[t] = "check"
  /\ entry' = entry
  /\ store' = [store EXCEPT ![OwnKey(t)] = None]
  /\ pc'[t] \notin {"lookup", "judge", "count", "try"}

Counts(t) ==
  /\ step[t] = "check"
  /\ pc[t] = "try"
  /\ held[t] \in Entries
  /\ entry[held[t]] \in Routes!Dict!Fields
  /\ entry[held[t]].key = OwnKey(t)
  /\ entry' = [entry EXCEPT ![held[t]].attempts = seen[t] + 1]
  /\ store' = store
  /\ pc'[t] \notin {"lookup", "judge", "count", "try"}

Looks(t) ==
  /\ UNCHANGED <<entry, store>>
  /\ pc'[t] = "lookup" => step[t] = "discover"
  /\ pc'[t] = "judge" =>
       pc[t] = "lookup" /\ held'[t] = store[OwnKey(t)] /\ held'[t] # None
  /\ pc'[t] = "count" => pc[t] = "judge" /\ held'[t] = held[t]
  /\ pc'[t] = "try" => /\ pc[t] = "count" /\ held'[t] = held[t]
                       /\ seen'[t] = entry[held[t]].attempts

LEMMA CodeIssued ==
  ASSUME Routes!ServiceInv, NEW t \in Threads, Routes!IssueLocalCode(t)
  PROVE  Issues(t)
<1>1. /\ req[t].route = "register"
      /\ \E code : Routes!Dict!Issue(t, req[t].email, code)
  BY DEF Routes!IssueLocalCode, Routes!ServiceInv, Routes!ThreadOK,
     Routes!Routed
<1>2. PICK code : Routes!Dict!Issue(t, req[t].email, code)
  BY <1>1
<1> DEFINE e == CHOOSE f \in Routes!Dict!Unmade : TRUE
<1>3. e \in Entries /\ entry[e] = None
  BY <1>2 DEF Routes!Dict!Issue, Routes!Dict!Unmade
<1> QED
  BY <1>1, <1>2, <1>3 DEF Routes!Dict!Issue, Routes!Dict!NewEntry, Issues,
     OwnKey

LEMMA CodesOfWork ==
  ASSUME Routes!ServiceInv, NEW t \in Threads, Routes!Work(t)
  PROVE  /\ Issues(t) \/ Pops(t) \/ Counts(t) \/ Looks(t)
         /\ step'[t] # "discover"
<1> USE DEF Routes!ServiceInv
<1>1. /\ Routes!TypeOK /\ Routes!Dict!TypeOK
      /\ pc[t] # "idle" => step[t] = "check"
      /\ step[t] = "check" => call[t].key = OwnKey(t)
  <2>1. Routes!Checking(t)
    BY DEF Routes!ThreadOK
  <2> QED
    BY <2>1 DEF Routes!TypeOK, Routes!Checking, OwnKey
<1>2. CASE \/ Routes!SignUp(t) \/ Routes!AdminGetUser(t)
           \/ Routes!ResendConfirmationCode(t) \/ Routes!AdminConfirmSignUp(t)
           \/ Routes!ConfirmSignUp(t) \/ Routes!InitiateAuth(t)
  <2>1. /\ step[t] \in Routes!Calls \ {"discover"} /\ UNCHANGED Routes!dictVars
        /\ \/ \E s \in {"issue", "getuser", "resend"} : Routes!Goto(t, s)
           \/ \E status, code : Routes!Reply(t, status, code)
    BY <1>2 DEF Routes!SignUp, Routes!AdminGetUser,
       Routes!ResendConfirmationCode, Routes!AdminConfirmSignUp,
       Routes!ConfirmSignUp, Routes!InitiateAuth, Routes!CognitoCall,
       Routes!OnError, Routes!AfterGetUser, Routes!Calls
  <2>2. pc[t] = "idle"
    BY <1>1, <2>1 DEF Routes!Calls
  <2>3. Looks(t)
    BY <2>1, <2>2 DEF Looks, Routes!dictVars
  <2>4. step'[t] # "discover"
    BY <1>1, <2>1 DEF Routes!Goto, Routes!Reply, Routes!TypeOK
  <2> QED
    BY <2>3, <2>4
<1>3. CASE Routes!Discover(t)
  <2>1. step[t] = "discover" /\ pc[t] = "idle"
    BY <1>1, <1>3 DEF Routes!Discover
  <2>2. /\ UNCHANGED <<entry, store>>
        /\ pc'[t] \in {"idle", "lookup"}
    BY <1>1, <1>3, <2>1 DEF Routes!Discover, Routes!Dict!Call, Routes!Dict!Goto,
       Routes!dictVars, Routes!Dict!TypeOK
  <2>3. \/ \E s \in {"signup", "auth", "check", "confirmsignup"} :
             Routes!Goto(t, s)
        \/ \E status, code : Routes!Reply(t, status, code)
    <3>1. req[t] \in Routes!Requests
      BY <1>1, <2>1 DEF Routes!TypeOK
    <3> QED
      BY <1>3, <2>1, <3>1
         DEF Routes!Discover, Routes!FirstStep, Routes!OnError, Routes!Requests
  <2>4. step'[t] # "discover"
    BY <1>1, <2>3 DEF Routes!Goto, Routes!Reply, Routes!TypeOK
  <2> QED
    BY <2>1, <2>2, <2>4 DEF Looks
<1>4. CASE Routes!IssueLocalCode(t)
  <2>1. step'[t] # "discover"
    BY <1>1, <1>4 DEF Routes!IssueLocalCode, Routes!Reply, Routes!TypeOK
  <2> QED
    BY <1>4, <2>1, CodeIssued
<1>5. CASE Routes!Checked(t)
  <2>1. /\ step[t] = "check" /\ UNCHANGED <<entry, store>> /\ pc'[t] = "idle"
        /\ \/ Routes!Goto(t, "adminconfirm")
           \/ \E status, code : Routes!Reply(t, status, code)
    BY <1>1, <1>5 DEF Routes!Checked, Routes!AfterCheck, Routes!Dict!Results,
       Routes!Dict!Return, Routes!Dict!Goto, Routes!Dict!TypeOK
  <2>2. step'[t] # "discover"
    BY <1>1, <2>1 DEF Routes!Goto, Routes!Reply, Routes!TypeOK
  <2> QED
    BY <2>1, <2>2 DEF Looks
<1>6. CASE Routes!CheckLocalCode(t)
  <2>1. step[t] = "check" /\ step' = step /\ call[t].key = OwnKey(t)
    BY <1>1, <1>6 DEF Routes!CheckLocalCode
  <2>2. CASE Routes!Dict!Lookup(t) \/ Routes!Dict!Judge(t) \/ Routes!Dict!Count(t)
    BY <1>1, <2>1, <2>2 DEF Routes!Dict!Lookup, Routes!Dict!Judge,
       Routes!Dict!Count, Routes!Dict!Goto, Routes!Dict!TypeOK, Looks
  <2>3. CASE Routes!Dict!Drop(t) \/ Routes!Dict!Take(t)
    BY <1>1, <2>1, <2>3 DEF Routes!Dict!Drop, Routes!Dict!Take, Routes!Dict!Pop,
       Routes!Dict!Goto, Routes!Dict!TypeOK, Pops
  <2>4. CASE Routes!Dict!Try(t)
    <3>1. /\ pc[t] = "try" /\ held[t] \in Entries
          /\ entry[held[t]] \in Routes!Dict!Fields
          /\ entry[held[t]].key = OwnKey(t)
      BY <1>1, <2>1, <2>4 DEF Routes!Dict!Try, Routes!Dict!TypeOK,
         Routes!Table!Inv, Routes!Table!FiledUnderKey
    <3>2. /\ entry' = [entry EXCEPT ![held[t]].attempts = seen[t] + 1]
          /\ store' = store
      BY <2>4 DEF Routes!Dict!Try
    <3>3. pc'[t] \in {"error", "take", "false"}
      BY <1>1, <2>4 DEF Routes!Dict!Try, Routes!Dict!Compared, Routes!Dict!Goto,
         Routes!Dict!TypeOK
    <3> QED
      BY <2>1, <3>1, <3>2, <3>3 DEF Counts
  <2> QED
    BY <1>6, <2>1, <2>2, <2>3, <2>4 DEF Routes!CheckLocalCode
<1> QED
  BY <1>2, <1>3, <1>4, <1>5, <1>6 DEF Routes!Work

\* With the emulator a registration is answered 200 with a new code.
LEMMA RegisteredWithCode ==
  ASSUME Routes!ServiceInv, NEW t \in Threads, Routes!Work(t), Local,
         req[t].route = "register", step'[t] = "replied", reply'[t].status = 200
  PROVE  Issues(t)
<1> USE DEF Routes!ServiceInv
<1>1. ASSUME NEW status, NEW code, Routes!Reply(t, status, code)
      PROVE  status = 200
  BY <1>1 DEF Routes!Reply, Routes!TypeOK
<1>2. ASSUME NEW s \in {"signup", "getuser", "issue"}, Routes!Goto(t, s)
      PROVE  FALSE
  BY <1>2 DEF Routes!Goto, Routes!TypeOK
<1>3. ASSUME NEW error \in {"UsernameExistsException",
               "InvalidPasswordException", "UserNotFoundException",
               "ServiceUnavailable", "ResourceNotFoundException"},
             step[t] # "resend"
      PROVE  ~Routes!OnError(t, error)
  BY <1>1, <1>2, <1>3 DEF Routes!OnError, Routes!Http
<1>4. ~Routes!Discover(t)
  BY <1>2, <1>3 DEF Routes!Discover, Routes!FirstStep
<1>5. ~Routes!SignUp(t)
  <2>1. \A error \in Routes!SignUpRefusals(t) :
          error \in {"UsernameExistsException", "InvalidPasswordException"}
    BY DEF Routes!SignUpRefusals, Routes!Errors
  <2> QED
    BY <1>2, <1>3, <2>1 DEF Routes!SignUp, Routes!CognitoCall
<1>6. ~Routes!AdminGetUser(t)
  <2>1. ~Routes!AfterGetUser(t)
    BY <1>1, <1>2 DEF Routes!AfterGetUser, Routes!Http
  <2> QED
    BY <1>3, <2>1 DEF Routes!AdminGetUser, Routes!CognitoCall, Routes!Errors
<1>7. step[t] \in {"discover", "signup", "getuser", "issue"} \/ ~Routes!Work(t)
  BY DEF Routes!Work, Routes!ThreadOK, Routes!Routed, Routes!Discover,
     Routes!SignUp, Routes!AdminGetUser, Routes!ResendConfirmationCode,
     Routes!IssueLocalCode, Routes!CheckLocalCode, Routes!Checked,
     Routes!AdminConfirmSignUp, Routes!ConfirmSignUp, Routes!InitiateAuth
<1>8. Routes!IssueLocalCode(t)
  BY <1>4, <1>5, <1>6, <1>7 DEF Routes!Work, Routes!ResendConfirmationCode,
     Routes!CheckLocalCode, Routes!Checked, Routes!AdminConfirmSignUp,
     Routes!ConfirmSignUp, Routes!InitiateAuth
<1> QED
  BY <1>8, CodeIssued

\* What the dictionary holds and the checks hold.
LEMMA Stored ==
  ASSUME Routes!ServiceInv
  PROVE  /\ \A k \in Routes!Dict!Keys : store[k] # None =>
              /\ store[k] \in Entries
              /\ entry[store[k]] \in Routes!Dict!Fields
              /\ entry[store[k]] # None
              /\ entry[store[k]].key = k
         /\ \A t \in Threads : pc[t] \in {"judge", "count", "try"} =>
              /\ held[t] \in Entries
              /\ entry[held[t]] \in Routes!Dict!Fields
              /\ entry[held[t]] # None
              /\ entry[held[t]].key = OwnKey(t)
<1> USE DEF Routes!ServiceInv
<1>1. Routes!Dict!TypeOK /\ Routes!Table!FiledUnderKey
  BY DEF Routes!TypeOK, Routes!Table!Inv
<1>2. Routes!Dict!Keys = Routes!Table!Keys
  BY DEF Routes!Dict!Keys, Routes!Table!Keys
<1>3. ASSUME NEW t \in Threads, pc[t] \in {"judge", "count", "try"}
      PROVE  call[t].key = OwnKey(t)
  <2>1. Routes!Checking(t) /\ step[t] = "check"
    BY <1>3 DEF Routes!ThreadOK, Routes!TypeOK
  <2> QED
    BY <2>1 DEF Routes!Checking, OwnKey
<1> QED
  BY <1>1, <1>2, <1>3 DEF Routes!Dict!TypeOK, Routes!Table!FiledUnderKey

LEMMA KeyOfPage ==
  ASSUME NEW p \in Pages
  PROVE  Lower[PageEmail[p]] \in Routes!Dict!Keys
BY PagesAssumption DEF Routes!Dict!Keys

\* Codes of other addresses stay as they are.
LEMMA OtherCodes ==
  ASSUME Routes!ServiceInv, NEW t \in Threads, Routes!Work(t)
  PROVE  /\ \A k \in Routes!Dict!Keys \ {OwnKey(t)} : store'[k] = store[k]
         /\ \A e \in Entries : entry[e] # None /\ entry[e].key # OwnKey(t) =>
              entry'[e] = entry[e]
<1>1. Routes!Dict!TypeOK
  BY DEF Routes!ServiceInv, Routes!TypeOK
<1> QED
  BY <1>1, CodesOfWork DEF Routes!Dict!TypeOK, Issues, Pops, Counts, Looks

\* A page is not disturbed in its counting by what leaves its code, its own
\* thread and its prompt alone.
LEMMA CountedBeside ==
  ASSUME PageInv, NEW p \in Pages, Counted(p),
         at'[p] = at[p], attempt'[p] = attempt[p], job'[p] = job[p],
         store'[Lower[PageEmail[p]]] = store[Lower[PageEmail[p]]],
         \A e \in Entries :
           entry[e] # None /\ entry[e].key = Lower[PageEmail[p]] =>
             entry'[e] = entry[e],
         job[p] # None =>
           /\ step'[job[p]] = step[job[p]] /\ reply'[job[p]] = reply[job[p]]
           /\ pc'[job[p]] = pc[job[p]] /\ held'[job[p]] = held[job[p]]
           /\ seen'[job[p]] = seen[job[p]]
  PROVE  Counted(p)'
<1>1. ASSUME NEW n, Tried(p, n) PROVE Tried(p, n)'
  BY <1>1, Stored, KeyOfPage DEF Tried, PageInv
<1>2. ASSUME job[p] # None, pc[job[p]] \in {"judge", "count", "try"}
      PROVE  entry'[held[job[p]]] = entry[held[job[p]]]
  <2>1. job[p] \in Threads /\ req[job[p]].email = PageEmail[p]
    BY <1>2 DEF PageInv, Typed, Serves
  <2> QED
    BY <1>2, <2>1, Stored DEF PageInv, OwnKey
<1> QED
  BY <1>1, <1>2 DEF Counted

LEMMA AttemptInvInit == Init => AttemptInv
<1> SUFFICES ASSUME Init PROVE AttemptInv
  OBVIOUS
<1>1. \A e \in Entries : entry[e] = None
  BY DEF Init, Api!Init, Api!Dict!Init
<1> QED
  BY <1>1 DEF Init, AttemptInv, NeverUsedUp, Counted

LEMMA AttemptInvWork ==
  ASSUME OnePage, PageInv, PageInv', AttemptInv, UNCHANGED pageVars,
         NEW t \in Threads, Routes!Work(t)
  PROVE  AttemptInv'
<1> USE DEF PageInv, Typed
<1>1. UNCHANGED <<at, job, attempt>>
  BY DEF pageVars, formVars
<1>2. /\ req' = req /\ step[t] \notin {"idle", "replied"}
      /\ \A s \in Threads \ {t} :
           /\ step'[s] = step[s] /\ reply'[s] = reply[s]
           /\ pc'[s] = pc[s] /\ held'[s] = held[s] /\ seen'[s] = seen[s]
      /\ Routes!Dict!TypeOK
      /\ Routes!ThreadOK(t)
      /\ pc[t] # "idle" => step[t] = "check"
  BY WorkShape DEF Routes!ServiceInv, Routes!TypeOK
<1>3. PICK p \in Pages : job[p] = t
  BY <1>2
<1>4. Serves(p) /\ OwnKey(t) = Lower[PageEmail[p]] /\ t # None
  BY <1>3, ThreadsAssumption DEF Serves, OwnKey
<1> DEFINE k == OwnKey(t)
<1>5. k \in Routes!Dict!Keys
  BY <1>4, KeyOfPage
<1>6. ASSUME NEW q \in Pages \ {p} PROVE Counted(q)'
  <2>1. Lower[PageEmail[q]] # OwnKey(t)
    BY <1>4 DEF OnePage
  <2>2. job[q] # None => job[q] \in Threads \ {t}
    BY <1>3
  <2> QED
    BY <1>1, <1>2, <2>1, <2>2, OtherCodes, KeyOfPage, CountedBeside DEF
       AttemptInv
<1>7. Counts(t) =>
        /\ at[p] = "confirming" /\ seen[t] <= attempt[p] - 1
        /\ Tried(p, attempt[p] - 1)
  <2> SUFFICES ASSUME Counts(t)
               PROVE  /\ at[p] = "confirming"
                      /\ seen[t] <= attempt[p] - 1
                      /\ Tried(p, attempt[p] - 1)
    OBVIOUS
  <2>1. at[p] = "confirming"
    BY <1>2, <1>4, <1>3 DEF Counts, Routes!ThreadOK, Routes!Routed, Serves,
       Waiting
  <2> QED
    BY <1>3, <1>4, <2>1 DEF AttemptInv, Counted, Counts
<1>8. NeverUsedUp'
  <2> SUFFICES ASSUME NEW e \in Entries, entry'[e] # None
               PROVE  entry'[e].attempts <= MaxPrompts
    BY DEF NeverUsedUp
  <2>1. CASE Issues(t)
    BY <1>2, <2>1, PagesAssumption DEF Issues, Routes!Dict!TypeOK, AttemptInv,
       NeverUsedUp
  <2>2. CASE Pops(t) \/ Looks(t)
    BY <2>2 DEF Pops, Looks, AttemptInv, NeverUsedUp
  <2>3. CASE Counts(t)
    <3>1. CASE e = held[t]
      <4>1. entry'[e].attempts = seen[t] + 1 /\ seen[t] \in Nat
        BY <1>2, <2>3, <3>1 DEF Counts, Routes!Dict!TypeOK, Routes!Dict!Fields
      <4>2. attempt[p] \in 0..MaxPrompts
        OBVIOUS
      <4> QED
        BY <1>7, <2>3, <3>1, <4>1, <4>2, PagesAssumption
    <3>2. CASE e # held[t]
      BY <1>2, <2>3, <3>2 DEF Counts, Routes!Dict!TypeOK, AttemptInv,
         NeverUsedUp
    <3> QED
      BY <3>1, <3>2
  <2> QED
    BY <2>1, <2>2, <2>3, CodesOfWork
<1>9. Counted(p)'
  <2>1. /\ at[p] \in {"registering", "confirming", "signingin", "loggingin"}
        /\ at'[p] = at[p] /\ job'[p] = t /\ attempt'[p] = attempt[p]
        /\ attempt[p] \in Int
        /\ step'[t] # "discover"
    BY <1>1, <1>3, <1>4, CodesOfWork, PagesAssumption DEF Serves, Waiting
  <2>2. CASE at[p] \in {"signingin", "loggingin"}
    BY <2>1, <2>2 DEF Counted
  <2>3. CASE at[p] = "registering"
    <3> SUFFICES ASSUME step'[t] = "replied", reply'[t].status = 200
                 PROVE  Tried(p, 0)'
      BY <2>1, <2>3 DEF Counted
    <3>1. req[t].route = "register"
      BY <1>3, <2>3, <1>4 DEF Serves
    <3>2. CASE Local
      <4>1. Issues(t)
        BY <3>1, <3>2, RegisteredWithCode
      <4> QED
        BY <1>2, <1>4, <1>5, <4>1 DEF Issues, Tried, Routes!Dict!TypeOK
    <3>3. CASE ~Local
      <4>1. store'[Lower[PageEmail[p]]] = None
        BY <3>3, KeyOfPage DEF Routes!ServiceInv, Routes!Keys
      <4> QED
        BY <4>1 DEF Tried
    <3> QED
      BY <3>2, <3>3
  <2>4. CASE at[p] = "confirming"
    <3>1. /\ Tried(p, attempt[p])
          /\ step[t] = "discover" \/ pc[t] \in {"lookup", "judge", "count", "try"} =>
               Tried(p, attempt[p] - 1)
          /\ pc[t] \in {"judge", "count", "try"} =>
               entry[held[t]].attempts <= attempt[p] - 1
          /\ pc[t] = "try" => seen[t] <= attempt[p] - 1
          /\ req[t].route = "confirm"
      BY <1>3, <1>4, <2>4 DEF AttemptInv, Counted, Serves
    <3>2. CASE Looks(t)
      <4>1. \A n : Tried(p, n)' <=> Tried(p, n)
        BY <3>2 DEF Looks, Tried
      <4>2. pc'[t] \in {"lookup", "judge", "count", "try"} =>
              step[t] = "discover" \/ pc[t] \in {"lookup", "judge", "count", "try"}
        BY <3>2 DEF Looks
      <4>3. pc'[t] \in {"judge", "count", "try"} =>
              entry'[held'[t]].attempts <= attempt[p] - 1
        BY <1>4, <3>1, <3>2 DEF Looks, Tried
      <4>4. pc'[t] = "try" => seen'[t] <= attempt[p] - 1
        BY <3>1, <3>2 DEF Looks
      <4> QED
        BY <2>1, <2>4, <3>1, <4>1, <4>2, <4>3, <4>4 DEF Counted
    <3>3. CASE Pops(t)
      <4>1. store'[Lower[PageEmail[p]]] = None
        BY <1>2, <1>4, <1>5, <3>3 DEF Pops, Routes!Dict!TypeOK
      <4> QED
        BY <2>1, <2>4, <3>3, <4>1 DEF Counted, Tried, Pops
    <3>4. CASE Counts(t)
      <4>1. Tried(p, attempt[p])'
        <5>1. \A e \in Entries :
                entry'[e].attempts = IF e = held[t] THEN seen[t] + 1
                                     ELSE entry[e].attempts
          BY <1>2, <3>4 DEF Counts, Routes!Dict!TypeOK, Routes!Dict!Fields
        <5>2. seen[t] \in Nat
          BY <1>2 DEF Routes!Dict!TypeOK
        <5>3. store[k] # None => store[k] \in Entries
          BY <1>5, Stored
        <5> QED
          BY <1>4, <1>7, <2>1, <3>1, <3>4, <5>1, <5>2, <5>3 DEF Tried, Counts
      <4> QED
        BY <2>1, <2>4, <3>4, <4>1 DEF Counted, Counts
    <3>5. ~Issues(t)
      BY <3>1 DEF Issues
    <3> QED
      BY <3>2, <3>3, <3>4, <3>5, CodesOfWork
  <2> QED
    BY <2>1, <2>2, <2>3, <2>4
<1> QED
  BY <1>6, <1>8, <1>9 DEF AttemptInv

\* Each prompt is for one attempt, and a new sign-up has a new code.
LEMMA AttemptInvPage ==
  ASSUME PageInv, PageInv', AttemptInv, NEW p \in Pages,
         Page(p) \/ ClosePrompt(p)
  PROVE  AttemptInv'
<1> USE DEF PageInv, Typed
<1>1. UNCHANGED <<entry, store, pc, held, seen>>
  BY PageShape DEF Sends, Takes, Leaves, Routes!Request, Routes!Deliver,
     Routes!dictVars, apiVars
<1>2. NeverUsedUp'
  BY <1>1 DEF AttemptInv, NeverUsedUp
<1>3. \A q \in Pages : \A n : Tried(q, n)' <=> Tried(q, n)
  BY <1>1 DEF Tried
<1>4. ASSUME NEW q \in Pages \ {p} PROVE Counted(q)'
  <2>1. at'[q] = at[q] /\ job'[q] = job[q]
    <3>1. /\ \E place : Goto(p, place)
          /\ job' = job \/ \E t : job' = [job EXCEPT ![p] = t]
      BY PageShape DEF Sends, Takes, Leaves
    <3> QED
      BY <3>1 DEF Goto
  <2>2. attempt'[q] = attempt[q]
    BY DEF Page, StartSignup, Registered, SubmitCode, Confirmed, SignIn,
       SignedIn, StartLogin, LoggedIn, NetworkError, ClosePrompt, formVars
  <2>3. job[q] # None =>
          step'[job[q]] = step[job[q]] /\ reply'[job[q]] = reply[job[q]]
    <3> SUFFICES ASSUME job[q] # None
                 PROVE  /\ step'[job[q]] = step[job[q]]
                        /\ reply'[job[q]] = reply[job[q]]
      OBVIOUS
    <3>1. job[q] \in Threads /\ step[job[q]] # "idle" /\ job[q] # job[p]
      BY DEF Serves
    <3>2. CASE Sends(p)
      BY <3>1, <3>2 DEF Sends, Routes!Request, Routes!Goto, Routes!ServiceInv,
         Routes!TypeOK
    <3>3. CASE Takes(p)
      BY <3>1, <3>3 DEF Takes, Routes!Deliver, Routes!ServiceInv, Routes!TypeOK
    <3>4. CASE Leaves(p)
      BY <3>4 DEF Leaves, apiVars
    <3> QED
      BY <3>2, <3>3, <3>4, PageShape
  <2> QED
    BY <1>1, <2>1, <2>2, <2>3, CountedBeside DEF AttemptInv
<1>5. Counted(p)'
  <2>1. CASE Leaves(p)
    BY <2>1 DEF Leaves, Goto, Counted
  <2>2. CASE StartSignup(p) \/ SignIn(p) \/ StartLogin(p)
    <3>1. at'[p] \in {"registering", "signingin", "loggingin"}
      <4>1. PICK place \in {"registering", "signingin", "loggingin"} :
              Goto(p, place)
        BY <2>2 DEF StartSignup, SignIn, StartLogin, Post
      <4> QED
        BY <4>1 DEF Goto
    <3>2. PICK t \in Threads, r \in Routes!Requests :
            Api!Request(t, r) /\ job' = [job EXCEPT ![p] = t]
      BY <2>2, SentRequest DEF StartSignup, SignIn, StartLogin, Post
    <3>3. Routes!Request(t, r)
      BY <3>2, RoutesRequest
    <3>4. job'[p] = t /\ step'[t] = "discover"
      BY <3>2, <3>3 DEF Routes!Request, Routes!Goto, Routes!ServiceInv,
         Routes!TypeOK
    <3> QED
      BY <3>1, <3>4 DEF Counted
  <2>3. CASE SubmitCode(p)
    <3>1. at[p] = "prompt" /\ attempt' = attempt /\ at'[p] = "confirming"
      BY <2>3 DEF SubmitCode, Post, Goto, formVars
    <3>2. PICK t \in Threads, r \in Routes!Requests :
            Routes!Request(t, r) /\ job' = [job EXCEPT ![p] = t]
      BY <2>3, SentRequest, RoutesRequest DEF SubmitCode, Post
    <3>3. job'[p] = t /\ pc'[t] = "idle"
      <4>1. step[t] = "idle"
        BY <3>2 DEF Routes!Request
      <4> QED
        BY <1>1, <3>2, <4>1 DEF Routes!ServiceInv, Routes!TypeOK
    <3>4. Tried(p, attempt[p] - 1)
      BY <3>1 DEF AttemptInv, Counted
    <3>5. Tried(p, attempt[p])
      <4>1. attempt[p] \in Nat
        BY PagesAssumption
      <4>2. store[Lower[PageEmail[p]]] # None =>
              entry[store[Lower[PageEmail[p]]]].attempts \in Nat
        BY Stored, KeyOfPage DEF Routes!Dict!Fields
      <4> QED
        BY <3>4, <4>1, <4>2 DEF Tried
    <3> QED
      BY <1>3, <3>1, <3>3, <3>4, <3>5 DEF Counted
  <2>4. CASE Registered(p)
    <3>1. /\ at[p] = "registering" /\ job[p] # None
          /\ job' = [job EXCEPT ![p] = None]
          /\ step[job[p]] = "replied"
      BY <2>4, RoutesDeliver DEF Registered, Receive, Routes!Deliver
    <3>2. CASE reply[job[p]].status = 200
      <4>1. at'[p] = "prompt" /\ attempt'[p] = 1
        BY <2>4, <3>2 DEF Registered, Status, Goto
      <4>2. Tried(p, 0)
        BY <3>1, <3>2 DEF AttemptInv, Counted
      <4> QED
        BY <1>3, <3>1, <4>1, <4>2 DEF Counted
    <3>3. CASE reply[job[p]].status # 200
      <4>1. at'[p] = "home"
        BY <2>4, <3>3 DEF Registered, Status, Home, Goto
      <4> QED
        BY <4>1 DEF Counted
    <3> QED
      BY <3>2, <3>3
  <2>5. CASE Confirmed(p)
    <3>1. /\ at[p] = "confirming" /\ job[p] # None
          /\ job' = [job EXCEPT ![p] = None]
      BY <2>5 DEF Confirmed, Receive
    <3>2. CASE at'[p] = "prompt"
      <4>1. attempt'[p] = attempt[p] + 1
        BY <2>5, <3>2 DEF Confirmed, Goto, Home
      <4>2. Tried(p, attempt[p])
        BY <3>1 DEF AttemptInv, Counted
      <4>3. attempt'[p] - 1 = attempt[p]
        BY <4>1, PagesAssumption
      <4> QED
        BY <1>3, <3>1, <3>2, <4>2, <4>3 DEF Counted
    <3>3. CASE at'[p] # "prompt"
      BY <3>1, <3>3 DEF Counted
    <3> QED
      BY <3>2, <3>3
  <2>6. CASE SignedIn(p) \/ LoggedIn(p)
    BY <2>6 DEF SignedIn, LoggedIn, Home, Goto, Counted
  <2> QED
    BY <2>1, <2>2, <2>3, <2>4, <2>5, <2>6, PageShape
       DEF Page, NetworkError, ClosePrompt, Leaves, Serves, Waiting, Home
<1> QED
  BY <1>2, <1>4, <1>5 DEF AttemptInv

LEMMA AttemptInvNext ==
  ASSUME OnePage
  PROVE  PageInv /\ PageInv' /\ AttemptInv /\ [Next]_vars => AttemptInv'
<1> SUFFICES ASSUME PageInv, PageInv', AttemptInv, [Next]_vars PROVE AttemptInv'
  OBVIOUS
<1>1. CASE Server /\ UNCHANGED pageVars
  BY <1>1, AttemptInvWork, RoutesWork DEF Server
<1>2. ASSUME UNCHANGED <<at, job, attempt, entry, store, pc, held, seen,
                         step, reply>>
      PROVE  AttemptInv'
  BY <1>2 DEF AttemptInv, NeverUsedUp, Counted, Tried
<1>3. CASE (Api!Tick \/ Api!Recreate) /\ UNCHANGED pageVars
  BY <1>2, <1>3 DEF Api!Tick, Api!Dict!Tick, Api!Recreate, Api!dictVars,
     pageVars, formVars
<1>4. CASE UNCHANGED vars
  BY <1>2, <1>4 DEF vars, apiVars, pageVars, formVars
<1>5. CASE Restart
  <2>1. /\ entry' = entry /\ store' = [k \in Api!Dict!Keys |-> None]
        /\ \A p \in Pages : job'[p] = None
    BY <1>5 DEF Restart, Api!Restart, Api!Dict!Restart
  <2>2. \A p \in Pages : store'[Lower[PageEmail[p]]] = None
    BY <2>1, PagesAssumption DEF Api!Dict!Keys
  <2> QED
    BY <2>1, <2>2 DEF AttemptInv, NeverUsedUp, Counted, Tried
<1> QED
  BY <1>1, <1>3, <1>4, <1>5, AttemptInvPage DEF Next

\* With one page per address a sign-up never uses up the attempts of its code
\* (script.js:181, main.py:180-181): every prompt makes one, and every sign-up
\* has a code of its own.
THEOREM PromptsAreEnough == ASSUME OnePage PROVE Spec => []NeverUsedUp
<1>1. AttemptInv => NeverUsedUp
  BY DEF AttemptInv
<1>2. PageInv /\ PageInv' /\ AttemptInv /\ [Next]_vars => AttemptInv'
  BY AttemptInvNext
<1> QED
  BY <1>1, <1>2, AttemptInvInit, PageInvariance, PTL DEF Spec
=============================================================================
