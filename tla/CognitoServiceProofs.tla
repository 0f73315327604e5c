------------------------ MODULE CognitoServiceProofs ------------------------
(***************************************************************************)
(* Proofs about CognitoService for every set of threads, addresses, codes  *)
(* and passwords, in both modes.  The codes are those of LocalCodes, whose *)
(* theorems are taken over from LocalCodesProofs.                          *)
(***************************************************************************)
EXTENDS CognitoService, TLAPS

Table == INSTANCE LocalCodesProofs

-----------------------------------------------------------------------------
(* The inductive invariant, thread by thread                               *)

\* The step a thread is at goes with the route it serves and the mode.
Routed(t) ==
  /\ step[t] \in {"signup", "getuser", "resend", "issue"} =>
       req[t].route = "register"
  /\ step[t] \in {"check", "adminconfirm", "confirmsignup"} =>
       req[t].route = "confirm"
  /\ step[t] = "auth" => req[t].route = "login"
  /\ step[t] \in {"getuser", "issue", "check", "adminconfirm"} => Local
  /\ step[t] \in {"resend", "confirmsignup"} => ~Local

\* The IDs a request uses are at least as new as the request.
Dated(t) ==
  /\ began[t] <= generation
  /\ cfg[t] <= generation
  /\ step[t] \notin {"idle", "discover", "replied"} => began[t] <= cfg[t]

\* The code a request submitted was issued for its address, and taken.
OwnCode(t) ==
  \E e \in Entries :
    /\ entry[e] # None
    /\ accepted[e] > 0
    /\ entry[e].key = Lower[req[t].email]
    /\ entry[e].code = Strip[req[t].secret]

\* The check under way is the one the request asked for, and its answer
\* "true" is about the code the request submitted.
Checking(t) ==
  step[t] = "check" =>
    /\ pc[t] # "idle"
    /\ call[t] = [key |-> Lower[req[t].email], value |-> Strip[req[t].secret]]
    /\ pc[t] = "take" => entry[held[t]].code = call[t].value
    /\ pc[t] = "true" => OwnCode(t)

\* What the pool holds where the route relies on it.
Known(t) ==
  /\ step[t] = "adminconfirm" => OwnCode(t)
  /\ step[t] = "resend" => Exists(User(t))
  /\ Answered(t, "confirm", 200) /\ cfg[t] = generation => Confirmed(User(t))
  /\ Local /\ Answered(t, "register", 409) /\ cfg[t] = generation =>
       Confirmed(User(t))

ThreadOK(t) ==
  /\ Routed(t)
  /\ Dated(t)
  /\ Checking(t)
  /\ Known(t)
  /\ ~Local /\ reply[t] # None => reply[t].code = None

ServiceInv ==
  /\ TypeOK
  /\ Table!Inv
  /\ ~Local => \A k \in Keys : store[k] = None
  /\ \A t \in Threads : ThreadOK(t)

-----------------------------------------------------------------------------
(* The codes are those of LocalCodes                                       *)

LEMMA TableAssumptions ==
  /\ Table!ThreadsAssumption
  /\ Table!NumbersAssumption
  /\ Table!NoneAssumption
  /\ Table!FunctionsAssumption
BY DictAssumption
   DEF Dict!ThreadsAssumption, Table!ThreadsAssumption, Dict!IsFiniteSet,
       Table!IsFiniteSet, Dict!NumbersAssumption, Table!NumbersAssumption,
       Dict!NoneAssumption, Table!NoneAssumption, Dict!FunctionsAssumption,
       Table!FunctionsAssumption, Dict!Keys, Table!Keys, Dict!Values,
       Table!Values, Dict!Fields, Table!Fields, Dict!Shown, Table!Shown,
       Dict!Asked, Table!Asked

LEMMA DictIsTable ==
  /\ Dict!Init => Table!Init
  /\ Dict!Next => Table!Next
  /\ Table!TypeOK <=> Dict!TypeOK
<1>1. Dict!Next => Table!Next
  BY DEF Dict!Next, Table!Next, Dict!Issue, Table!Issue, Dict!Call, Table!Call,
     Dict!Check, Table!Check, Dict!Tick, Table!Tick, Dict!Restart,
     Table!Restart, Dict!Unmade, Table!Unmade, Dict!NewEntry, Table!NewEntry,
     Dict!Goto, Table!Goto, Dict!Lookup, Table!Lookup, Dict!Judge, Table!Judge,
     Dict!Drop, Table!Drop, Dict!Count, Table!Count, Dict!Try, Table!Try,
     Dict!Take, Table!Take,
     Dict!Return, Table!Return, Dict!Results, Table!Results, Dict!Refused,
     Table!Refused, Dict!Compared, Table!Compared, Dict!Pop, Table!Pop,
     Dict!Keys, Table!Keys
<1>2. Dict!Init => Table!Init
  BY DEF Dict!Init, Table!Init, Dict!Keys, Table!Keys
<1>3. Table!TypeOK <=> Dict!TypeOK
  BY DEF Dict!TypeOK, Table!TypeOK, Dict!Fields, Table!Fields, Dict!Asked,
     Table!Asked, Dict!Keys, Table!Keys, Dict!Values, Table!Values, Dict!Steps,
     Table!Steps, Dict!Results, Table!Results
<1> QED
  BY <1>1, <1>2, <1>3

\* The routes do nothing to the codes that LocalCodes does not allow.
LEMMA DictSteps == TypeOK /\ [Next]_vars => [Dict!Next]_dictVars
<1> SUFFICES ASSUME TypeOK, [Next]_vars PROVE Dict!Next \/ UNCHANGED dictVars
  OBVIOUS
<1>1. ASSUME NEW t \in Threads, NEW r \in Requests, Request(t, r)
      PROVE  UNCHANGED dictVars
  BY <1>1 DEF Request
<1>2. ASSUME NEW t \in Threads, Discover(t)
      PROVE  Dict!Next \/ UNCHANGED dictVars
  <2>1. req[t] \in Requests
    BY <1>2 DEF TypeOK, Discover
  <2>2. req[t].route = "confirm" => req[t].email \in Emails /\ req[t].secret \in Texts
    BY <2>1 DEF Requests
  <2> QED
    BY <1>2, <2>2 DEF Discover, Dict!Next
<1>3. ASSUME NEW t \in Threads, IssueLocalCode(t) PROVE Dict!Next
  <2>1. req[t] \in Requests
    BY <1>3 DEF TypeOK, IssueLocalCode
  <2>2. req[t].email \in Emails
    BY <2>1 DEF Requests
  <2> QED
    BY <1>3, <2>2 DEF IssueLocalCode, Dict!Next
<1>4. ASSUME NEW t \in Threads, CheckLocalCode(t) \/ Checked(t) PROVE Dict!Next
  BY <1>4 DEF CheckLocalCode, Checked, Dict!Next, Dict!Check
<1>5. ASSUME NEW t \in Threads,
             \/ SignUp(t) \/ AdminGetUser(t) \/ ResendConfirmationCode(t)
             \/ AdminConfirmSignUp(t) \/ ConfirmSignUp(t) \/ InitiateAuth(t)
             \/ Deliver(t)
      PROVE  UNCHANGED dictVars
  BY <1>5 DEF SignUp, AdminGetUser, ResendConfirmationCode, AdminConfirmSignUp,
     ConfirmSignUp, InitiateAuth, Deliver
<1>6. CASE Tick
  BY <1>6 DEF Tick, Dict!Next
<1>7. CASE Restart
  BY <1>7 DEF Restart, Dict!Next
<1>8. CASE Recreate
  BY <1>8 DEF Recreate
<1>9. CASE UNCHANGED vars
  BY <1>9 DEF vars
<1> QED
  BY <1>1, <1>2, <1>3, <1>4, <1>5, <1>6, <1>7, <1>8, <1>9 DEF Next, Work

LEMMA TableNext ==
  ASSUME TypeOK, Table!Inv, [Next]_vars
  PROVE  Table!Inv' /\ Dict!TypeOK'
<1>1. [Dict!Next]_dictVars
  BY DictSteps
<1>2. [Table!Next]_(Table!vars)
  BY <1>1, DictIsTable DEF dictVars, Table!vars
<1>3. Table!Inv'
  BY <1>2, TableAssumptions, Table!InvNext
<1>4. Table!TypeOK'
  BY <1>3 DEF Table!Inv
<1>5. Dict!TypeOK'
  BY <1>4
     DEF Dict!TypeOK, Table!TypeOK, Dict!Fields, Table!Fields, Dict!Asked,
         Table!Asked, Dict!Keys, Table!Keys, Dict!Values, Table!Values,
         Dict!Steps, Table!Steps, Dict!Results, Table!Results
<1> QED
  BY <1>3, <1>5

-----------------------------------------------------------------------------
(* What no step undoes                                                     *)

\* An entry stays the code it is, and was accepted if it ever was.
EntriesKept ==
  \A e \in Entries : entry[e] # None =>
    /\ entry'[e] # None
    /\ entry'[e].key = entry[e].key
    /\ entry'[e].code = entry[e].code
    /\ accepted[e] > 0 => accepted'[e] > 0

AccountsKept ==
  \A u \in Accounts : (Exists(u) => Exists(u)') /\ (Confirmed(u) => Confirmed(u)')

LEMMA TableKeepsEntries ==
  Table!TypeOK /\ [Dict!Next]_dictVars => EntriesKept
<1> SUFFICES ASSUME Table!TypeOK, [Dict!Next]_dictVars PROVE EntriesKept
  OBVIOUS
<1> USE TableAssumptions DEF EntriesKept, Table!TypeOK
<1>1. ASSUME NEW t \in Threads, NEW email \in Emails, NEW code \in Codes,
             Dict!Issue(t, email, code)
      PROVE  EntriesKept
  <2> DEFINE e == CHOOSE f \in Dict!Unmade : TRUE
  <2>1. e \in Entries /\ entry[e] = None
    BY <1>1 DEF Dict!Issue, Dict!Unmade
  <2>2. \A f \in Entries \ {e} : entry'[f] = entry[f]
    BY <1>1 DEF Dict!Issue
  <2> QED
    BY <1>1, <2>1, <2>2 DEF Dict!Issue
<1>2. ASSUME NEW t \in Threads, Dict!Try(t) PROVE EntriesKept
  <2>1. /\ held[t] \in Entries
        /\ entry[held[t]] \in Table!Fields
        /\ entry' = [entry EXCEPT ![held[t]].attempts = seen[t] + 1]
        /\ accepted' = accepted
    BY <1>2 DEF Dict!Try
  <2>2. seen[t] + 1 \in Nat
    OBVIOUS
  <2>3. entry'[held[t]] \in Table!Fields
    BY <2>1, <2>2 DEF Table!Fields
  <2>4. entry'[held[t]] # None
    BY <2>3 DEF Table!NoneAssumption
  <2> QED
    BY <2>1, <2>4 DEF Table!Fields
<1>3. ASSUME NEW t \in Threads, Dict!Take(t) PROVE EntriesKept
  BY <1>3 DEF Dict!Take
<1>4. ASSUME NEW t \in Threads,
             \/ Dict!Lookup(t) \/ Dict!Judge(t) \/ Dict!Drop(t)
             \/ Dict!Count(t) \/ Dict!Return(t)
      PROVE  EntriesKept
  BY <1>4 DEF Dict!Lookup, Dict!Judge, Dict!Drop, Dict!Count, Dict!Return
<1>5. ASSUME NEW t \in Threads, NEW email \in Emails, NEW text \in Texts,
             Dict!Call(t, email, text)
      PROVE  EntriesKept
  BY <1>5 DEF Dict!Call
<1>6. CASE Dict!Tick \/ Dict!Restart \/ UNCHANGED dictVars
  BY <1>6 DEF Dict!Tick, Dict!Restart, dictVars
<1> QED
  BY <1>1, <1>2, <1>3, <1>4, <1>5, <1>6 DEF Dict!Next, Dict!Check

\* A thread is not disturbed by the others.
LEMMA Beside ==
  ASSUME NEW s \in Threads, TypeOK, ThreadOK(s), EntriesKept, AccountsKept,
         step'[s] = step[s], req'[s] = req[s], began'[s] = began[s],
         cfg'[s] = cfg[s], reply'[s] = reply[s], generation' = generation,
         pc'[s] = pc[s], call'[s] = call[s], held'[s] = held[s],
         pc[s] = "take" => held[s] \in Entries /\ entry[held[s]] # None
  PROVE  ThreadOK(s)'
<1>1. Routed(s)' /\ Dated(s)'
  BY DEF ThreadOK, Routed, Dated
<1>2. OwnCode(s) => OwnCode(s)'
  BY DEF OwnCode, EntriesKept
<1>3. Checking(s)'
  BY <1>2 DEF ThreadOK, Checking, EntriesKept
<1>4. step[s] \in {"resend", "replied"} => User(s) \in Accounts /\ User(s)' = User(s)
  BY DEF TypeOK, User, Accounts, Requests
<1>5. Known(s)'
  BY <1>2, <1>4 DEF ThreadOK, Known, Answered, AccountsKept
<1> QED
  BY <1>1, <1>3, <1>5 DEF ThreadOK

-----------------------------------------------------------------------------
(* The outcomes of a call to Cognito                                       *)

Refusals ==
  {"UsernameExistsException", "CodeMismatchException", "NotAuthorizedException",
   "UserNotFoundException", "UserNotConfirmedException",
   "InvalidPasswordException", "InvalidParameterException"}

\* Registration goes on with an account that exists; else an error is the
\* answer, and a 409 only where registration has been told of the account.
LEMMA ErrorAnswers ==
  ASSUME NEW t \in Threads,
         NEW error \in Refusals \cup {"ServiceUnavailable", "ResourceNotFoundException"},
         OnError(t, error)
  PROVE  \/ /\ step[t] = "signup"
            /\ error = "UsernameExistsException"
            /\ Goto(t, IF Local THEN "getuser" ELSE "resend")
         \/ \E status \in {400, 401, 403, 409, 503} :
              /\ Reply(t, status, None)
              /\ status = 409 =>
                   step[t] = "resend" \/ error = "UsernameExistsException"
              /\ step[t] = "signup" => error # "UsernameExistsException"
<1>1. CASE step[t] = "signup" /\ error = "UsernameExistsException"
  BY <1>1 DEF OnError
<1>2. CASE step[t] = "resend"
  BY <1>2 DEF OnError, Http
<1>3. CASE step[t] = "discover"
  BY <1>3 DEF OnError
<1>4. CASE /\ ~(step[t] = "signup" /\ error = "UsernameExistsException")
           /\ step[t] # "resend"
           /\ step[t] # "discover"
  <2>1. Reply(t, Http(error), None)
    BY <1>4 DEF OnError
  <2>2. /\ Http(error) \in {400, 401, 403, 409, 503}
        /\ Http(error) = 409 => error = "UsernameExistsException"
    BY DEF Http, Refusals
  <2> QED
    BY <1>4, <2>1, <2>2
<1> QED
  BY <1>1, <1>2, <1>3, <1>4

\* What a call that did not answer may have done to the pool.
Unanswered(t, refusals, effects) ==
  \/ account' = account
  \/ cfg[t] = generation /\ refusals = {} /\ account' \in effects

\* A call that ends in an error.
Failure(t, refusals, effects) ==
  \/ OnError(t, "ServiceUnavailable") /\ Unanswered(t, refusals, effects)
  \/ OnError(t, "ResourceNotFoundException") /\ account' = account
  \/ /\ cfg[t] = generation
     /\ \E error \in refusals : OnError(t, error)
     /\ account' = account

\* A call that gets through and is not refused.
Succeeds(t, refusals, effects) ==
  cfg[t] = generation /\ refusals = {} /\ account' \in effects

LEMMA FailureAnswers ==
  ASSUME NEW t \in Threads, NEW refusals \in SUBSET Refusals, NEW effects,
         Failure(t, refusals, effects)
  PROVE  \/ /\ step[t] = "signup"
            /\ "UsernameExistsException" \in refusals
            /\ Goto(t, IF Local THEN "getuser" ELSE "resend")
            /\ account' = account
         \/ /\ Unanswered(t, refusals, effects)
            /\ \E status \in {400, 401, 403, 409, 503} :
                 /\ Reply(t, status, None)
                 /\ status = 409 =>
                      \/ step[t] = "resend"
                      \/ /\ step[t] # "signup"
                         /\ "UsernameExistsException" \in refusals
<1>1. CASE OnError(t, "ServiceUnavailable") /\ Unanswered(t, refusals, effects)
  <2>1. \E status \in {400, 401, 403, 409, 503} :
          Reply(t, status, None) /\ (status = 409 => step[t] = "resend")
    BY <1>1, ErrorAnswers
  <2> QED
    BY <1>1, <2>1
<1>2. CASE OnError(t, "ResourceNotFoundException") /\ account' = account
  <2>1. \E status \in {400, 401, 403, 409, 503} :
          Reply(t, status, None) /\ (status = 409 => step[t] = "resend")
    BY <1>2, ErrorAnswers
  <2> QED
    BY <1>2, <2>1 DEF Unanswered
<1>3. ASSUME NEW error \in refusals, OnError(t, error), account' = account
      PROVE  \/ /\ step[t] = "signup"
                /\ "UsernameExistsException" \in refusals
                /\ Goto(t, IF Local THEN "getuser" ELSE "resend")
             \/ \E status \in {400, 401, 403, 409, 503} :
                  /\ Reply(t, status, None)
                  /\ status = 409 =>
                       \/ step[t] = "resend"
                       \/ /\ step[t] # "signup"
                          /\ "UsernameExistsException" \in refusals
  <2>1. error \in Refusals
    OBVIOUS
  <2> QED
    BY <1>3, <2>1, ErrorAnswers
<1> QED
  BY <1>1, <1>2, <1>3 DEF Failure, Unanswered

-----------------------------------------------------------------------------
(* A step of one thread                                                    *)

\* What a step of thread t leaves alone.
OnlyThread(t) ==
  /\ generation' = generation
  /\ \A s \in Threads \ {t} :
       /\ step'[s] = step[s] /\ req'[s] = req[s] /\ began'[s] = began[s]
       /\ cfg'[s] = cfg[s] /\ reply'[s] = reply[s]
       /\ pc'[s] = pc[s] /\ call'[s] = call[s] /\ held'[s] = held[s]

LEMMA OneThread ==
  ASSUME ServiceInv, [Next]_vars, NEW t \in Threads, OnlyThread(t),
         AccountsKept, TypeOK', ThreadOK(t)',
         ~Local => \A k \in Keys : store'[k] = None
  PROVE  ServiceInv'
<1>1. Table!Inv' /\ EntriesKept
  BY TableNext, TableKeepsEntries, DictSteps DEF ServiceInv, Table!Inv
<1>2. ASSUME NEW s \in Threads \ {t} PROVE ThreadOK(s)'
  <2>1. pc[s] = "take" => held[s] \in Entries /\ entry[held[s]] # None
    BY DEF ServiceInv, Table!Inv, Table!TypeOK
  <2> QED
    BY <1>1, <2>1, Beside DEF ServiceInv, OnlyThread
<1>3. Keys' = Keys
  BY DEF Keys, Dict!Keys
<1> QED
  BY <1>1, <1>2, <1>3 DEF ServiceInv

\* An answer says of the account what its status means.
LEMMA ReplyOK ==
  ASSUME NEW t \in Threads, NEW status, NEW code, ThreadOK(t), TypeOK,
         Reply(t, status, code), UNCHANGED <<generation, req, began, cfg>>,
         ~Local => code = None,
         status = 200 /\ req[t].route = "confirm" /\ cfg[t] = generation
           => Confirmed(User(t))',
         Local /\ status = 409 /\ req[t].route = "register"
           /\ cfg[t] = generation => Confirmed(User(t))'
  PROVE  ThreadOK(t)'
<1>1. step'[t] = "replied" /\ reply'[t] = [status |-> status, code |-> code]
  BY DEF Reply, TypeOK
<1>2. Routed(t)' /\ Dated(t)' /\ Checking(t)'
  BY <1>1 DEF ThreadOK, Routed, Dated, Checking
<1>3. Known(t)'
  BY <1>1 DEF Known, Answered
<1> QED
  BY <1>1, <1>2, <1>3 DEF ThreadOK

LEMMA ReplyType ==
  ASSUME NEW t \in Threads, step[t] # "idle", TypeOK, Dict!TypeOK',
         NEW status \in {200, 400, 401, 403, 409, 500, 503},
         NEW code \in Codes \cup {None}, Reply(t, status, code),
         account' \in [Accounts -> Profiles \cup {None}],
         cfg' \in [Threads -> Nat],
         UNCHANGED <<generation, req, began>>, faults' \in 0..MaxFaults,
         pc'[t] = "idle", \A s \in Threads \ {t} : pc'[s] = pc[s]
  PROVE  TypeOK'
<1>1. [status |-> status, code |-> code] \in Replies
  BY DEF Replies
<1>2. [status |-> status, code |-> code] # None
  BY <1>1, NoneAssumption
<1>3. /\ step' \in [Threads -> Calls \cup {"idle", "issue", "check", "replied"}]
      /\ step'[t] = "replied"
      /\ \A s \in Threads \ {t} : step'[s] = step[s]
  BY DEF Reply, TypeOK
<1>4. /\ reply' \in [Threads -> Replies \cup {None}]
      /\ reply'[t] # None
      /\ \A s \in Threads \ {t} : reply'[s] = reply[s]
  BY <1>1, <1>2 DEF Reply, TypeOK
<1> QED
  BY <1>3, <1>4 DEF TypeOK

LEMMA GotoType ==
  ASSUME NEW t \in Threads, step[t] \notin {"idle", "replied"}, TypeOK, Dict!TypeOK',
         NEW s \in (Calls \ {"discover"}) \cup {"issue", "check"}, Goto(t, s),
         account' \in [Accounts -> Profiles \cup {None}],
         cfg' \in [Threads -> Nat],
         UNCHANGED <<generation, req, began>>, faults' \in 0..MaxFaults,
         pc'[t] = "idle" \/ s = "check", \A r \in Threads \ {t} : pc'[r] = pc[r]
  PROVE  TypeOK'
BY DEF TypeOK, Goto, Calls

\* Registration goes on to the step that its mode and its account allow.
LEMMA GotoOK ==
  ASSUME NEW t \in Threads, NEW s \in {"issue", "getuser", "resend"},
         ThreadOK(t), TypeOK, step[t] \notin {"idle", "discover", "replied"},
         Goto(t, s), UNCHANGED <<generation, req, began, cfg>>,
         req[t].route = "register",
         s = "resend" <=> ~Local,
         s = "resend" => Exists(User(t))'
  PROVE  ThreadOK(t)'
<1>1. step'[t] = s /\ reply' = reply
  BY DEF Goto, TypeOK
<1>2. Routed(t)' /\ Dated(t)' /\ Checking(t)'
  BY <1>1 DEF ThreadOK, Routed, Dated, Checking
<1>3. Known(t)'
  BY <1>1 DEF Known, Answered
<1> QED
  BY <1>1, <1>2, <1>3 DEF ThreadOK

LEMMA ShapeOfStep ==
  ASSUME TypeOK, NEW t \in Threads,
         (\E s : Goto(t, s)) \/ \E status, code : Reply(t, status, code)
  PROVE  \A s \in Threads \ {t} : step'[s] = step[s] /\ reply'[s] = reply[s]
BY DEF Goto, Reply, TypeOK

\* A step that is a call to Cognito.
LEMMA CallStep ==
  ASSUME ServiceInv, [Next]_vars, NEW t \in Threads,
         UNCHANGED <<dictVars, generation, req, began, cfg>>,
         (\E s : Goto(t, s)) \/ \E status, code : Reply(t, status, code),
         AccountsKept, TypeOK', ThreadOK(t)'
  PROVE  ServiceInv'
<1>1. \A s \in Threads \ {t} : step'[s] = step[s] /\ reply'[s] = reply[s]
  BY ShapeOfStep DEF ServiceInv
<1>2. OnlyThread(t)
  BY <1>1 DEF OnlyThread, dictVars
<1>3. ~Local => \A k \in Keys : store'[k] = None
  BY DEF ServiceInv, dictVars
<1> QED
  BY <1>2, <1>3, OneThread

\* A call that fails keeps the invariant if its effect does.
LEMMA FailureKeeps ==
  ASSUME ServiceInv, [Next]_vars, NEW t \in Threads,
         step[t] \in Calls \ {"discover"},
         NEW refusals \in SUBSET Refusals, NEW effects,
         Failure(t, refusals, effects), faults' \in 0..MaxFaults,
         UNCHANGED <<dictVars, generation, req, began, cfg>>,
         "UsernameExistsException" \in refusals =>
           step[t] = "signup" /\ Exists(User(t)),
         Succeeds(t, refusals, effects) =>
           AccountsKept /\ account' \in [Accounts -> Profiles \cup {None}]
  PROVE  ServiceInv'
<1> USE DEF ServiceInv
<1>1. AccountsKept /\ account' \in [Accounts -> Profiles \cup {None}]
  <2>1. account' = account => AccountsKept
    BY DEF AccountsKept, Exists, Confirmed
  <2>2. account \in [Accounts -> Profiles \cup {None}]
    BY DEF TypeOK
  <2>3. account' = account \/ Succeeds(t, refusals, effects)
    BY DEF Failure, Unanswered, Succeeds
  <2> QED
    BY <2>1, <2>2, <2>3
<1>2. /\ pc' = pc /\ pc[t] = "idle" /\ cfg' \in [Threads -> Nat]
      /\ step[t] \notin {"idle", "discover", "replied"}
      /\ ThreadOK(t)
  BY DEF TypeOK, Calls, dictVars
<1>3. Dict!TypeOK'
  BY DEF TypeOK, dictVars, Dict!TypeOK
<1>4. CASE /\ step[t] = "signup"
           /\ "UsernameExistsException" \in refusals
           /\ Goto(t, IF Local THEN "getuser" ELSE "resend")
           /\ account' = account
  <2> DEFINE s == IF Local THEN "getuser" ELSE "resend"
  <2>1. s \in {"issue", "getuser", "resend"} /\ (s = "resend" <=> ~Local)
    OBVIOUS
  <2>2. Exists(User(t))'
    BY <1>4 DEF Exists, User
  <2>3. req[t].route = "register"
    BY <1>2, <1>4 DEF ThreadOK, Routed
  <2>4. ThreadOK(t)'
    BY <1>2, <1>4, <2>1, <2>2, <2>3, GotoOK
  <2>5. TypeOK'
    BY <1>1, <1>2, <1>3, <1>4, <2>1, GotoType DEF Calls
  <2> QED
    BY <1>1, <1>4, <2>4, <2>5, CallStep
<1>5. ASSUME NEW status \in {400, 401, 403, 409, 503}, Reply(t, status, None),
             status = 409 => step[t] = "resend"
      PROVE  ServiceInv'
  <2>1. ~(Local /\ status = 409)
    BY <1>2, <1>5 DEF ThreadOK, Routed
  <2>2. ThreadOK(t)'
    BY <1>2, <1>5, <2>1, ReplyOK
  <2>3. TypeOK'
    BY <1>1, <1>2, <1>3, <1>5, ReplyType
  <2> QED
    BY <1>1, <1>5, <2>2, <2>3, CallStep
<1> QED
  BY <1>4, <1>5, FailureAnswers

LEMMA Served ==
  ASSUME TypeOK, NEW t \in Threads, step[t] # "idle"
  PROVE  req[t] \in Requests /\ req[t].email \in Emails /\ User(t) \in Accounts
<1>1. req[t] \in Requests
  BY DEF TypeOK
<1> QED
  BY <1>1 DEF Requests, User, Accounts

\* What the route answers after a call that went well keeps the invariant.
LEMMA GoodAnswer ==
  ASSUME ServiceInv, NEW t \in Threads, step[t] \in Calls \ {"discover"},
         NEW status \in {200, 401, 409}, Reply(t, status, None),
         UNCHANGED <<dictVars, generation, req, began, cfg>>,
         account' \in [Accounts -> Profiles \cup {None}], faults' \in 0..MaxFaults,
         status = 200 => req[t].route # "confirm" \/ Confirmed(User(t))',
         status = 409 => Confirmed(User(t))'
  PROVE  TypeOK' /\ ThreadOK(t)'
<1> USE DEF ServiceInv
<1>1. /\ pc' = pc /\ pc[t] = "idle" /\ cfg' \in [Threads -> Nat]
      /\ step[t] # "idle" /\ ThreadOK(t)
  BY DEF TypeOK, Calls, dictVars
<1>2. Dict!TypeOK'
  BY DEF TypeOK, dictVars, Dict!TypeOK
<1>3. ThreadOK(t)'
  BY <1>1, ReplyOK
<1> QED
  BY <1>1, <1>2, <1>3, ReplyType

LEMMA SignUpKeeps ==
  ASSUME ServiceInv, [Next]_vars, NEW t \in Threads, SignUp(t)
  PROVE  ServiceInv'
<1> USE DEF ServiceInv
<1> DEFINE u == User(t)
           Then == IF Local THEN Goto(t, "issue") ELSE Reply(t, 200, None)
<1>1. /\ step[t] = "signup" /\ u \in Accounts /\ req[t] \in Requests
      /\ req[t].route = "register" /\ req[t].secret \in Passwords
      /\ ThreadOK(t)
  BY Served DEF SignUp, ThreadOK, Routed, Requests
<1>2. UNCHANGED <<dictVars, generation, req, began, cfg>>
  BY DEF SignUp
<1>3. ASSUME SignUpRefusals(t) = {}, account' \in NewAccounts(t)
      PROVE  AccountsKept /\ account' \in [Accounts -> Profiles \cup {None}]
  <2>1. account[u] = None
    BY <1>3 DEF SignUpRefusals, Errors, Exists
  <2>2. PICK code \in Codes \cup {None} :
          account' = [account EXCEPT ![u] =
            [status |-> "UNCONFIRMED", password |-> req[t].secret, code |-> code]]
    BY <1>3 DEF NewAccounts
  <2>3. account \in [Accounts -> Profiles \cup {None}]
    BY DEF TypeOK
  <2>4. [status |-> "UNCONFIRMED", password |-> req[t].secret, code |-> code]
          \in Profiles
    BY <1>1 DEF Profiles
  <2>5. account' \in [Accounts -> Profiles \cup {None}]
    BY <2>2, <2>3, <2>4
  <2>6. AccountsKept
    BY <2>1, <2>2, <2>3 DEF AccountsKept, Exists, Confirmed
  <2> QED
    BY <2>5, <2>6
<1>4. ASSUME Then, SignUpRefusals(t) = {}, account' \in NewAccounts(t),
             faults' \in 0..MaxFaults
      PROVE  TypeOK' /\ ThreadOK(t)'
  <2>1. CASE Local
    <3>1. Goto(t, "issue")
      BY <1>4, <2>1
    <3>2. pc'[t] = "idle" /\ pc' = pc /\ cfg' \in [Threads -> Nat]
      BY <1>1, <1>2 DEF TypeOK, dictVars
    <3>3. Dict!TypeOK'
      BY <1>2 DEF TypeOK, dictVars, Dict!TypeOK
    <3>4. TypeOK'
      BY <1>1, <1>2, <1>3, <1>4, <3>1, <3>2, <3>3, GotoType
    <3> QED
      BY <1>1, <1>2, <2>1, <3>1, <3>4, GotoOK
  <2>2. CASE ~Local
    BY <1>1, <1>2, <1>3, <1>4, <2>2, GoodAnswer DEF Calls
  <2> QED
    BY <2>1, <2>2
<1>5. /\ faults' \in 0..MaxFaults
      /\ \/ Failure(t, SignUpRefusals(t), NewAccounts(t))
         \/ Succeeds(t, SignUpRefusals(t), NewAccounts(t)) /\ Then
  BY PoolAssumption
     DEF TypeOK, SignUp, CognitoCall, Failure, Unanswered, Succeeds
<1>6. /\ SignUpRefusals(t) \in SUBSET Refusals
      /\ "UsernameExistsException" \in SignUpRefusals(t) => Exists(u)
  BY DEF SignUpRefusals, Errors, Refusals
<1>7. Then => (\E s : Goto(t, s)) \/ \E status, code : Reply(t, status, code)
  OBVIOUS
<1>8. CASE Failure(t, SignUpRefusals(t), NewAccounts(t))
  BY <1>1, <1>2, <1>3, <1>5, <1>6, <1>8, FailureKeeps DEF Calls, Succeeds
<1>9. CASE Succeeds(t, SignUpRefusals(t), NewAccounts(t)) /\ Then
  BY <1>2, <1>3, <1>4, <1>5, <1>7, <1>9, CallStep DEF Succeeds
<1> QED
  BY <1>5, <1>8, <1>9

LEMMA AdminGetUserKeeps ==
  ASSUME ServiceInv, [Next]_vars, NEW t \in Threads, AdminGetUser(t)
  PROVE  ServiceInv'
<1> USE DEF ServiceInv
<1> DEFINE refusals == Errors(~Exists(User(t)), "UserNotFoundException")
           Then == AfterGetUser(t)
<1>1. /\ step[t] = "getuser" /\ User(t) \in Accounts /\ ThreadOK(t)
      /\ req[t].route = "register" /\ Local
  BY Served DEF AdminGetUser, ThreadOK, Routed
<1>2. UNCHANGED <<dictVars, generation, req, began, cfg>>
  BY DEF AdminGetUser
<1>3. account' \in {account} =>
        AccountsKept /\ account' \in [Accounts -> Profiles \cup {None}]
  BY DEF AccountsKept, Exists, Confirmed, TypeOK
<1>4. ASSUME Then, account' \in {account}, faults' \in 0..MaxFaults
      PROVE  TypeOK' /\ ThreadOK(t)'
  <2>1. CASE Confirmed(User(t))
    <3>1. Reply(t, 409, None)
      BY <1>4, <2>1 DEF AfterGetUser, Http
    <3>2. Confirmed(User(t))'
      BY <1>2, <1>4, <2>1 DEF Confirmed, Exists, User
    <3> QED
      BY <1>1, <1>2, <1>3, <1>4, <3>1, <3>2, GoodAnswer DEF Calls
  <2>2. CASE ~Confirmed(User(t))
    <3>1. Goto(t, "issue")
      BY <1>4, <2>2 DEF AfterGetUser
    <3>2. pc'[t] = "idle" /\ pc' = pc /\ cfg' \in [Threads -> Nat]
      BY <1>1, <1>2 DEF TypeOK, dictVars
    <3>3. Dict!TypeOK'
      BY <1>2 DEF TypeOK, dictVars, Dict!TypeOK
    <3>4. TypeOK'
      BY <1>1, <1>2, <1>3, <1>4, <3>1, <3>2, <3>3, GotoType
    <3> QED
      BY <1>1, <1>2, <3>1, <3>4, GotoOK
  <2> QED
    BY <2>1, <2>2
<1>5. /\ faults' \in 0..MaxFaults
      /\ \/ Failure(t, refusals, {account})
         \/ Succeeds(t, refusals, {account}) /\ Then
  BY PoolAssumption
     DEF TypeOK, AdminGetUser, CognitoCall, Failure, Unanswered, Succeeds
<1>6. refusals \in SUBSET Refusals /\ "UsernameExistsException" \notin refusals
  BY DEF Errors, Refusals
<1>7. Then => (\E s : Goto(t, s)) \/ \E status, code : Reply(t, status, code)
  BY DEF AfterGetUser
<1>8. CASE Failure(t, refusals, {account})
  BY <1>1, <1>2, <1>3, <1>5, <1>6, <1>8, FailureKeeps DEF Calls, Succeeds
<1>9. CASE Succeeds(t, refusals, {account}) /\ Then
  BY <1>2, <1>3, <1>4, <1>5, <1>7, <1>9, CallStep DEF Succeeds
<1> QED
  BY <1>5, <1>8, <1>9

LEMMA ResendKeeps ==
  ASSUME ServiceInv, [Next]_vars, NEW t \in Threads, ResendConfirmationCode(t)
  PROVE  ServiceInv'
<1> USE DEF ServiceInv
<1> DEFINE u == User(t)
           refusals == Errors(Confirmed(u), "InvalidParameterException")
           effects == {With(u, "code", code) : code \in Codes}
           Then == Reply(t, 200, None)
<1>1. /\ step[t] = "resend" /\ u \in Accounts /\ ThreadOK(t)
      /\ req[t].route = "register" /\ Exists(u)
  BY Served DEF ResendConfirmationCode, ThreadOK, Routed, Known
<1>2. UNCHANGED <<dictVars, generation, req, began, cfg>>
  BY DEF ResendConfirmationCode
<1>3. ASSUME account' \in effects
      PROVE  AccountsKept /\ account' \in [Accounts -> Profiles \cup {None}]
  <2>1. PICK code \in Codes : account' = [account EXCEPT ![u]["code"] = code]
    BY <1>3 DEF With
  <2>2. account[u] \in Profiles /\ account \in [Accounts -> Profiles \cup {None}]
    BY <1>1 DEF Exists, TypeOK
  <2>3. /\ account' = [account EXCEPT ![u] = [account[u] EXCEPT !["code"] = code]]
        /\ [account[u] EXCEPT !["code"] = code] \in Profiles
        /\ [account[u] EXCEPT !["code"] = code].status = account[u].status
    BY <2>1, <2>2 DEF Profiles
  <2>4. account' \in [Accounts -> Profiles \cup {None}]
    BY <2>2, <2>3
  <2>5. AccountsKept
    BY <2>2, <2>3, NoneAssumption DEF AccountsKept, Exists, Confirmed
  <2> QED
    BY <2>4, <2>5
<1>4. ASSUME Then, account' \in effects, faults' \in 0..MaxFaults
      PROVE  TypeOK' /\ ThreadOK(t)'
  BY <1>1, <1>2, <1>3, <1>4, GoodAnswer DEF Calls
<1>5. /\ faults' \in 0..MaxFaults
      /\ \/ Failure(t, refusals, effects)
         \/ Succeeds(t, refusals, effects) /\ Then
  BY PoolAssumption
     DEF TypeOK, ResendConfirmationCode, CognitoCall, Failure, Unanswered, Succeeds
<1>6. refusals \in SUBSET Refusals /\ "UsernameExistsException" \notin refusals
  BY DEF Errors, Refusals
<1>7. CASE Failure(t, refusals, effects)
  BY <1>1, <1>2, <1>3, <1>5, <1>6, <1>7, FailureKeeps DEF Calls, Succeeds
<1>8. CASE Succeeds(t, refusals, effects) /\ Then
  BY <1>2, <1>3, <1>4, <1>5, <1>8, CallStep DEF Succeeds
<1> QED
  BY <1>5, <1>7, <1>8

\* Confirming makes the account that the request names a confirmed one.
LEMMA ConfirmedOne ==
  ASSUME TypeOK, NEW u \in Accounts, Exists(u),
         account' \in {With(u, "status", "CONFIRMED")}
  PROVE  /\ AccountsKept
         /\ account' \in [Accounts -> Profiles \cup {None}]
         /\ Exists(u)' /\ account'[u].status = "CONFIRMED"
         /\ \A v \in Accounts \ {u} : account'[v] = account[v]
<1> DEFINE profile == [account[u] EXCEPT !["status"] = "CONFIRMED"]
<1>1. account[u] \in Profiles /\ account \in [Accounts -> Profiles \cup {None}]
  BY DEF Exists, TypeOK
<1>2. /\ account' = [account EXCEPT ![u] = profile]
      /\ profile \in Profiles
      /\ profile.status = "CONFIRMED"
  BY <1>1 DEF Profiles, With
<1>3. profile # None
  BY <1>2, NoneAssumption
<1> HIDE DEF profile
<1>4. account'[u] = profile /\ \A v \in Accounts \ {u} : account'[v] = account[v]
  BY <1>1, <1>2
<1> QED
  BY <1>1, <1>2, <1>3, <1>4 DEF AccountsKept, Exists, Confirmed

LEMMA AdminConfirmKeeps ==
  ASSUME ServiceInv, [Next]_vars, NEW t \in Threads, AdminConfirmSignUp(t)
  PROVE  ServiceInv'
<1> USE DEF ServiceInv
<1> DEFINE u == User(t)
           refusals == ConfirmRefusals(t)
           effects == {With(u, "status", "CONFIRMED")}
           Then == Reply(t, 200, None)
<1>1. step[t] = "adminconfirm" /\ u \in Accounts
  BY Served DEF AdminConfirmSignUp
<1>2. UNCHANGED <<dictVars, generation, req, began, cfg>>
  BY DEF AdminConfirmSignUp
<1>3. ASSUME Succeeds(t, refusals, effects)
      PROVE  /\ AccountsKept /\ account' \in [Accounts -> Profiles \cup {None}]
             /\ Confirmed(u)'
  <2>1. Exists(u) /\ account' \in effects
    BY <1>3 DEF Succeeds, ConfirmRefusals, Errors
  <2>2. User(t)' = User(t)
    BY <1>2 DEF User
  <2> QED
    BY <1>1, <2>1, <2>2, ConfirmedOne DEF Confirmed, Exists
<1>4. ASSUME Then, Succeeds(t, refusals, effects), faults' \in 0..MaxFaults
      PROVE  TypeOK' /\ ThreadOK(t)'
  BY <1>1, <1>2, <1>3, <1>4, GoodAnswer DEF Calls
<1>5. /\ faults' \in 0..MaxFaults
      /\ \/ Failure(t, refusals, effects)
         \/ Succeeds(t, refusals, effects) /\ Then
  BY PoolAssumption
     DEF TypeOK, AdminConfirmSignUp, CognitoCall, Failure, Unanswered, Succeeds
<1>6. refusals \in SUBSET Refusals /\ "UsernameExistsException" \notin refusals
  BY DEF ConfirmRefusals, Errors, Refusals
<1>7. CASE Failure(t, refusals, effects)
  BY <1>1, <1>2, <1>3, <1>5, <1>6, <1>7, FailureKeeps DEF Calls
<1>8. CASE Succeeds(t, refusals, effects) /\ Then
  BY <1>2, <1>3, <1>4, <1>5, <1>8, CallStep
<1> QED
  BY <1>5, <1>7, <1>8

LEMMA ConfirmKeeps ==
  ASSUME ServiceInv, [Next]_vars, NEW t \in Threads, ConfirmSignUp(t)
  PROVE  ServiceInv'
<1> USE DEF ServiceInv
<1> DEFINE u == User(t)
           refusals == ConfirmRefusals(t) \cup
             Errors(Exists(User(t)) /\ account[User(t)].code # Strip[req[t].secret],
                    "CodeMismatchException")
           effects == {With(u, "status", "CONFIRMED")}
           Then == Reply(t, 200, None)
<1>1. step[t] = "confirmsignup" /\ u \in Accounts
  BY Served DEF ConfirmSignUp
<1>2. UNCHANGED <<dictVars, generation, req, began, cfg>>
  BY DEF ConfirmSignUp
<1>3. ASSUME Succeeds(t, refusals, effects)
      PROVE  /\ AccountsKept /\ account' \in [Accounts -> Profiles \cup {None}]
             /\ Confirmed(u)'
  <2>1. Exists(u) /\ account' \in effects
    BY <1>3 DEF Succeeds, ConfirmRefusals, Errors
  <2>2. User(t)' = User(t)
    BY <1>2 DEF User
  <2> QED
    BY <1>1, <2>1, <2>2, ConfirmedOne DEF Confirmed, Exists
<1>4. ASSUME Then, Succeeds(t, refusals, effects), faults' \in 0..MaxFaults
      PROVE  TypeOK' /\ ThreadOK(t)'
  BY <1>1, <1>2, <1>3, <1>4, GoodAnswer DEF Calls
<1>5. /\ faults' \in 0..MaxFaults
      /\ \/ Failure(t, refusals, effects)
         \/ Succeeds(t, refusals, effects) /\ Then
  BY PoolAssumption
     DEF TypeOK, ConfirmSignUp, CognitoCall, Failure, Unanswered, Succeeds
<1>6. refusals \in SUBSET Refusals /\ "UsernameExistsException" \notin refusals
  BY DEF ConfirmRefusals, Errors, Refusals
<1>7. CASE Failure(t, refusals, effects)
  BY <1>1, <1>2, <1>3, <1>5, <1>6, <1>7, FailureKeeps DEF Calls
<1>8. CASE Succeeds(t, refusals, effects) /\ Then
  BY <1>2, <1>3, <1>4, <1>5, <1>8, CallStep
<1> QED
  BY <1>5, <1>7, <1>8

LEMMA InitiateAuthKeeps ==
  ASSUME ServiceInv, [Next]_vars, NEW t \in Threads, InitiateAuth(t)
  PROVE  ServiceInv'
<1> USE DEF ServiceInv
<1> DEFINE refusals == LoginRefusals(t)
           status == IF User(t) \in Challenged THEN 401 ELSE 200
           Then == Reply(t, status, None)
<1>1. step[t] = "auth" /\ req[t].route = "login"
  BY DEF InitiateAuth, ThreadOK, Routed
<1>2. UNCHANGED <<dictVars, generation, req, began, cfg>>
  BY DEF InitiateAuth
<1>3. account' \in {account} =>
        AccountsKept /\ account' \in [Accounts -> Profiles \cup {None}]
  BY DEF AccountsKept, Exists, Confirmed, TypeOK
<1>4. ASSUME Then, account' \in {account}, faults' \in 0..MaxFaults
      PROVE  TypeOK' /\ ThreadOK(t)'
  BY <1>1, <1>2, <1>3, <1>4, GoodAnswer DEF Calls
<1>5. /\ faults' \in 0..MaxFaults
      /\ \/ Failure(t, refusals, {account})
         \/ Succeeds(t, refusals, {account}) /\ Then
  BY PoolAssumption
     DEF TypeOK, InitiateAuth, CognitoCall, Failure, Unanswered, Succeeds
<1>6. refusals \in SUBSET Refusals /\ "UsernameExistsException" \notin refusals
  BY DEF LoginRefusals, Errors, Refusals
<1>7. CASE Failure(t, refusals, {account})
  BY <1>1, <1>2, <1>3, <1>5, <1>6, <1>7, FailureKeeps DEF Calls, Succeeds
<1>8. CASE Succeeds(t, refusals, {account}) /\ Then
  BY <1>2, <1>3, <1>4, <1>5, <1>8, CallStep DEF Succeeds
<1> QED
  BY <1>5, <1>7, <1>8

-----------------------------------------------------------------------------
(* The steps that are not calls                                            *)

LEMMA SameAccounts == account' = account => AccountsKept
BY DEF AccountsKept, Exists, Confirmed

LEMMA RequestKeeps ==
  ASSUME ServiceInv, [Next]_vars, NEW t \in Threads, NEW r \in Requests,
         Request(t, r)
  PROVE  ServiceInv'
<1> USE DEF ServiceInv
<1>1. r # None
  BY NoneAssumption
<1>2. UNCHANGED <<dictVars, poolVars, cfg, faults, reply>>
  BY DEF Request, Goto
<1>3. /\ step[t] = "idle"
      /\ step' = [step EXCEPT ![t] = "discover"]
      /\ req' = [req EXCEPT ![t] = r]
      /\ began' = [began EXCEPT ![t] = generation]
  BY DEF Request, Goto
<1>4. TypeOK'
  <2>1. /\ step' \in [Threads -> Calls \cup {"idle", "issue", "check", "replied"}]
        /\ step'[t] = "discover"
        /\ \A s \in Threads \ {t} : step'[s] = step[s]
    BY <1>3 DEF TypeOK, Calls
  <2>2. /\ req' \in [Threads -> Requests \cup {None}]
        /\ req'[t] # None
        /\ \A s \in Threads \ {t} : req'[s] = req[s]
    BY <1>1, <1>3 DEF TypeOK
  <2>3. began' \in [Threads -> Nat]
    BY <1>3 DEF TypeOK
  <2>4. Dict!TypeOK'
    BY TableNext
  <2> QED
    BY <1>2, <1>3, <2>1, <2>2, <2>3, <2>4 DEF TypeOK, dictVars, poolVars
<1>5. ThreadOK(t)'
  <2>1. /\ step'[t] = "discover" /\ began'[t] = generation
        /\ reply'[t] = None /\ generation' = generation /\ cfg'[t] = cfg[t]
        /\ generation \in Nat
    BY <1>2, <1>3 DEF TypeOK, poolVars
  <2>2. Routed(t)' /\ Checking(t)' /\ Known(t)'
    BY <2>1 DEF Routed, Checking, Known, Answered
  <2>3. Dated(t)'
    BY <2>1 DEF ThreadOK, Dated
  <2> QED
    BY <2>1, <2>2, <2>3 DEF ThreadOK
<1>6. OnlyThread(t)
  BY <1>2, <1>3 DEF OnlyThread, TypeOK, dictVars, poolVars
<1> QED
  BY <1>2, <1>4, <1>5, <1>6, SameAccounts, OneThread DEF dictVars, poolVars

LEMMA DeliverKeeps ==
  ASSUME ServiceInv, [Next]_vars, NEW t \in Threads, Deliver(t)
  PROVE  ServiceInv'
<1> USE DEF ServiceInv, Deliver
<1>1. TypeOK'
  BY TableNext DEF TypeOK, dictVars, poolVars
<1>2. ThreadOK(t)'
  BY DEF ThreadOK, Routed, Dated, Checking, Known, Answered, TypeOK, poolVars
<1>3. OnlyThread(t)
  BY DEF OnlyThread, TypeOK, dictVars, poolVars
<1> QED
  BY <1>1, <1>2, <1>3, SameAccounts, OneThread DEF dictVars, poolVars

LEMMA DiscoverKeeps ==
  ASSUME ServiceInv, [Next]_vars, NEW t \in Threads, Discover(t)
  PROVE  ServiceInv'
<1> USE DEF ServiceInv
<1>1. /\ step[t] = "discover" /\ UNCHANGED <<poolVars, req, began>>
      /\ req[t] \in Requests /\ ThreadOK(t) /\ pc[t] = "idle"
      /\ Dict!TypeOK'
  BY Served, TableNext DEF Discover, TypeOK
<1>2. AccountsKept /\ generation' = generation /\ account' = account
  BY <1>1, SameAccounts DEF poolVars
<1>3. CASE /\ cfg' = [cfg EXCEPT ![t] = generation]
           /\ Goto(t, FirstStep(t))
           /\ UNCHANGED faults
           /\ req[t].route = "confirm" /\ Local
           /\ Dict!Call(t, req[t].email, req[t].secret)
  <2>1. Goto(t, "check")
    BY <1>3 DEF FirstStep
  <2>2. /\ pc' = [pc EXCEPT ![t] = "lookup"]
        /\ call' = [call EXCEPT ![t] = [key   |-> Lower[req[t].email],
                                        value |-> Strip[req[t].secret]]]
        /\ UNCHANGED <<entry, store, held, accepted>>
    BY <1>3 DEF Dict!Call, Dict!Goto
  <2>3. pc \in [Threads -> {"idle"} \cup Dict!Steps \cup Dict!Results]
        /\ DOMAIN call = Threads
    BY DEF TypeOK, Dict!TypeOK
  <2>4. TypeOK'
    BY <1>1, <1>2, <1>3, <2>1, <2>2, <2>3 DEF TypeOK, Goto
  <2>5. ThreadOK(t)'
    BY <1>1, <1>2, <1>3, <2>1, <2>2, <2>3 DEF ThreadOK, Routed, Dated, Checking,
       Known, Answered, TypeOK, Goto
  <2>6. OnlyThread(t)
    BY <1>1, <1>2, <1>3, <2>1, <2>2, <2>3 DEF OnlyThread, TypeOK, Goto
  <2> QED
    BY <1>2, <1>3, <2>4, <2>5, <2>6, OneThread
<1>4. CASE /\ cfg' = [cfg EXCEPT ![t] = generation]
           /\ Goto(t, FirstStep(t))
           /\ UNCHANGED faults
           /\ ~(req[t].route = "confirm" /\ Local)
           /\ UNCHANGED dictVars
  <2>1. /\ FirstStep(t) \in {"signup", "auth", "confirmsignup"}
        /\ FirstStep(t) = "signup" => req[t].route = "register"
        /\ FirstStep(t) = "auth" => req[t].route = "login"
        /\ FirstStep(t) = "confirmsignup" => req[t].route = "confirm" /\ ~Local
    BY <1>1, <1>4 DEF FirstStep, Requests
  <2>2. TypeOK'
    BY <1>1, <1>2, <1>4, <2>1 DEF TypeOK, Goto, Calls, dictVars
  <2>3. ThreadOK(t)'
    BY <1>1, <1>2, <1>4, <2>1 DEF ThreadOK, Routed, Dated, Checking, Known,
       Answered, TypeOK, Goto
  <2>4. OnlyThread(t)
    BY <1>1, <1>2, <1>4 DEF OnlyThread, TypeOK, Goto, dictVars
  <2> QED
    BY <1>2, <1>4, <2>2, <2>3, <2>4, OneThread DEF dictVars
<1>5. CASE /\ faults < MaxFaults
           /\ faults' = faults + 1
           /\ OnError(t, "ServiceUnavailable")
           /\ UNCHANGED <<cfg, dictVars>>
  <2>1. Reply(t, 503, None)
    BY <1>1, <1>5 DEF OnError
  <2>2. ThreadOK(t)'
    BY <1>1, <1>2, <1>5, <2>1, ReplyOK
  <2>3. /\ faults' \in 0..MaxFaults /\ pc' = pc /\ cfg' \in [Threads -> Nat]
        /\ account' \in [Accounts -> Profiles \cup {None}]
    BY <1>2, <1>5, PoolAssumption DEF TypeOK, dictVars
  <2>4. TypeOK'
    BY <1>1, <1>2, <2>1, <2>3, ReplyType
  <2> QED
    BY <1>1, <1>2, <1>5, <2>1, <2>2, <2>4, CallStep
<1> QED
  BY <1>3, <1>4, <1>5 DEF Discover

LEMMA IssueKeeps ==
  ASSUME ServiceInv, [Next]_vars, NEW t \in Threads, IssueLocalCode(t)
  PROVE  ServiceInv'
<1> USE DEF ServiceInv
<1>1. /\ step[t] = "issue" /\ UNCHANGED <<poolVars, req, began, cfg, faults>>
      /\ ThreadOK(t) /\ pc[t] = "idle" /\ Local
      /\ req[t].route = "register"
      /\ Dict!TypeOK'
  BY TableNext DEF IssueLocalCode, TypeOK, ThreadOK, Routed
<1>2. PICK code \in Codes : Dict!Issue(t, req[t].email, code) /\ Reply(t, 200, code)
  BY DEF IssueLocalCode
<1>3. AccountsKept /\ generation' = generation /\ account' = account
  BY <1>1, SameAccounts DEF poolVars
<1>4. UNCHANGED <<pc, call, held>>
  BY <1>2 DEF Dict!Issue
<1>5. ThreadOK(t)'
  BY <1>1, <1>2, <1>3, ReplyOK
<1>6. TypeOK'
  <2>1. /\ faults' \in 0..MaxFaults /\ cfg' \in [Threads -> Nat]
        /\ account' \in [Accounts -> Profiles \cup {None}]
        /\ pc'[t] = "idle" /\ \A s \in Threads \ {t} : pc'[s] = pc[s]
        /\ step[t] # "idle"
    BY <1>1, <1>3, <1>4 DEF TypeOK
  <2> QED
    BY <1>1, <1>2, <1>3, <2>1, ReplyType
<1>7. OnlyThread(t)
  BY <1>1, <1>2, <1>3, <1>4, ShapeOfStep DEF OnlyThread
<1> QED
  BY <1>1, <1>3, <1>5, <1>6, <1>7, OneThread

\* A step of the check, which answers "true" only for the submitted code.
LEMMA CheckKeeps ==
  ASSUME ServiceInv, [Next]_vars, NEW t \in Threads, CheckLocalCode(t)
  PROVE  ServiceInv'
<1> USE DEF ServiceInv
<1>1. /\ step[t] = "check"
      /\ UNCHANGED <<poolVars, step, req, began, cfg, reply, faults>>
      /\ ThreadOK(t) /\ Local /\ Dict!TypeOK' /\ Dict!TypeOK
      /\ call[t] = [key |-> Lower[req[t].email], value |-> Strip[req[t].secret]]
  BY TableNext DEF CheckLocalCode, TypeOK, ThreadOK, Routed, Checking
<1>2. AccountsKept
  BY <1>1, SameAccounts DEF poolVars
<1>3. /\ pc'[t] \in {"judge", "false", "drop", "count", "try", "error", "take",
                    "true"}
      /\ \A s \in Threads \ {t} :
           pc'[s] = pc[s] /\ call'[s] = call[s] /\ held'[s] = held[s]
      /\ call' = call
  BY <1>1 DEF CheckLocalCode, Dict!TypeOK, Dict!Lookup, Dict!Judge, Dict!Drop,
     Dict!Count, Dict!Try, Dict!Take, Dict!Goto, Dict!Compared
<1>4. pc'[t] = "take" => entry'[held'[t]].code = call'[t].value
  <2>1. ASSUME pc'[t] = "take" PROVE Dict!Try(t)
    BY <1>1, <2>1 DEF CheckLocalCode, Dict!TypeOK, Dict!Lookup, Dict!Judge,
       Dict!Drop, Dict!Count, Dict!Take, Dict!Goto
  <2>2. ASSUME Dict!Try(t), pc'[t] = "take"
        PROVE  entry'[held'[t]].code = call'[t].value
    <3>1. held[t] \in Entries /\ entry[held[t]] \in Dict!Fields /\ held' = held
      BY <1>1, <2>2 DEF Dict!TypeOK, Dict!Try
    <3>2. Dict!Compared(held[t], call[t].value) = "take"
      BY <1>1, <2>2 DEF Dict!TypeOK, Dict!Try, Dict!Goto
    <3>3. call[t].value = entry[held[t]].code
      BY <3>2 DEF Dict!Compared
    <3>4. entry'[held[t]].code = entry[held[t]].code
      BY <1>1, <2>2, <3>1 DEF Dict!TypeOK, Dict!Try, Dict!Fields
    <3> QED
      BY <1>3, <3>1, <3>3, <3>4
  <2> QED
    BY <2>1, <2>2
<1>5. pc'[t] = "true" => OwnCode(t)'
  <2> SUFFICES ASSUME pc'[t] = "true" PROVE OwnCode(t)'
    OBVIOUS
  <2>1. Dict!Take(t)
    BY <1>1 DEF CheckLocalCode, Dict!TypeOK, Dict!Lookup, Dict!Judge,
       Dict!Drop, Dict!Count, Dict!Try, Dict!Goto, Dict!Compared
  <2>2. /\ pc[t] = "take" /\ held[t] \in Entries /\ entry[held[t]] # None
        /\ accepted'[held[t]] = accepted[held[t]] + 1
        /\ accepted[held[t]] \in Nat /\ entry' = entry
    BY <1>1, <2>1 DEF Dict!TypeOK, Dict!Take
  <2>3. entry[held[t]].key = call[t].key
    BY <2>2 DEF Table!Inv, Table!FiledUnderKey
  <2>4. entry[held[t]].code = call[t].value
    BY <1>1, <2>2 DEF ThreadOK, Checking
  <2> QED
    BY <1>1, <2>2, <2>3, <2>4 DEF OwnCode
<1>6. ThreadOK(t)'
  BY <1>1, <1>3, <1>4, <1>5 DEF ThreadOK, Routed, Dated, Checking, Known,
     Answered, poolVars
<1>7. TypeOK'
  BY <1>1, <1>3 DEF TypeOK, poolVars
<1>8. OnlyThread(t)
  BY <1>1, <1>3 DEF OnlyThread, poolVars
<1> QED
  BY <1>1, <1>2, <1>6, <1>7, <1>8, OneThread

\* The answer of the check: only "true" goes on to confirm the account.
LEMMA CheckedKeeps ==
  ASSUME ServiceInv, [Next]_vars, NEW t \in Threads, Checked(t)
  PROVE  ServiceInv'
<1> USE DEF ServiceInv
<1>1. /\ step[t] = "check" /\ pc[t] \in {"true", "false", "error"}
      /\ UNCHANGED <<poolVars, req, began, cfg, faults>>
      /\ ThreadOK(t) /\ Local /\ Dict!TypeOK' /\ Dict!TypeOK
      /\ AfterCheck(t)
  BY TableNext DEF Checked, TypeOK, ThreadOK, Routed, Dict!Results
<1>2. AccountsKept /\ account' = account /\ generation' = generation
  BY <1>1, SameAccounts DEF poolVars
<1>3. /\ pc'[t] = "idle"
      /\ \A s \in Threads \ {t} :
           pc'[s] = pc[s] /\ call'[s] = call[s] /\ held'[s] = held[s]
      /\ UNCHANGED <<entry, accepted>>
  BY <1>1 DEF Checked, Dict!TypeOK, Dict!Return, Dict!Goto
<1>4. /\ faults' \in 0..MaxFaults /\ cfg' \in [Threads -> Nat]
      /\ account' \in [Accounts -> Profiles \cup {None}]
  BY <1>1, <1>2 DEF TypeOK
<1>5. CASE pc[t] = "true"
  <2>1. Goto(t, "adminconfirm")
    BY <1>1, <1>5 DEF AfterCheck
  <2>2. OwnCode(t)'
    BY <1>1, <1>3, <1>5 DEF ThreadOK, Checking, OwnCode
  <2>3. ThreadOK(t)'
    BY <1>1, <1>2, <2>1, <2>2 DEF ThreadOK, Routed, Dated, Checking, Known,
       Answered, TypeOK, Goto
  <2>4. TypeOK'
    BY <1>1, <1>2, <1>3, <1>4, <2>1, GotoType DEF Calls
  <2>5. OnlyThread(t)
    BY <1>1, <1>2, <1>3, <2>1, ShapeOfStep DEF OnlyThread
  <2> QED
    BY <1>1, <1>2, <2>3, <2>4, <2>5, OneThread
<1>6. CASE pc[t] # "true"
  <2>1. PICK status \in {400, 500} : Reply(t, status, None)
    BY <1>1, <1>6 DEF AfterCheck
  <2>2. ThreadOK(t)'
    BY <1>1, <1>2, <2>1, ReplyOK
  <2>3. TypeOK'
    BY <1>1, <1>2, <1>3, <1>4, <2>1, ReplyType
  <2>4. OnlyThread(t)
    BY <1>1, <1>2, <1>3, <2>1, ShapeOfStep DEF OnlyThread
  <2> QED
    BY <1>1, <1>2, <2>2, <2>3, <2>4, OneThread
<1> QED
  BY <1>5, <1>6

LEMMA TickKeeps ==
  ASSUME ServiceInv, [Next]_vars, Tick
  PROVE  ServiceInv'
<1> USE DEF ServiceInv
<1>1. /\ UNCHANGED <<entry, store, pc, call, held, accepted, latest>>
      /\ UNCHANGED <<poolVars, step, req, began, cfg, reply, faults>>
  BY DEF Tick, Dict!Tick
<1>2. TypeOK' /\ Table!Inv'
  BY <1>1, TableNext DEF TypeOK, poolVars
<1>3. ~Local => \A k \in Keys' : store'[k] = None
  BY <1>1 DEF Keys, Dict!Keys
<1>4. \A t \in Threads : ThreadOK(t)'
  BY <1>1 DEF ThreadOK, Routed, Dated, Checking, OwnCode, Known, Answered,
     Exists, Confirmed, User, poolVars
<1> QED
  BY <1>2, <1>3, <1>4

LEMMA RestartKeeps ==
  ASSUME ServiceInv, [Next]_vars, Restart
  PROVE  ServiceInv'
<1> USE DEF ServiceInv, Restart
<1>1. TypeOK'
  <2>1. pc' = [t \in Threads |-> "idle"] /\ faults' \in 0..MaxFaults
    BY PoolAssumption DEF Dict!Restart, TypeOK
  <2> QED
    BY <2>1, TableNext DEF TypeOK, poolVars
<1>2. Table!Inv'
  BY TableNext
<1>3. ~Local => \A k \in Keys' : store'[k] = None
  BY DEF Dict!Restart, Keys, Dict!Keys
<1>4. \A t \in Threads : ThreadOK(t)'
  BY DEF ThreadOK, Routed, Dated, Checking, Known, Answered, TypeOK, poolVars
<1> QED
  BY <1>1, <1>2, <1>3, <1>4

\* The emulator's data is another generation's: what was known of it is
\* about requests that hold other IDs.
LEMMA RecreateKeeps ==
  ASSUME ServiceInv, [Next]_vars, Recreate
  PROVE  ServiceInv'
<1> USE DEF ServiceInv, Recreate
<1>1. TypeOK'
  BY TableNext, PoolAssumption DEF TypeOK, dictVars
<1>2. Table!Inv'
  BY TableNext
<1>3. ~Local => \A k \in Keys' : store'[k] = None
  OBVIOUS
<1>4. ASSUME NEW t \in Threads PROVE ThreadOK(t)'
  <2>1. cfg'[t] # generation' /\ generation \in Nat /\ began[t] \in Nat /\ cfg[t] \in Nat
    BY DEF TypeOK, ThreadOK, Dated
  <2>2. Routed(t)' /\ Dated(t)' /\ Checking(t)'
    BY <2>1 DEF ThreadOK, Routed, Dated, Checking, OwnCode, dictVars
  <2>3. Known(t)'
    BY <2>1 DEF ThreadOK, Known, Routed, OwnCode, Answered, dictVars
  <2> QED
    BY <2>2, <2>3 DEF ThreadOK
<1> QED
  BY <1>1, <1>2, <1>3, <1>4

-----------------------------------------------------------------------------
(* The theorems                                                            *)

LEMMA ServiceInit == Init => ServiceInv
<1> SUFFICES ASSUME Init PROVE ServiceInv
  OBVIOUS
<1> USE DEF Init
<1>1. Table!Inv
  BY DictIsTable, TableAssumptions, Table!InvInit
<1>2. TypeOK
  <2>1. Dict!TypeOK
    BY <1>1, DictIsTable DEF Table!Inv
  <2>2. \A t \in Threads : pc[t] = "idle"
    BY DEF Dict!Init
  <2> QED
    BY <2>1, <2>2, PoolAssumption DEF TypeOK
<1>3. \A k \in Keys : store[k] = None
  BY DEF Dict!Init, Keys
<1>4. \A t \in Threads : ThreadOK(t)
  BY DEF ThreadOK, Routed, Dated, Checking, Known, Answered
<1> QED
  BY <1>1, <1>2, <1>3, <1>4 DEF ServiceInv

LEMMA ServiceNext == ServiceInv /\ [Next]_vars => ServiceInv'
<1> SUFFICES ASSUME ServiceInv, [Next]_vars PROVE ServiceInv'
  OBVIOUS
<1>1. ASSUME NEW t \in Threads, NEW r \in Requests, Request(t, r)
      PROVE  ServiceInv'
  BY <1>1, RequestKeeps
<1>2. ASSUME NEW t \in Threads, Work(t) PROVE ServiceInv'
  BY <1>2, DiscoverKeeps, SignUpKeeps, AdminGetUserKeeps, ResendKeeps, IssueKeeps,
     CheckKeeps, CheckedKeeps, AdminConfirmKeeps, ConfirmKeeps, InitiateAuthKeeps
     DEF Work
<1>3. ASSUME NEW t \in Threads, Deliver(t) PROVE ServiceInv'
  BY <1>3, DeliverKeeps
<1>4. CASE Tick
  BY <1>4, TickKeeps
<1>5. CASE Restart
  BY <1>5, RestartKeeps
<1>6. CASE Recreate
  BY <1>6, RecreateKeeps
<1>7. CASE UNCHANGED vars
  <2>1. TypeOK' /\ Table!Inv'
    BY <1>7, TableNext DEF ServiceInv, TypeOK, vars, dictVars, poolVars
  <2>2. ~Local => \A k \in Keys' : store'[k] = None
    BY <1>7 DEF ServiceInv, Keys, Dict!Keys, vars, dictVars
  <2>3. \A t \in Threads : ThreadOK(t)'
    BY <1>7 DEF ServiceInv, ThreadOK, Routed, Dated, Checking, OwnCode, Known,
       Answered, Exists, Confirmed, User, vars, dictVars, poolVars
  <2> QED
    BY <2>1, <2>2, <2>3 DEF ServiceInv
<1> QED
  BY <1>1, <1>2, <1>3, <1>4, <1>5, <1>6, <1>7 DEF Next

LEMMA ServiceInvariance == Spec => []ServiceInv
BY ServiceInit, ServiceNext, PTL DEF Spec

\* Every variable keeps its type, and a thread that checks a code, has a
\* request or has its answer is at the step that goes with it.
THEOREM ServiceTypeCorrect == Spec => []TypeOK
BY ServiceInvariance, PTL DEF ServiceInv

\* However the routes' calls fail, are refused, interleave or lose their
\* answers, the codes the routes issue and check behave as LocalCodes allows.
THEOREM RoutesUseTable == Spec => Dict!Spec
<1>1. Init => Dict!Init
  BY DEF Init
<1> QED
  BY <1>1, ServiceTypeCorrect, DictSteps, PTL DEF Spec, Dict!Spec, Dict!vars, dictVars

\* A confirmation answered 200 did confirm the account (main.py:312-330),
\* whatever was lost, retried or confirmed by another request meanwhile.
THEOREM OkIsConfirmed == Spec => []OkMeansConfirmed
<1>1. ServiceInv => OkMeansConfirmed
  BY DEF ServiceInv, ThreadOK, Known, OkMeansConfirmed
<1> QED
  BY <1>1, ServiceInvariance, PTL

\* With the emulator a registration answered 409 is one of a confirmed
\* account (main.py:281-304); with AWS it is not, as a run shows.
THEOREM LocalConflictIsConfirmed == Spec => [](Local => ConflictMeansConfirmed)
<1>1. ServiceInv => (Local => ConflictMeansConfirmed)
  BY DEF ServiceInv, ThreadOK, Known, ConflictMeansConfirmed
<1> QED
  BY <1>1, ServiceInvariance, PTL

\* A request whose IDs are stale came in before the emulator's data was
\* recreated: it is asked for its IDs on each request (main.py:74-76).
THEOREM StaleIsInFlight == Spec => []StaleOnlyInFlight
<1>1. ServiceInv => StaleOnlyInFlight
  BY DEF ServiceInv, TypeOK, ThreadOK, Dated, StaleOnlyInFlight, Calls
<1> QED
  BY <1>1, ServiceInvariance, PTL

\* With AWS Cognito no code is ever kept or shown (main.py:38-40).
THEOREM AwsShowsNoCode == Spec => []NoCodeOfAws
<1>1. ServiceInv => NoCodeOfAws
  BY DEF ServiceInv, ThreadOK, NoCodeOfAws
<1> QED
  BY <1>1, ServiceInvariance, PTL

\* With the emulator an account becomes confirmed only by a request that
\* submitted, for its own address, a code issued for that address and taken
\* by the request's check (main.py:178-187, 313-321).
THEOREM OwnCodeConfirms == Spec => ConfirmedByOwnCode
<1>1. ServiceInv /\ [Next]_vars =>
        [\A u \in Accounts :
           Local /\ ~Confirmed(u) /\ Confirmed(u)' => Vouched(u)]_vars
  <2> SUFFICES ASSUME ServiceInv, Next, NEW u \in Accounts, Local,
                      ~Confirmed(u), Confirmed(u)'
               PROVE  Vouched(u)
    OBVIOUS
  <2>1. PICK t \in Threads :
          \/ SignUp(t) \/ AdminGetUser(t) \/ ResendConfirmationCode(t)
          \/ AdminConfirmSignUp(t) \/ ConfirmSignUp(t) \/ InitiateAuth(t)
    <3>1. account' # account
      BY DEF Confirmed, Exists
    <3>2. ~Recreate
      <4>1. Recreate => ~Exists(u)'
        BY DEF Recreate, Exists
      <4> QED
        BY <4>1 DEF Confirmed
    <3> QED
      BY <3>1, <3>2 DEF Next, Work, Request, Deliver, Discover, IssueLocalCode,
         CheckLocalCode, Checked, Tick, Restart, poolVars
  <2>2. /\ ThreadOK(t) /\ TypeOK /\ step[t] # "idle" /\ User(t) \in Accounts
        /\ step[t] \notin {"resend", "confirmsignup"}
    BY <2>1, Served DEF ServiceInv, ThreadOK, Routed, SignUp, AdminGetUser,
       ResendConfirmationCode, AdminConfirmSignUp, ConfirmSignUp, InitiateAuth
  <2>3. ~(AdminGetUser(t) \/ InitiateAuth(t))
    <3>1. AdminGetUser(t) \/ InitiateAuth(t) => account' = account
      BY DEF AdminGetUser, InitiateAuth, CognitoCall
    <3> QED
      BY <3>1 DEF Confirmed, Exists
  <2>4. ~SignUp(t)
    <3>1. SUFFICES ASSUME SignUp(t) PROVE FALSE
      OBVIOUS
    <3>2. account' # account
      BY DEF Confirmed, Exists
    <3>3. account' \in NewAccounts(t)
      BY <3>1, <3>2 DEF SignUp, CognitoCall
    <3>4. PICK code : account' = [account EXCEPT ![User(t)] =
            [status |-> "UNCONFIRMED", password |-> req[t].secret, code |-> code]]
      BY <3>3 DEF NewAccounts
    <3> QED
      BY <2>2, <3>4 DEF Confirmed, Exists, TypeOK
  <2>5. AdminConfirmSignUp(t) /\ step[t] = "adminconfirm"
    BY <2>1, <2>2, <2>3, <2>4
       DEF AdminConfirmSignUp, ResendConfirmationCode, ConfirmSignUp
  <2>6. User(t) = u
    <3>1. account' # account
      BY DEF Confirmed, Exists
    <3>2. Succeeds(t, ConfirmRefusals(t), {With(User(t), "status", "CONFIRMED")})
      BY <2>5, <3>1 DEF AdminConfirmSignUp, CognitoCall, Succeeds
    <3>3. Exists(User(t))
      BY <3>2 DEF Succeeds, ConfirmRefusals, Errors
    <3>4. \A v \in Accounts \ {User(t)} : account'[v] = account[v]
      BY <2>2, <3>2, <3>3, ConfirmedOne DEF Succeeds
    <3> QED
      BY <3>4 DEF Confirmed, Exists
  <2>7. OwnCode(t)
    BY <2>2, <2>5 DEF ThreadOK, Known
  <2> QED
    BY <2>5, <2>6, <2>7 DEF Vouched, OwnCode
<1> QED
  BY <1>1, ServiceInvariance, PTL DEF Spec, ConfirmedByOwnCode
=============================================================================
