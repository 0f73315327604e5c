--------------------------- MODULE CognitoService ---------------------------
(***************************************************************************)
(* The three Cognito routes of main.py: register, confirm and sign-in, run *)
(* by a pool of threads against a user pool that is either the local       *)
(* emulator (Local, with the codes of LocalCodes) or AWS Cognito, which    *)
(* mails and checks the codes itself.  One action per call to Cognito: the *)
(* call may not get through, may be refused, may take effect, and may take *)
(* effect although its answer never arrives.                               *)
(*                                                                         *)
(* The user pool is external: account says what the routes can observe of  *)
(* it through the six calls they make.                                     *)
(***************************************************************************)
EXTENDS Integers, FiniteSets

CONSTANTS
  Threads, Emails, Lower, Codes, Texts, Strip, NonAscii, Entries,
  TTL, MaxAttempts, MaxNow, None,   \* see LocalCodes
  Local,        \* is_local_cognito()
  Username,     \* [Emails -> the pool's name of the account: exact or folded]
  Passwords,
  Weak,         \* passwords the pool's policy refuses
  Challenged,   \* accounts whose sign-in asks for more than a password
  MaxFaults     \* bound of the model: outages, restarts and resets in a run

Accounts == {Username[email] : email \in Emails}

ASSUME ModeAssumption == Local \in BOOLEAN
ASSUME PoolAssumption ==
  /\ Username \in [Emails -> Accounts]
  /\ Weak \subseteq Passwords
  /\ Challenged \subseteq Accounts
  /\ MaxFaults \in Nat

VARIABLES
  entry, store, now, pc, call, held, seen, tried, accepted,
  latest,      \* these ten are of LocalCodes
  account,     \* the pool: [Accounts -> status, password and mailed code]
  generation,  \* which data the emulator has: its volume can be recreated
  step,        \* [Threads -> the step of the route the thread runs]
  req,         \* [Threads -> the request it serves, or None]
  began,       \* history: [Threads -> generation when the request came in]
  cfg,         \* [Threads -> generation of the pool and client IDs it uses]
  reply,       \* [Threads -> the HTTP answer, once there is one, or None]
  faults       \* outages, restarts and resets so far

dictVars ==
  <<entry, store, now, pc, call, held, seen, tried, accepted, latest>>
poolVars == <<account, generation>>
vars == <<dictVars, poolVars, step, req, began, cfg, reply, faults>>

Dict == INSTANCE LocalCodes

ASSUME DictAssumption ==
  /\ Dict!ThreadsAssumption
  /\ Dict!NumbersAssumption
  /\ Dict!NoneAssumption
  /\ Dict!FunctionsAssumption

Keys   == Dict!Keys
Routes == {"register", "confirm", "login"}
Calls  == {"discover", "signup", "getuser", "resend", "adminconfirm",
           "confirmsignup", "auth"}

Requests ==
  [route : {"register", "login"}, email : Emails, secret : Passwords]
    \cup [route : {"confirm"}, email : Emails, secret : Texts]

\* What the pool keeps of an account (code: the one mailed last), and what a
\* route answers (code: the one it shows).
Profiles == [status : {"UNCONFIRMED", "CONFIRMED"}, password : Passwords,
             code : Codes \cup {None}]
Replies  == [status : {200, 400, 401, 403, 409, 500, 503},
             code : Codes \cup {None}]

ASSUME NoneAssumption == None \notin Requests \cup Profiles \cup Replies

User(t) == Username[req[t].email]

TypeOK ==
  /\ Dict!TypeOK
  /\ account \in [Accounts -> Profiles \cup {None}]
  /\ generation \in Nat
  /\ step \in [Threads -> Calls \cup {"idle", "issue", "check", "replied"}]
  /\ req \in [Threads -> Requests \cup {None}]
  /\ began \in [Threads -> Nat]
  /\ cfg \in [Threads -> Nat]
  /\ reply \in [Threads -> Replies \cup {None}]
  /\ faults \in 0..MaxFaults
  /\ \A t \in Threads :
       /\ (step[t] = "idle") = (req[t] = None)
       /\ (step[t] = "replied") = (reply[t] # None)
       /\ pc[t] # "idle" => step[t] = "check"

Init ==
  /\ Dict!Init
  /\ account = [u \in Accounts |-> None]
  /\ generation = 0
  /\ step = [t \in Threads |-> "idle"]
  /\ req = [t \in Threads |-> None]
  /\ began = [t \in Threads |-> 0]
  /\ cfg = [t \in Threads |-> 0]
  /\ reply = [t \in Threads |-> None]
  /\ faults = 0

-----------------------------------------------------------------------------
(* Answers to the client, and the outcome of a call to Cognito             *)

Goto(t, s) == step' = [step EXCEPT ![t] = s] /\ UNCHANGED reply

Reply(t, status, code) ==
  /\ step' = [step EXCEPT ![t] = "replied"]
  /\ reply' = [reply EXCEPT ![t] = [status |-> status, code |-> code]]

\* raise_http_from_cognito; an error it does not name keeps its own status.
Http(error) ==
  CASE error = "UsernameExistsException"     -> 409
    [] error \in {"CodeMismatchException", "ExpiredCodeException"} -> 400
    [] error \in {"NotAuthorizedException", "UserNotFoundException"} -> 401
    [] error = "UserNotConfirmedException"   -> 403
    [] error \in {"InvalidPasswordException", "InvalidParameterException",
                  "ResourceNotFoundException"} -> 400
    [] error = "ServiceUnavailable"          -> 503

\* What the routes do with an error.  Registration looks into an account
\* that exists; whatever goes wrong with resending its code, the answer is
\* that of the sign-up; the IDs that cannot be discovered are a 503.
OnErrorSwallowed(t, error) ==
  IF step[t] \in {"confirmsignup", "adminconfirm"} THEN Reply(t, 200, None)
  ELSE Reply(t, Http(error), None)
OnError(t, error) ==
  CASE step[t] = "signup" /\ error = "UsernameExistsException" ->
         Goto(t, IF Local THEN "getuser" ELSE "resend")
    [] step[t] = "resend"   -> Reply(t, Http("UsernameExistsException"), None)
    [] step[t] = "discover" -> Reply(t, 503, None)
    [] OTHER                -> Reply(t, Http(error), None)

\* cognito_api: a call that would be refused with one of refusals, or else
\* leaves the pool in one of effects.  A ServiceUnavailable says nothing of
\* whether the call took effect.  Done is what the route does on success.
CognitoCall(t, refusals, effects, Done) ==
  \/ /\ faults < MaxFaults
     /\ faults' = faults + 1
     /\ OnError(t, "ServiceUnavailable")
     /\ UNCHANGED account
  \/ /\ cfg[t] # generation
     /\ OnError(t, "ResourceNotFoundException")
     /\ UNCHANGED <<account, faults>>
  \/ /\ cfg[t] = generation
     /\ \E error \in refusals : OnError(t, error)
     /\ UNCHANGED <<account, faults>>
  \/ /\ cfg[t] = generation
     /\ refusals = {}
     /\ account' \in effects
     /\ \/ Done /\ UNCHANGED faults
        \/ /\ faults < MaxFaults
           /\ faults' = faults + 1
           /\ OnError(t, "ServiceUnavailable")

Errors(condition, error) == IF condition THEN {error} ELSE {}

Exists(u)    == account[u] # None
Confirmed(u) == Exists(u) /\ account[u].status = "CONFIRMED"

With(u, field, value) == [account EXCEPT ![u][field] = value]

-----------------------------------------------------------------------------
(* A request comes in, and its answer goes out                             *)

\* Bound of the model: a registration is let in only if an entry is left
\* for the code it may issue.
RoomForCode ==
  Cardinality({t \in Threads : req[t] # None /\ req[t].route = "register"
                               /\ step[t] # "replied"})
    < Cardinality(Dict!Unmade)

Request(t, r) ==
  /\ step[t] = "idle"
  /\ r.route = "register" /\ Local => RoomForCode
  /\ req' = [req EXCEPT ![t] = r]
  /\ began' = [began EXCEPT ![t] = generation]
  /\ Goto(t, "discover")
  /\ UNCHANGED <<dictVars, poolVars, cfg, faults>>

Deliver(t) ==
  /\ step[t] = "replied"
  /\ step' = [step EXCEPT ![t] = "idle"]
  /\ req' = [req EXCEPT ![t] = None]
  /\ began' = [began EXCEPT ![t] = 0]
  /\ cfg' = [cfg EXCEPT ![t] = 0]
  /\ reply' = [reply EXCEPT ![t] = None]
  /\ UNCHANGED <<dictVars, poolVars, faults>>

\* cognito_configuration: the emulator is asked for its IDs on every request
\* (those of AWS are in the environment), then the route makes its first call.
\* It fails if the emulator is out of reach or has no pool or client, or if
\* the environment lacks an ID of AWS.
FirstStep(t) ==
  CASE req[t].route = "register" -> "signup"
    [] req[t].route = "login"    -> "auth"
    [] req[t].route = "confirm"  -> IF Local THEN "check" ELSE "confirmsignup"

DiscoverOnce(t) ==
  /\ step[t] = "discover"
  /\ Goto(t, FirstStep(t))
  /\ IF req[t].route = "confirm" /\ Local
     THEN Dict!Call(t, req[t].email, req[t].secret)
     ELSE UNCHANGED dictVars
  /\ UNCHANGED <<poolVars, req, began, cfg, faults>>
Discover(t) ==
  /\ step[t] = "discover"
  /\ \/ /\ cfg' = [cfg EXCEPT ![t] = generation]
        /\ Goto(t, FirstStep(t))
        /\ IF req[t].route = "confirm" /\ Local
           THEN Dict!Call(t, req[t].email, req[t].secret)
           ELSE UNCHANGED dictVars
        /\ UNCHANGED faults
     \/ /\ faults < MaxFaults
        /\ faults' = faults + 1
        /\ OnError(t, "ServiceUnavailable")
        /\ UNCHANGED <<cfg, dictVars>>
  /\ UNCHANGED <<poolVars, req, began>>

-----------------------------------------------------------------------------
(* cognito_register                                                        *)

SignUpRefusals(t) ==
  Errors(Exists(User(t)), "UsernameExistsException")
    \cup Errors(req[t].secret \in Weak, "InvalidPasswordException")

\* The account the pool makes; AWS mails it a code of its own.
NewAccounts(t) ==
  {[account EXCEPT ![User(t)] =
      [status |-> "UNCONFIRMED", password |-> req[t].secret, code |-> code]] :
     code \in IF Local THEN {None} ELSE Codes}

SignUpIssues(t) ==
  /\ step[t] = "signup"
  /\ CognitoCall(t, SignUpRefusals(t), NewAccounts(t), Goto(t, "issue"))
  /\ UNCHANGED <<dictVars, generation, req, began, cfg>>
SignUp(t) ==
  /\ step[t] = "signup"
  /\ CognitoCall(t, SignUpRefusals(t), NewAccounts(t),
       IF Local THEN Goto(t, "issue") ELSE Reply(t, 200, None))
  /\ UNCHANGED <<dictVars, generation, req, began, cfg>>

AfterGetUserUnchecked(t) ==
  Reply(t, Http("UsernameExistsException"), None)
AfterGetUser(t) ==
  IF Confirmed(User(t)) THEN Reply(t, Http("UsernameExistsException"), None)
  ELSE Goto(t, "issue")

AdminGetUser(t) ==
  /\ step[t] = "getuser"
  /\ CognitoCall(t, Errors(~Exists(User(t)), "UserNotFoundException"),
                 {account}, AfterGetUser(t))
  /\ UNCHANGED <<dictVars, generation, req, began, cfg>>

ResendConfirmationCode(t) ==
  /\ step[t] = "resend"
  /\ CognitoCall(t, Errors(Confirmed(User(t)), "InvalidParameterException"),
                 {With(User(t), "code", code) : code \in Codes},
                 Reply(t, 200, None))
  /\ UNCHANGED <<dictVars, generation, req, began, cfg>>

\* issue_local_code, and the answer that shows the code.
IssueLocalCode(t) ==
  /\ step[t] = "issue"
  /\ \E code \in Codes :
       Dict!Issue(t, req[t].email, code) /\ Reply(t, 200, code)
  /\ UNCHANGED <<poolVars, req, began, cfg, faults>>

-----------------------------------------------------------------------------
(* cognito_confirm                                                         *)

\* A step of check_local_code.
CheckLocalCode(t) ==
  /\ step[t] = "check"
  /\ \/ Dict!Lookup(t)
     \/ Dict!Judge(t)
     \/ Dict!Drop(t)
     \/ Dict!Count(t)
     \/ Dict!Try(t)
     \/ Dict!Take(t)
  /\ UNCHANGED <<poolVars, step, req, began, cfg, reply, faults>>

\* Its answer; the TypeError of compare_digest is not caught (a 500).
AfterCheckIgnored(t) == Goto(t, "adminconfirm")
AfterCheckUnconfirmed(t) ==
  Reply(t, IF pc[t] = "true" THEN 200 ELSE 400, None)
AfterCheck(t) ==
  CASE pc[t] = "true"  -> Goto(t, "adminconfirm")
    [] pc[t] = "false" -> Reply(t, 400, None)
    [] pc[t] = "error" -> Reply(t, 500, None)

Checked(t) ==
  /\ step[t] = "check"
  /\ pc[t] \in Dict!Results
  /\ AfterCheck(t)
  /\ Dict!Return(t)
  /\ UNCHANGED <<poolVars, req, began, cfg, faults>>

ConfirmRefusals(t) ==
  Errors(~Exists(User(t)), "UserNotFoundException")
    \cup Errors(Confirmed(User(t)), "NotAuthorizedException")

AdminConfirmSignUp(t) ==
  /\ step[t] = "adminconfirm"
  /\ CognitoCall(t, ConfirmRefusals(t),
                 {With(User(t), "status", "CONFIRMED")}, Reply(t, 200, None))
  /\ UNCHANGED <<dictVars, generation, req, began, cfg>>

\* AWS compares the stripped text with the code it mailed last.
ConfirmSignUp(t) ==
  /\ step[t] = "confirmsignup"
  /\ CognitoCall(t,
       ConfirmRefusals(t) \cup
         Errors(Exists(User(t)) /\ account[User(t)].code # Strip[req[t].secret],
                "CodeMismatchException"),
       {With(User(t), "status", "CONFIRMED")}, Reply(t, 200, None))
  /\ UNCHANGED <<dictVars, generation, req, began, cfg>>

-----------------------------------------------------------------------------
(* cognito_login: an answer without an access token is a 401.              *)

LoginRefusals(t) ==
  LET u == User(t) IN
  Errors(~Exists(u), "UserNotFoundException")
    \cup Errors(Exists(u) /\ account[u].password # req[t].secret,
                "NotAuthorizedException")
    \cup Errors(Exists(u) /\ account[u].password = req[t].secret
                /\ ~Confirmed(u), "UserNotConfirmedException")

InitiateAuth(t) ==
  /\ step[t] = "auth"
  /\ CognitoCall(t, LoginRefusals(t), {account},
       Reply(t, IF User(t) \in Challenged THEN 401 ELSE 200, None))
  /\ UNCHANGED <<dictVars, generation, req, began, cfg>>

-----------------------------------------------------------------------------
(* The surroundings                                                        *)

Tick == Dict!Tick /\ UNCHANGED <<poolVars, step, req, began, cfg, reply, faults>>

\* The backend process is restarted: its codes and requests are lost.
Restart ==
  /\ faults < MaxFaults
  /\ faults' = faults + 1
  /\ Dict!Restart
  /\ step' = [t \in Threads |-> "idle"]
  /\ req' = [t \in Threads |-> None]
  /\ began' = [t \in Threads |-> 0]
  /\ cfg' = [t \in Threads |-> 0]
  /\ reply' = [t \in Threads |-> None]
  /\ UNCHANGED poolVars

\* The emulator's data is recreated, with a new pool and new IDs
\* (main.py:74-76); the backend and its codes stay.
Recreate ==
  /\ Local
  /\ faults < MaxFaults
  /\ faults' = faults + 1
  /\ generation' = generation + 1
  /\ account' = [u \in Accounts |-> None]
  /\ UNCHANGED <<dictVars, step, req, began, cfg, reply>>

Work(t) ==
  \/ Discover(t)
  \/ SignUp(t)
  \/ AdminGetUser(t)
  \/ ResendConfirmationCode(t)
  \/ IssueLocalCode(t)
  \/ CheckLocalCode(t)
  \/ Checked(t)
  \/ AdminConfirmSignUp(t)
  \/ ConfirmSignUp(t)
  \/ InitiateAuth(t)

Next ==
  \/ \E t \in Threads, r \in Requests : Request(t, r)
  \/ \E t \in Threads : Work(t) \/ Deliver(t)
  \/ Tick
  \/ Restart
  \/ Recreate

Spec == Init /\ [][Next]_vars

-----------------------------------------------------------------------------
(* Properties                                                              *)

Answered(t, route, status) ==
  step[t] = "replied" /\ req[t].route = route /\ reply[t].status = status

\* A registration answered 409 is one of a confirmed account: script.js:236
\* relies on it to tell the user to sign in, and offers no code.
ConflictMeansConfirmed ==
  \A t \in Threads :
    Answered(t, "register", 409) /\ cfg[t] = generation => Confirmed(User(t))

\* A confirmation answered 200 did confirm the account (script.js:186 goes on
\* to sign in), whatever was lost, retried or confirmed by another request.
OkMeansConfirmed ==
  \A t \in Threads :
    Answered(t, "confirm", 200) /\ cfg[t] = generation => Confirmed(User(t))

\* With the emulator an account becomes confirmed only by a request that
\* submitted, under the account's address, a live code issued for that
\* address up to case: its check took the code out of the dictionary.
Vouched(u) ==
  \E t \in Threads, e \in Entries :
    /\ step[t] = "adminconfirm"
    /\ User(t) = u
    /\ accepted[e] > 0
    /\ entry[e].key = Lower[req[t].email]
    /\ entry[e].code = Strip[req[t].secret]

ConfirmedByOwnCode ==
  [][\A u \in Accounts :
       Local /\ ~Confirmed(u) /\ Confirmed(u)' => Vouched(u)]_vars

\* Asking the emulator for its IDs on each request keeps a request from
\* using stale ones, unless the data is recreated while it runs
\* (main.py:74-76).
StaleOnlyInFlight ==
  \A t \in Threads :
    step[t] \in Calls \ {"discover"} /\ cfg[t] # generation
      => began[t] # generation

\* With AWS Cognito the API never has a code to show (main.py:38-40).
NoCodeOfAws ==
  ~Local => /\ \A k \in Keys : store[k] = None
            /\ \A t \in Threads : reply[t] # None => reply[t].code = None
=============================================================================
