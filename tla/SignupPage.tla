----------------------------- MODULE SignupPage -----------------------------
(***************************************************************************)
(* The Cognito sign-up and sign-in of script.js, one page per user, on top *)
(* of the routes of CognitoService.  The page is the only client: every    *)
(* request of this specification is one a page makes.                      *)
(*                                                                         *)
(* The user is part of the system: they follow the advice of the last      *)
(* message, submit the code they were given, and may slip a bounded number *)
(* of times (mistype the code, or close the prompt).                       *)
(***************************************************************************)
EXTENDS Integers, FiniteSets

CONSTANTS
  Threads, Emails, Lower, Codes, Texts, Strip, NonAscii, Entries,
  TTL, MaxAttempts, MaxNow, None, Local, Username, Passwords, Weak,
  Challenged, MaxFaults,   \* see CognitoService
  Pages,
  PageEmail,      \* [Pages -> Emails]: the address of the page's user
  PagePasswords,  \* [Pages -> passwords the user may choose at a sign-up]
  MaxPrompts,     \* prompts for the code in one sign-up
  MaxSlips        \* bound of the model: slips of all users in a run

ASSUME PagesAssumption ==
  /\ PageEmail \in [Pages -> Emails]
  /\ PagePasswords \in [Pages -> SUBSET Passwords]
  /\ MaxPrompts \in Nat \ {0}
  /\ MaxSlips \in Nat
ASSUME ThreadsAssumption == None \notin Threads

VARIABLES
  entry, store, now, pc, call, held, seen, tried, accepted, latest,
  account, generation, step, req, began, cfg, reply, faults,
  at,        \* [Pages -> where the handler of the click is]
  job,       \* [Pages -> the thread serving its fetch, None if it failed]
  password,  \* [Pages -> the password of the current or last attempt, or None]
  shown,     \* [Pages -> the code in the prompt, or None]
  attempt,   \* [Pages -> prompts so far in this sign-up]
  advice,    \* [Pages -> what the last message tells the user to choose]
  session,   \* [Pages -> whose token is stored: the address, or None]
  vouched,   \* history: [Pages -> this sign-up's confirmation was answered 200]
  slips

apiVars  == <<entry, store, now, pc, call, held, seen, tried, accepted, latest,
              account, generation, step, req, began, cfg, reply, faults>>
formVars == <<password, shown, attempt, vouched>>
pageVars == <<at, job, formVars, advice, session, slips>>
vars == <<apiVars, pageVars>>

Api == INSTANCE CognitoService

ASSUME ApiAssumption ==
  /\ Api!ModeAssumption
  /\ Api!PoolAssumption
  /\ Api!DictAssumption
  /\ Api!NoneAssumption

Account(p) == Username[PageEmail[p]]

Waiting == {"registering", "confirming", "signingin", "loggingin"}

TypeOK ==
  /\ Api!TypeOK
  /\ at \in [Pages -> Waiting \cup {"home", "prompt", "signin"}]
  /\ job \in [Pages -> Threads \cup {None}]
  /\ password \in [Pages -> Passwords \cup {None}]
  /\ shown \in [Pages -> Codes \cup {None}]
  /\ attempt \in [Pages -> 0..MaxPrompts]
  /\ advice \in [Pages -> {"signup", "login"}]
  /\ session \in [Pages -> Emails \cup {None}]
  /\ vouched \in [Pages -> BOOLEAN]
  /\ slips \in 0..MaxSlips
  /\ \A p \in Pages : job[p] # None =>
       /\ at[p] \in Waiting
       /\ step[job[p]] # "idle"
       /\ req[job[p]].email = PageEmail[p]
       /\ \A q \in Pages \ {p} : job[q] # job[p]

Init ==
  /\ Api!Init
  /\ at = [p \in Pages |-> "home"]
  /\ job = [p \in Pages |-> None]
  /\ password = [p \in Pages |-> None]
  /\ shown = [p \in Pages |-> None]
  /\ attempt = [p \in Pages |-> 0]
  /\ advice = [p \in Pages |-> "signup"]
  /\ session = [p \in Pages |-> None]
  /\ vouched = [p \in Pages |-> FALSE]
  /\ slips = 0

-----------------------------------------------------------------------------
Goto(p, place) == at' = [at EXCEPT ![p] = place]

\* postAuthRequest: a thread takes the request, the page waits.
Post(p, route, secret, place) ==
  /\ \E t \in Threads :
       /\ Api!Request(t, [route |-> route, email |-> PageEmail[p],
                          secret |-> secret])
       /\ job' = [job EXCEPT ![p] = t]
  /\ Goto(p, place)

\* The answer is there: the page reads it and the thread is free again.
Receive(p, place) ==
  /\ at[p] = place
  /\ job[p] # None
  /\ Api!Deliver(job[p])
  /\ job' = [job EXCEPT ![p] = None]

Status(p) == reply[job[p]].status

\* The handler ends with a message that advises the user.
Home(p, told) ==
  /\ Goto(p, "home")
  /\ advice' = [advice EXCEPT ![p] = told]

Slip == slips < MaxSlips /\ slips' = slips + 1

-----------------------------------------------------------------------------
(* The handler of the sign-up button                                       *)

\* A password the page's own policy check refuses is not sent.
StartSignup(p) ==
  /\ at[p] = "home"
  /\ session[p] = None
  /\ advice[p] = "signup"
  /\ \E pw \in PagePasswords[p] \ Weak :
       /\ Post(p, "register", pw, "registering")
       /\ password' = [password EXCEPT ![p] = pw]
  /\ shown' = [shown EXCEPT ![p] = None]
  /\ attempt' = [attempt EXCEPT ![p] = 0]
  /\ vouched' = [vouched EXCEPT ![p] = FALSE]
  /\ UNCHANGED <<advice, session, slips>>

RegisteredAdviseAgain(p) ==
  /\ Receive(p, "registering")
  /\ \/ /\ Status(p) = 200
        /\ Goto(p, "prompt")
        /\ shown' = [shown EXCEPT ![p] = reply[job[p]].code]
        /\ attempt' = [attempt EXCEPT ![p] = 1]
        /\ UNCHANGED advice
     \/ /\ Status(p) # 200
        /\ Home(p, "signup")
        /\ UNCHANGED <<shown, attempt>>
  /\ UNCHANGED <<password, vouched, session, slips>>
Registered(p) ==
  /\ Receive(p, "registering")
  /\ \/ /\ Status(p) = 200
        /\ Goto(p, "prompt")
        /\ shown' = [shown EXCEPT ![p] = reply[job[p]].code]
        /\ attempt' = [attempt EXCEPT ![p] = 1]
        /\ UNCHANGED advice
     \/ /\ Status(p) = 409
        /\ Home(p, "login")
        /\ UNCHANGED <<shown, attempt>>
     \/ /\ Status(p) \notin {200, 409}
        /\ Home(p, "signup")
        /\ UNCHANGED <<shown, attempt>>
  /\ UNCHANGED <<password, vouched, session, slips>>

\* The code the user has before them: in the prompt, or in the last mail.
CodeAtHand(p) ==
  IF Local THEN shown[p] ELSE account[Account(p)].code

SubmitCode(p) ==
  /\ at[p] = "prompt"
  /\ \E text \in Texts :
       /\ Post(p, "confirm", text, "confirming")
       /\ IF Strip[text] = CodeAtHand(p) THEN UNCHANGED slips ELSE Slip
  /\ UNCHANGED <<formVars, advice, session>>

ClosePrompt(p) ==
  /\ at[p] = "prompt"
  /\ Slip
  /\ Home(p, "signup")
  /\ UNCHANGED <<apiVars, job, formVars, session>>

\* Only a 400 is asked about again.
MayRetryForever(p) == Status(p) = 400
MayRetryOnceMore(p) == Status(p) = 400 /\ attempt[p] <= MaxPrompts
MayRetry(p) == Status(p) = 400 /\ attempt[p] < MaxPrompts

Confirmed(p) ==
  /\ Receive(p, "confirming")
  /\ \/ /\ Status(p) = 200
        /\ Goto(p, "signin")
        /\ vouched' = [vouched EXCEPT ![p] = TRUE]
        /\ UNCHANGED <<attempt, advice>>
     \/ /\ Status(p) # 200
        /\ MayRetry(p)
        /\ Goto(p, "prompt")
        /\ attempt' = [attempt EXCEPT ![p] = @ + 1]
        /\ UNCHANGED <<vouched, advice>>
     \/ /\ Status(p) # 200
        /\ ~MayRetry(p)
        /\ Home(p, "signup")
        /\ UNCHANGED <<vouched, attempt>>
  /\ UNCHANGED <<password, shown, session, slips>>

SignIn(p) ==
  /\ at[p] = "signin"
  /\ Post(p, "login", password[p], "signingin")
  /\ UNCHANGED <<formVars, advice, session, slips>>

SaveSession(p) == session' = [session EXCEPT ![p] = PageEmail[p]]

SignedIn(p) ==
  /\ Receive(p, "signingin")
  /\ Home(p, "login")
  /\ IF Status(p) = 200 THEN SaveSession(p) ELSE UNCHANGED session
  /\ UNCHANGED <<formVars, slips>>

-----------------------------------------------------------------------------
(* The handler of the log-in button                                        *)

StartLogin(p) ==
  /\ at[p] = "home"
  /\ session[p] = None
  /\ advice[p] = "login"
  /\ Post(p, "login", password[p], "loggingin")
  /\ UNCHANGED <<formVars, advice, session, slips>>

\* A 403 advises to sign up again for a new code.  A 401 only reminds the
\* user to confirm the code they were sent: they try the login again.
LoggedIn(p) ==
  /\ Receive(p, "loggingin")
  /\ Home(p, IF Status(p) = 403 THEN "signup" ELSE "login")
  /\ IF Status(p) = 200 THEN SaveSession(p) ELSE UNCHANGED session
  /\ UNCHANGED <<formVars, slips>>

\* fetch rejects: the page shows that the server could not be reached.
NetworkError(p) ==
  /\ at[p] \in Waiting
  /\ job[p] = None
  /\ Goto(p, "home")
  /\ UNCHANGED <<apiVars, job, formVars, advice, session, slips>>

-----------------------------------------------------------------------------
Page(p) ==
  \/ StartSignup(p)
  \/ Registered(p)
  \/ SubmitCode(p)
  \/ Confirmed(p)
  \/ SignIn(p)
  \/ SignedIn(p)
  \/ StartLogin(p)
  \/ LoggedIn(p)
  \/ NetworkError(p)

Server == \E t \in Threads : Api!Work(t)

\* A restart of the backend breaks the connections of the pages.
Restart ==
  /\ Api!Restart
  /\ job' = [p \in Pages |-> None]
  /\ UNCHANGED <<at, formVars, advice, session, slips>>

Next ==
  \/ \E p \in Pages : Page(p) \/ ClosePrompt(p)
  \/ Server /\ UNCHANGED pageVars
  \/ (Api!Tick \/ Api!Recreate) /\ UNCHANGED pageVars
  \/ Restart

Spec == Init /\ [][Next]_vars

\* The server's threads run, the browser runs the handlers, and the user
\* goes on until they are signed in.  Nothing is assumed of slips, of the
\* clock or of faults.
FairSpec ==
  /\ Spec
  /\ \A t \in Threads : WF_vars(Api!Work(t) /\ UNCHANGED pageVars)
  /\ \A p \in Pages : WF_vars(Page(p))

-----------------------------------------------------------------------------
(* Properties                                                              *)

\* One page per address: nobody else tries the code of a sign-up.
OnePage ==
  \A p, q \in Pages : Lower[PageEmail[p]] = Lower[PageEmail[q]] => p = q

\* With one page per address, a sign-up never uses up the attempts of its
\* code: MaxPrompts of script.js:181 stays below the limit of main.py:181.
NeverUsedUp ==
  \A e \in Entries : entry[e] # None => entry[e].attempts <= MaxPrompts

\* Users with one password: whoever signs up for an account chooses the same
\* one every time.  An account keeps that of its first sign-up.
OnePassword ==
  \A p, q \in Pages : Account(p) = Account(q) =>
    \A pw1 \in PagePasswords[p], pw2 \in PagePasswords[q] : pw1 = pw2

\* The accounts of the users ask for no more than a password.
Unchallenged == \A p \in Pages : Account(p) \notin Challenged

\* A sign-up whose confirmation was answered 200 is not told afterwards that
\* its email or password is incorrect, or its address unconfirmed, unless the
\* emulator's data was recreated: script.js:251 signs in with what it has.
\* For users with one password and accounts that ask for no more.
ConfirmedSignsIn ==
  \A p \in Pages :
    /\ vouched[p]
    /\ at[p] = "signingin"
    /\ job[p] # None
    /\ reply[job[p]] # None
    /\ generation = 0
    => reply[job[p]].status \notin {401, 403}

\* The user was told to log in, and the emulator's data was recreated
\* meanwhile: their account is gone, and the 401 does not say so.
Stranded(p) ==
  generation > 0 /\ advice[p] = "login" /\ account[Account(p)] = None

\* A user who follows the messages ends up signed in: no outage, restart,
\* lost answer, expired code or typing error leaves them with advice that
\* leads nowhere (main.py:284, "instead of leaving the user stuck"); only
\* data that is recreated after they were told to log in does.
GetsIn ==
  \A p \in Pages : <>(session[p] # None) \/ <>[]Stranded(p)
=============================================================================
