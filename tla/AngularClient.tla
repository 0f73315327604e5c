--------------------------- MODULE AngularClient ----------------------------
(***************************************************************************)
(* The Angular client: AppComponent, with its template and its service, in *)
(* one browser tab.  A callback reads the fields of the component as they  *)
(* are when its answer arrives: while a request is out only the submit     *)
(* button is disabled.  The token is in the localStorage that other tabs   *)
(* write, too, and is read again for each load of the books.               *)
(*                                                                         *)
(* The server is external: it answers what it likes, and rejects with 401  *)
(* a token that is over.                                                   *)
(***************************************************************************)
EXTENDS Integers

CONSTANTS
  Users,        \* a user is named alike by address and username
  MaxLoads,     \* bound of the model: loads of books that are outstanding
  MaxSessions,  \* bound of the model: tokens the server hands out
  None

Slots  == 1..MaxLoads
Tokens == 1..MaxSessions

\* loginNative, loginCognito and registerNative are answered with a token,
\* registerCognito and confirmCognito with a message.
AuthRequests ==
  [kind : {"session"}, user : Users \cup {None}, token : Tokens \cup {None},
   answer : {None, "ok", "failed"}]
  \cup
  [kind : {"register", "confirm"}, user : Users \cup {None},
   answer : {None, "ok", "failed"}]

Loads == [token : Tokens, answer : {None, "ok", "401", "failed"}]

ASSUME ClientAssumption ==
  /\ MaxLoads \in Nat \ {0}
  /\ MaxSessions \in Nat
  /\ None \notin Users \cup Tokens \cup AuthRequests \cup Loads
  /\ None \notin {"ok", "401", "failed"}

VARIABLES
  owner,              \* [Tokens -> the user the server gave it to, or None]
  live,               \* the tokens the server accepts
  stored,             \* library_access_token in localStorage, or None
  authMode, registering, needsConfirmation, authenticated, busy, loading,
  username, email,    \* what the fields hold, or None
  books,              \* whose books the component holds, or None
  auth,               \* the outstanding sign-in, sign-up or confirmation
  load,               \* [Slots -> an outstanding load of books, or None]
  session,            \* history: the token the session began with, or None
  registered,         \* history: whom the confirmation form was opened for
  rushed,             \* history: the user acted while a request was out
  foreign             \* history: another tab has changed the token since

server  == <<owner, live>>
form    == <<authMode, registering, needsConfirmation>>
fields  == <<username, email>>
history == <<session, registered, rushed, foreign>>
vars    == <<server, stored, form, authenticated, busy, loading, fields, books,
             auth, load, history>>

TypeOK ==
  /\ owner \in [Tokens -> Users \cup {None}]
  /\ live \subseteq {k \in Tokens : owner[k] # None}
  /\ stored \in Tokens \cup {None}
  /\ authMode \in {"native", "cognito"}
  /\ {registering, needsConfirmation, authenticated, busy, loading, rushed,
      foreign} \subseteq BOOLEAN
  /\ {username, email, registered} \subseteq Users \cup {None}
  /\ books \in Users \cup {None}
  /\ auth \in AuthRequests \cup {None}
  /\ load \in [Slots -> Loads \cup {None}]
  /\ session \in Tokens \cup {None}

Out == busy \/ loading

\* A component as it is constructed, and what ngOnInit makes of the token.
Fresh ==
  /\ authMode' = "native" /\ registering' = FALSE /\ needsConfirmation' = FALSE
  /\ username' = None /\ email' = None
  /\ books' = None
  /\ busy' = FALSE /\ auth' = None
  /\ rushed' = FALSE /\ foreign' = FALSE

Init ==
  /\ owner = [k \in Tokens |-> None] /\ live = {} /\ stored = None
  /\ authMode = "native" /\ registering = FALSE /\ needsConfirmation = FALSE
  /\ authenticated = FALSE /\ busy = FALSE /\ loading = FALSE
  /\ username = None /\ email = None
  /\ books = None
  /\ auth = None /\ load = [s \in Slots |-> None]
  /\ session = None /\ registered = None /\ rushed = FALSE /\ foreign = FALSE

-----------------------------------------------------------------------------
(* The form                                                                *)

\* The user does something, having waited for the answers or not.
Acts == rushed' = (rushed \/ Out) /\ UNCHANGED <<session, foreign>>

Rest == UNCHANGED <<server, stored, loading, books, load>>

SelectModeOnly ==
  /\ ~authenticated
  /\ authMode' = IF authMode = "native" THEN "cognito" ELSE "native"
  /\ registering' = FALSE
  /\ Acts /\ Rest
  /\ UNCHANGED <<needsConfirmation, authenticated, busy, fields, auth, registered>>
SelectMode ==
  /\ ~authenticated
  /\ authMode' = IF authMode = "native" THEN "cognito" ELSE "native"
  /\ registering' = FALSE
  /\ needsConfirmation' = FALSE
  /\ registered' = None
  /\ Acts /\ Rest
  /\ UNCHANGED <<authenticated, busy, fields, auth>>

ToggleRegistering ==
  /\ ~authenticated /\ ~needsConfirmation
  /\ registering' = ~registering
  /\ Acts /\ Rest
  /\ UNCHANGED <<authMode, needsConfirmation, authenticated, busy, fields, auth,
                 registered>>

TypeAnywhere ==
  /\ ~authenticated
  /\ email' \in Users \cup {None}
  /\ Acts /\ Rest
  /\ UNCHANGED <<form, authenticated, busy, username, auth, registered>>
Type ==
  /\ ~authenticated /\ ~needsConfirmation
  /\ \/ email' \in Users \cup {None} /\ UNCHANGED username
     \/ /\ authMode = "native" /\ registering
        /\ username' \in Users \cup {None}
        /\ UNCHANGED email
  /\ Acts /\ Rest
  /\ UNCHANGED <<form, authenticated, busy, auth, registered>>

\* Whom the request is about: a native sign-in prefers the username, which
\* may be left from a registration (app.component.ts:52).
Named ==
  IF authMode = "native" /\ ~registering /\ username # None THEN username
  ELSE email

Send(request) ==
  /\ auth' = request
  /\ busy' = TRUE
  /\ Rest
  /\ UNCHANGED <<form, authenticated, fields, history>>

submitAuthentication ==
  /\ ~authenticated /\ ~needsConfirmation /\ ~busy
  /\ Send(IF authMode = "cognito" /\ registering
          THEN [kind |-> "register", user |-> email, answer |-> None]
          ELSE [kind |-> "session", user |-> Named, token |-> None,
                answer |-> None])

confirmCognitoAccount ==
  /\ ~authenticated /\ needsConfirmation /\ ~busy
  /\ Send([kind |-> "confirm", user |-> email, answer |-> None])

-----------------------------------------------------------------------------
(* The answers                                                             *)

Answered(kinds, answer) ==
  auth # None /\ auth.kind \in kinds /\ auth.answer = answer

\* loadBooks, with the token of localStorage.
LoadBooks ==
  /\ loading' = TRUE
  /\ \E s \in Slots :
       /\ load[s] = None /\ \A r \in 1..(s - 1) : load[r] # None
       /\ load' = [load EXCEPT ![s] = [token |-> stored', answer |-> None]]

\* The form may have changed since the request was sent.
Registered ==
  /\ Answered({"register"}, "ok")
  /\ IF registering /\ authMode = "cognito"
     THEN needsConfirmation' = TRUE /\ registered' = auth.user
     ELSE UNCHANGED <<needsConfirmation, registered>>
  /\ auth' = None /\ busy' = FALSE
  /\ Rest
  /\ UNCHANGED <<authMode, registering, authenticated, fields, session, rushed,
                 foreign>>

SignedIn ==
  /\ Answered({"session"}, "ok")
  /\ stored' = auth.token
  /\ authenticated' = TRUE
  /\ session' = auth.token
  /\ foreign' = FALSE
  /\ LoadBooks
  /\ auth' = None /\ busy' = FALSE
  /\ UNCHANGED <<server, form, fields, books, registered, rushed>>

Confirmed ==
  /\ Answered({"confirm"}, "ok")
  /\ needsConfirmation' = FALSE
  /\ registering' = FALSE
  /\ registered' = None
  /\ auth' = None /\ busy' = FALSE
  /\ Rest
  /\ UNCHANGED <<authMode, authenticated, fields, session, rushed, foreign>>

AuthFailed ==
  /\ Answered({"session", "register", "confirm"}, "failed")
  /\ auth' = None /\ busy' = FALSE
  /\ Rest
  /\ UNCHANGED <<form, authenticated, fields, history>>

AuthAnswered == Registered \/ SignedIn \/ Confirmed \/ AuthFailed

signOutKeepingBooks ==
  /\ stored' = None
  /\ authenticated' = FALSE
  /\ session' = None
  /\ foreign' = FALSE
  /\ UNCHANGED books
signOutHere ==
  /\ authenticated' = FALSE
  /\ books' = None
  /\ session' = None
  /\ foreign' = FALSE
  /\ UNCHANGED stored
signOut ==
  /\ stored' = None
  /\ authenticated' = FALSE
  /\ books' = None
  /\ session' = None
  /\ foreign' = FALSE

ClickSignOut ==
  /\ authenticated
  /\ signOut
  /\ rushed' = (rushed \/ Out)
  /\ UNCHANGED <<server, form, busy, loading, fields, auth, load, registered>>

BooksLoaded(s) ==
  /\ load[s] # None /\ load[s].answer = "ok"
  /\ books' = owner[load[s].token]
  /\ loading' = FALSE
  /\ load' = [load EXCEPT ![s] = None]
  /\ UNCHANGED <<server, stored, form, authenticated, busy, fields, auth, history>>

LoadFailedAnyhow(s) ==
  /\ load[s] # None /\ load[s].answer \in {"401", "failed"}
  /\ signOut
  /\ loading' = FALSE
  /\ load' = [load EXCEPT ![s] = None]
  /\ UNCHANGED <<server, form, busy, fields, auth, registered, rushed>>
LoadFailedSpinning(s) ==
  /\ load[s] # None /\ load[s].answer \in {"401", "failed"}
  /\ IF load[s].answer = "401" THEN signOut
     ELSE UNCHANGED <<stored, authenticated, books, session, foreign>>
  /\ load' = [load EXCEPT ![s] = None]
  /\ UNCHANGED <<server, form, busy, loading, fields, auth, registered, rushed>>
LoadFailed(s) ==
  /\ load[s] # None /\ load[s].answer \in {"401", "failed"}
  /\ IF load[s].answer = "401" THEN signOut
     ELSE UNCHANGED <<stored, authenticated, books, session, foreign>>
  /\ loading' = FALSE
  /\ load' = [load EXCEPT ![s] = None]
  /\ UNCHANGED <<server, form, busy, fields, auth, registered, rushed>>

LoadAnswered(s) == BooksLoaded(s) \/ LoadFailed(s)

-----------------------------------------------------------------------------
(* The server, the other tabs, and a reload of the page                    *)

\* A sign-in that is granted gives its user the next token.
NewToken(u, k) ==
  /\ owner[k] = None /\ \A j \in 1..(k - 1) : owner[j] # None
  /\ owner' = [owner EXCEPT ![k] = u]
  /\ live' = live \cup {k}

Unserved == auth # None /\ auth.answer = None

ServeAuth ==
  /\ Unserved
  /\ \/ auth' = [auth EXCEPT !.answer = "failed"] /\ UNCHANGED server
     \/ /\ auth.kind # "session" /\ auth.user # None
        /\ auth' = [auth EXCEPT !.answer = "ok"]
        /\ UNCHANGED server
     \/ /\ auth.kind = "session" /\ auth.user # None
        /\ \E k \in Tokens :
             /\ NewToken(auth.user, k)
             /\ auth' = [auth EXCEPT !.answer = "ok", !.token = k]
  /\ UNCHANGED <<stored, form, authenticated, busy, loading, fields, books, load,
                 history>>

ServeLoad(s) ==
  /\ load[s] # None /\ load[s].answer = None
  /\ \E answer \in {"failed", IF load[s].token \in live THEN "ok" ELSE "401"} :
       load' = [load EXCEPT ![s].answer = answer]
  /\ UNCHANGED <<server, stored, form, authenticated, busy, loading, fields,
                 books, auth, history>>

Expire ==
  /\ \E k \in live : live' = live \ {k}
  /\ UNCHANGED <<owner, stored, form, authenticated, busy, loading, fields, books,
                 auth, load, history>>

\* Another tab signs in or out.
OtherTab ==
  /\ \/ stored # None /\ stored' = None /\ UNCHANGED server
     \/ \E u \in Users, k \in Tokens : NewToken(u, k) /\ stored' = k
  /\ foreign' = TRUE
  /\ UNCHANGED <<form, authenticated, busy, loading, fields, books, auth, load,
                 session, registered, rushed>>

\* ngOnInit takes up a stored token.
Reload ==
  /\ Fresh
  /\ authenticated' = (stored # None)
  /\ session' = stored
  /\ loading' = (stored # None)
  /\ IF stored = None THEN load' = [s \in Slots |-> None]
     ELSE load' = [[s \in Slots |-> None] EXCEPT
                     ![1] = [token |-> stored, answer |-> None]]
  /\ registered' = None
  /\ UNCHANGED <<server, stored>>

Next ==
  \/ SelectMode
  \/ ToggleRegistering
  \/ Type
  \/ submitAuthentication
  \/ confirmCognitoAccount
  \/ AuthAnswered
  \/ ClickSignOut
  \/ \E s \in Slots : LoadAnswered(s) \/ ServeLoad(s)
  \/ ServeAuth
  \/ Expire
  \/ OtherTab
  \/ Reload

Spec == Init /\ [][Next]_vars

\* Requests are answered, or fail, and the browser runs the callbacks.
FairSpec ==
  /\ Spec
  /\ WF_vars(ServeAuth) /\ WF_vars(AuthAnswered)
  /\ \A s \in Slots : WF_vars(ServeLoad(s)) /\ WF_vars(LoadAnswered(s))

-----------------------------------------------------------------------------
(* Properties                                                              *)

\* The confirmation form is only ever shown to a user who is registering
\* with Cognito and is not signed in, whatever was clicked while the answers
\* were out (app.component.ts:57-61).
OneForm ==
  needsConfirmation => ~authenticated /\ registering /\ authMode = "cognito"

\* For users who wait: "the confirmation code sent to {{ email }}"
\* (app.component.html:51) names the address that was registered.
ConfirmsRegistered == needsConfirmation /\ ~rushed => email = registered

\* For users who wait: the books are those of the session, and there are
\* none without one (app.component.ts:95-121).
BooksOfSession ==
  books # None /\ ~rushed => session # None /\ books = owner[session]

\* Unless another tab changed the token, the stored token is the one of the
\* session: a reload neither loses a session nor brings back one that ended
\* (app.component.ts:34-39), however late answers come.
TokenIsSession == ~foreign => stored = session /\ authenticated = (session # None)

\* For users who wait: a session ends because they end it, or because its
\* token is over (app.component.ts:111-117).
SessionEndsForCause ==
  [][authenticated /\ ~authenticated' /\ ~rushed =>
       session \notin live \/ ClickSignOut \/ Reload]_vars

\* Unless the page is reloaded for ever, no button stays disabled and no
\* list stays hidden behind a request.
AnswersComeBack ==
  \/ []<><<Reload>>_vars
  \/ (busy ~> ~busy) /\ (loading ~> ~loading)
=============================================================================
